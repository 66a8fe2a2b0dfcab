------------------------------- MODULE TuiProofs -------------------------------
(***************************************************************************)
(* Parts of the interface, for every value of their constants:             *)
(* LeaderWindow of module Keymap, EventsKeepTheSelection of SessionPicker, *)
(* WalkKeepsDraft of Prompt, and that StoreFold implements Transcript.     *)
(*                                                                         *)
(* Leader: the timer of the last press is under way for as long as the     *)
(* leader is pending, and those of earlier presses have other generations. *)
(*                                                                         *)
(* Selection: the rows that are built anew have one place at least for the *)
(* session that was selected, and the first of them is selected then.      *)
(*                                                                         *)
(* Walk: the property is inductive once the line is known to have no       *)
(* newline, which is what the input would take from it on the way back.    *)
(*                                                                         *)
(* Store: ids stay unique, and every entry of the index names the place of *)
(* its part, with a shadow that is what the part reads there.              *)
(***************************************************************************)
EXTENDS StoreFold, ClientParts, WellFoundedInduction, FiniteSetTheorems, SequenceTheorems, TLAPS

-----------------------------------------------------------------------------
(* The leader key. *)

\* No timer is overdue, and the one of the last press has its generation.
TicksInv ==
  \A t \in ticks :
    /\ t.gen \in Nat /\ t.gen =< leaderGen
    /\ t.due \in Nat /\ clock =< t.due
    /\ t.gen = leaderGen /\ lastLeader # 0 => t.due = lastLeader + LeaderTimeout

\* A pending leader has its timer; one that is pending no more, without a key, had its time.
PendingInv ==
  /\ pendingLeader => lastLeader # 0 /\ \E t \in ticks : t.gen = leaderGen
  /\ lastLeader # 0 /\ ~pendingLeader => lastLeader + LeaderTimeout =< clock

LeaderInv ==
  /\ clock \in Nat \ {0} /\ leaderGen \in Nat /\ lastLeader \in Nat
  /\ TicksInv /\ PendingInv

LEMMA LeaderInit == Ky!Init => LeaderInv
  BY DEF Ky!Init, LeaderInv, TicksInv, PendingInv

LEMMA PressLeaderNext ==
  ASSUME LeaderInv, NEW k, Ky!PressLeader(k)
  PROVE  LeaderInv'
<1> USE KeymapAssumption
<1> DEFINE new == [gen |-> leaderGen + 1, due |-> clock + LeaderTimeout]
<1>1. /\ pendingLeader' = TRUE /\ leaderGen' = leaderGen + 1 /\ ticks' = ticks \cup {new}
      /\ lastLeader' = clock /\ clock' = clock
  BY DEF Ky!PressLeader
<1>2. new.gen = leaderGen + 1 /\ new.due = clock + LeaderTimeout
  OBVIOUS
<1> HIDE DEF new
<1>3. \A t \in ticks : t.gen # leaderGen + 1 /\ t.gen =< leaderGen + 1
  BY DEF LeaderInv, TicksInv
<1>4. TicksInv'
  BY <1>1, <1>2, <1>3 DEF LeaderInv, TicksInv
<1>5. PendingInv'
  BY <1>1, <1>2 DEF LeaderInv, PendingInv
<1> QED BY <1>1, <1>4, <1>5 DEF LeaderInv

LEMMA LeaderNext ==
  LeaderInv /\ [Ky!Next]_(Ky!vars) => LeaderInv'
<1> SUFFICES ASSUME LeaderInv, [Ky!Next]_(Ky!vars) PROVE LeaderInv'
  OBVIOUS
<1> USE KeymapAssumption
<1>1. ASSUME NEW k, Ky!Press(k) PROVE LeaderInv'
  BY <1>1 DEF Ky!Press, LeaderInv, TicksInv, PendingInv
<1>2. ASSUME NEW t \in ticks, Ky!LeaderTimeoutMsg(t) PROVE LeaderInv'
  <2>1. /\ t.due =< clock /\ ticks' = ticks \ {t}
        /\ pendingLeader' = IF t.gen = leaderGen THEN FALSE ELSE pendingLeader
        /\ UNCHANGED <<leaderGen, clock, lastLeader>>
    BY <1>2 DEF Ky!LeaderTimeoutMsg
  <2>2. TicksInv'
    BY <2>1 DEF LeaderInv, TicksInv
  <2>3. PendingInv'
    BY <2>1 DEF LeaderInv, TicksInv, PendingInv
  <2> QED BY <2>1, <2>2, <2>3 DEF LeaderInv
<1>3. CASE Ky!Tick
  BY <1>3 DEF Ky!Tick, LeaderInv, TicksInv, PendingInv
<1>4. CASE Ky!Modal
  BY <1>4 DEF Ky!Modal, LeaderInv, TicksInv, PendingInv
<1>5. CASE UNCHANGED Ky!vars
  BY <1>5 DEF Ky!vars, LeaderInv, TicksInv, PendingInv
<1> QED BY <1>1, <1>2, <1>3, <1>4, <1>5, PressLeaderNext DEF Ky!Next

\* Whatever the bindings, however often it is pressed and whoever owns the keys: after its
\* last press the leader waits for a key for the whole of its time, and no longer
\* (leaderTimeoutMsg and its generation, tui/app.go).
THEOREM LeaderWindowSafety ==
  Ky!Spec => []LeaderWindow
<1>1. LeaderInv => LeaderWindow
  BY KeymapAssumption DEF LeaderWindow, LeaderInv, TicksInv, PendingInv, Ky!LeaderWindow
<1> QED BY <1>1, LeaderInit, LeaderNext, PTL DEF Ky!Spec

-----------------------------------------------------------------------------
(* The session picker. *)

\* What the counters of the smallest index rest on: naturals have a least one.
LEMMA Smallest ==
  ASSUME NEW T \in SUBSET Nat, T # {}
  PROVE  \E x \in T : \A y \in T : x =< y
<1>1. IsWellFoundedOn(OpToRel(<, Nat), Nat)
  BY NatLessThanWellFounded
<1>2. PICK x \in T : \A y \in T : <<y, x>> \notin OpToRel(<, Nat)
  BY <1>1, WFMin
<1>3. \A y \in T : ~(y < x)
  BY <1>2 DEF OpToRel
<1> QED BY <1>3

\* The first row of a session, if it has one.
RowOf(opts, s) == Pk!SelectInSeq(opts, LAMBDA r : r.id = s)

LEMMA FirstRow ==
  ASSUME NEW opts, NEW n \in Nat, DOMAIN opts = 1 .. n, Len(opts) = n, NEW s, s \in Pk!Ids(opts)
  PROVE  RowOf(opts, s) \in 1 .. n /\ opts[RowOf(opts, s)].id = s
<1> DEFINE I == {i \in 1 .. Len(opts) : opts[i].id = s}
<1>1. I # {} /\ I \subseteq Nat
  BY DEF Pk!Ids
<1>2. RowOf(opts, s) = Pk!Min(I)
  BY <1>1 DEF RowOf, Pk!SelectInSeq
<1>3. Pk!Min(I) \in I
  BY <1>1, Smallest DEF Pk!Min
<1> QED BY <1>2, <1>3

\* The rows are numbered from one.
LEMMA RowsAreNumbered ==
  ASSUME NEW list, NEW typed
  PROVE  \E n \in Nat : DOMAIN Pk!SessionOptions(list, typed) = 1 .. n
                        /\ Len(Pk!SessionOptions(list, typed)) = n
<1> DEFINE n == Pk!Cardinality(Pk!Shown(list, typed))
<1>1. n \in Nat
  <2>1. Pk!Shown(list, typed) \subseteq Session
    BY DEF Pk!Shown
  <2>2. Cardinality(Pk!Shown(list, typed)) \in Nat
    BY <2>1, PickerAssumption, FS_Subset, FS_CardinalityType
  <2>3. n = Cardinality(Pk!Shown(list, typed))
    BY DEF Cardinality, Pk!Cardinality
  <2> QED BY <2>2, <2>3
<1>2. DOMAIN Pk!SessionOptions(list, typed) = 1 .. n
  BY DEF Pk!SessionOptions
<1> HIDE DEF n
<1>3. Len(Pk!SessionOptions(list, typed)) = n
  BY <1>1, <1>2
<1> QED BY <1>1, <1>2, <1>3

\* Events are taken in the order they were put.
WireInv == wire \in Seq([id : Session, time : Nat]) /\ changes \in Nat

\* Only an event that arrives makes the queue of them shorter.
LEMMA OnlyArrivalsShorten ==
  ASSUME WireInv, [Pk!Next]_(Pk!vars)
  PROVE  Pk!EventArrives \/ ~(Len(wire') < Len(wire))
<1>1. Len(wire) \in Nat /\ ~(Len(wire) < Len(wire))
  BY DEF WireInv
<1>2. ASSUME NEW s \in Session, NEW time, Pk!Happens(s, time)
      PROVE  ~(Len(wire') < Len(wire))
  <2>1. wire' = Append(wire, [id |-> s, time |-> time])
    BY <1>2 DEF Pk!Happens
  <2> QED BY <1>1, <2>1
<1>3. ASSUME wire' = wire PROVE ~(Len(wire') < Len(wire))
  BY <1>1, <1>3
<1> USE DEF Pk!Press, Pk!data
<1>4. \/ Pk!OpenSessionListDialog \/ Pk!Type \/ Pk!DeleteKey \/ Pk!Submit \/ Pk!Close
      \/ Pk!ListRead
      => wire' = wire
  BY DEF Pk!OpenSessionListDialog, Pk!Type, Pk!DeleteKey, Pk!Submit, Pk!Close, Pk!ListRead
<1>5. ASSUME NEW to, Pk!Moves(to) PROVE wire' = wire
  BY <1>5 DEF Pk!Moves
<1>6. ASSUME NEW delta, Pk!PageScroll(delta) PROVE wire' = wire
  BY <1>6 DEF Pk!PageScroll
<1>7. ASSUME NEW h, Pk!Resize(h) PROVE wire' = wire
  BY <1>7 DEF Pk!Resize
<1>8. ASSUME NEW a, Pk!ListArrives(a) \/ Pk!StatusArrives(a) PROVE wire' = wire
  BY <1>8 DEF Pk!ListArrives, Pk!StatusArrives
<1>9. UNCHANGED Pk!vars => wire' = wire
  BY DEF Pk!vars
<1> QED BY <1>2, <1>3, <1>4, <1>5, <1>6, <1>7, <1>8, <1>9 DEF Pk!Next

LEMMA WireInit == Pk!Init => WireInv
  BY DEF Pk!Init, WireInv

LEMMA WireNext ==
  ASSUME WireInv, [Pk!Next]_(Pk!vars)
  PROVE  WireInv'
<1>1. ASSUME NEW s \in Session, NEW time \in {0, Pk!Now}, Pk!Happens(s, time)
      PROVE  WireInv'
  <2>1. /\ wire' = Append(wire, [id |-> s, time |-> time])
        /\ changes' = changes + 1
    BY <1>1 DEF Pk!Happens, Pk!Change
  <2>2. Cardinality(Session) = Pk!Cardinality(Session)
    BY DEF Cardinality, Pk!Cardinality
  <2>3. time \in Nat
    BY <2>2, PickerAssumption, FS_CardinalityType DEF Pk!Now, WireInv
  <2>4. [id |-> s, time |-> time] \in [id : Session, time : Nat]
    BY <2>3
  <2> QED BY <2>1, <2>4 DEF WireInv
<1>2. CASE Pk!EventArrives
  <2>1. wire # <<>> /\ wire' = Tail(wire) /\ changes' = changes
    BY <1>2 DEF Pk!EventArrives
  <2>2. Tail(wire) \in Seq([id : Session, time : Nat])
    BY <2>1 DEF WireInv
  <2> QED BY <2>1, <2>2 DEF WireInv
<1>3. CASE Pk!ListRead
  BY <1>3 DEF Pk!ListRead, Pk!Change, WireInv
<1>4. ASSUME UNCHANGED <<wire, changes>> PROVE WireInv'
  BY <1>4 DEF WireInv
<1> USE DEF Pk!Press, Pk!data
<1>5. \/ Pk!OpenSessionListDialog \/ Pk!Type \/ Pk!DeleteKey \/ Pk!Submit \/ Pk!Close
      => UNCHANGED <<wire, changes>>
  BY DEF Pk!OpenSessionListDialog, Pk!Type, Pk!DeleteKey, Pk!Submit, Pk!Close
<1>6. ASSUME NEW to, Pk!Moves(to) PROVE UNCHANGED <<wire, changes>>
  BY <1>6 DEF Pk!Moves
<1>7. ASSUME NEW delta, Pk!PageScroll(delta) PROVE UNCHANGED <<wire, changes>>
  BY <1>7 DEF Pk!PageScroll
<1>8. ASSUME NEW h, Pk!Resize(h) PROVE UNCHANGED <<wire, changes>>
  BY <1>8 DEF Pk!Resize
<1>9. ASSUME NEW a, Pk!ListArrives(a) \/ Pk!StatusArrives(a) PROVE UNCHANGED <<wire, changes>>
  BY <1>9 DEF Pk!ListArrives, Pk!StatusArrives
<1>10. UNCHANGED Pk!vars => UNCHANGED <<wire, changes>>
  BY DEF Pk!vars
<1> QED BY <1>1, <1>2, <1>3, <1>4, <1>5, <1>6, <1>7, <1>8, <1>9, <1>10 DEF Pk!Next

\* An event that arrives while the list is closed shows no row, and otherwise selects the
\* row that was selected.
LEMMA ArrivalKeeps ==
  ASSUME Pk!EventArrives, Pk!Picked \in Pk!Ids(options')
  PROVE  Pk!Picked' = Pk!Picked
<1>1. open' = open
  BY DEF Pk!EventArrives
<1>2. CASE ~open
  BY <1>1, <1>2 DEF Pk!Picked
<1>3. CASE open
  <2>1. /\ options' = Pk!SessionOptions(sessions', needle')
        /\ row' = IF options' = <<>> THEN 0
                  ELSE IF RowOf(options', Pk!Picked) = 0 THEN Len(options') - 1
                  ELSE RowOf(options', Pk!Picked) - 1
    BY <1>3 DEF Pk!EventArrives, Pk!SyncSessionSel, Pk!RebuildSessionOptions, RowOf
  <2>2. PICK n \in Nat : DOMAIN options' = 1 .. n /\ Len(options') = n
    BY <2>1, RowsAreNumbered
  <2> DEFINE at == RowOf(options', Pk!Picked)
  <2>3. at \in 1 .. n /\ options'[at].id = Pk!Picked
    BY <2>2, FirstRow
  <2>4. options' # <<>>
    BY <2>2, <2>3
  <2> HIDE DEF at
  <2>5. row' = at - 1
    BY <2>1, <2>3, <2>4 DEF at
  <2>6. row' < Len(options') /\ row' + 1 = at
    BY <2>2, <2>3, <2>5
  <2> QED BY <1>1, <1>3, <2>3, <2>6 DEF Pk!Picked
<1> QED BY <1>2, <1>3

\* Whatever sessions other clients create, rename, answer in or delete, and whatever presses
\* come between: an event leaves the same session selected as long as it has a row
\* (syncSessionSel, tui/sessionsdlg.go).
THEOREM EventsKeepTheSelectionSafety ==
  Pk!Spec => EventsKeepTheSelection
<1>1. ASSUME WireInv, [Pk!Next]_(Pk!vars)
      PROVE  [Len(wire') < Len(wire) /\ Pk!Picked \in Pk!Ids(options')
                => Pk!Picked' = Pk!Picked]_(Pk!vars)
  BY <1>1, OnlyArrivalsShorten, ArrivalKeeps
<1> QED BY <1>1, WireInit, WireNext, PTL DEF Pk!Spec, EventsKeepTheSelection, Pk!EventsKeepTheSelection

-----------------------------------------------------------------------------
(* The prompt. *)

OneLine == Seq(Letters)
ManyLines == Seq(Letters \cup {"nl"})

LineTypes ==
  /\ input \in OneLine /\ mine \in OneLine /\ histOrig \in OneLine
  /\ draft \in ManyLines /\ past \in Seq(ManyLines) /\ flight \in Seq(ManyLines)
  /\ histIdx \in Int /\ histIdx =< 0 /\ lost \in BOOLEAN
WalkInv == LineTypes /\ Pr!WalkKeepsDraft

\* Parts of lines, and the places in them.
LEMMA PieceOf ==
  ASSUME NEW S, NEW l \in Seq(S), NEW m \in Nat \ {0}, NEW n \in Int, n =< Len(l)
  PROVE  SubSeq(l, m, n) \in Seq(S)
  OBVIOUS

LEMMA Greatest ==
  ASSUME NEW n \in Nat, NEW T \in SUBSET (1 .. n), T # {}
  PROVE  Pr!Max(T) \in T
<1> DEFINE behind == {n - x : x \in T}
<1>1. behind \in SUBSET Nat /\ behind # {}
  <2>1. \A x \in T : n - x \in Nat
    OBVIOUS
  <2>2. behind # {}
    OBVIOUS
  <2> QED BY <2>1, <2>2
<1>2. PICK y \in behind : \A z \in behind : y =< z
  BY <1>1, Smallest
<1>3. PICK x \in T : y = n - x
  OBVIOUS
<1>4. \A z \in T : x >= z
  <2> TAKE z \in T
  <2>1. n - x =< n - z
    BY <1>2, <1>3
  <2> QED BY <2>1
<1> QED BY <1>4 DEF Pr!Max

LEMMA Trimmed ==
  ASSUME NEW S, NEW l \in Seq(S)
  PROVE  Pr!Trim(l) \in Seq(S)
<1> DEFINE letters == {i \in DOMAIN l : l[i] \notin Pr!Blank}
<1>1. CASE letters = {}
  BY <1>1 DEF Pr!Trim
<1>2. CASE letters # {}
  <2>1. /\ letters \in SUBSET (1 .. Len(l)) /\ letters \in SUBSET Nat /\ Len(l) \in Nat
        /\ \A i \in letters : i \in Nat \ {0} /\ i \in Int /\ i =< Len(l)
    OBVIOUS
  <2>2. Pr!Max(letters) \in letters
    BY <1>2, <2>1, Greatest
  <2>3. Pr!Min(letters) \in letters
    BY <1>2, <2>1, Smallest DEF Pr!Min
  <2>4. Pr!Trim(l) = SubSeq(l, Pr!Min(letters), Pr!Max(letters))
    BY <1>2 DEF Pr!Trim
  <2> HIDE DEF letters
  <2>5. Pr!Min(letters) \in Nat \ {0} /\ Pr!Max(letters) \in Int /\ Pr!Max(letters) =< Len(l)
    BY <2>1, <2>2, <2>3
  <2> QED BY <2>4, <2>5, PieceOf
<1> QED BY <1>1, <1>2

LEMMA TriggerInLine ==
  ASSUME NEW S, NEW l \in Seq(S)
  PROVE  Pr!MentionTriggerIndex(l) \in 0 .. Len(l)
<1> DEFINE signs == {i \in 1 .. Len(l) : l[i] = "@"}
           last == Pr!SelectLastInSeq(l, LAMBDA c : c = "@")
<1>1. last = IF signs # {} THEN Pr!Max(signs) ELSE 0
  BY DEF Pr!SelectLastInSeq
<1>2. signs # {} => Pr!Max(signs) \in signs
  <2>1. Len(l) \in Nat /\ signs \in SUBSET (1 .. Len(l))
    OBVIOUS
  <2> HIDE DEF signs
  <2> QED BY <2>1, Greatest
<1>3. last \in 0 .. Len(l)
  BY <1>1, <1>2
<1>4. Pr!MentionTriggerIndex(l) \in {0, last}
  BY DEF Pr!MentionTriggerIndex
<1> HIDE DEF last
<1> QED BY <1>3, <1>4

\* An entry joins the history, which gives up its oldest.
LEMMA Remembered ==
  ASSUME NEW h \in Seq(ManyLines), NEW text \in ManyLines
  PROVE  Pr!AppendHistory(h, text) \in Seq(ManyLines)
<1> DEFINE all == Append(h, text)
<1>1. all \in Seq(ManyLines) /\ Len(all) \in Nat
  OBVIOUS
<1>2. \/ Pr!AppendHistory(h, text) = h
      \/ \E m \in {1, 2} : Pr!AppendHistory(h, text) = SubSeq(all, m, Len(all))
  BY DEF Pr!AppendHistory
<1> HIDE DEF all
<1>3. \A m \in {1, 2} : SubSeq(all, m, Len(all)) \in Seq(ManyLines)
  BY <1>1, PieceOf
<1> QED BY <1>2, <1>3

\* What is put into the input loses its newlines; one line has none to lose.
LEMMA Sanitary ==
  /\ \A l \in ManyLines : Pr!Sanitized(l) \in OneLine
  /\ \A l \in OneLine : Pr!Sanitized(l) = l
<1>1. ASSUME NEW l \in ManyLines PROVE Pr!Sanitized(l) \in OneLine
  <2>1. /\ Len(l) \in Nat /\ DOMAIN l = 1 .. Len(l)
        /\ \A i \in 1 .. Len(l) : l[i] \in Letters \cup {"nl"}
    BY DEF ManyLines
  <2>2. Pr!Sanitized(l) \in [1 .. Len(l) -> Letters]
    BY <2>1, PromptAssumption DEF Pr!Sanitized
  <2> QED BY <2>1, <2>2 DEF OneLine
<1>2. ASSUME NEW l \in OneLine PROVE Pr!Sanitized(l) = l
  <2>1. /\ l = [i \in DOMAIN l |-> l[i]]
        /\ \A i \in DOMAIN l : l[i] \in Letters
    BY DEF OneLine
  <2> QED BY <2>1, PromptAssumption DEF Pr!Sanitized
<1> QED BY <1>1, <1>2

\* A walk that takes a step, and one that is held.
LEMMA RecallKeeps ==
  ASSUME WalkInv, NEW dir \in {-1, 1}, Pr!RecallHistory(dir)
  PROVE  WalkInv'
<1> DEFINE orig == IF past # <<>> /\ histIdx = 0 /\ dir < 0 THEN input ELSE histOrig
           next == histIdx + dir
<1>1. /\ histOrig' = orig /\ UNCHANGED <<past, mine, lost, draft, flight>>
      /\ \/ UNCHANGED <<histIdx, input>>
         \/ /\ next \in (-Len(past))..0 /\ histIdx' = next
            /\ input' = Pr!Sanitized(IF next = 0 THEN orig ELSE Pr!HistoryTextAt(next))
            /\ past # <<>>
  BY DEF Pr!RecallHistory
<1>2. CASE UNCHANGED <<histIdx, input>>
  BY <1>1, <1>2 DEF WalkInv, LineTypes, Pr!WalkKeepsDraft
<1>3. CASE /\ next \in (-Len(past))..0 /\ histIdx' = next
           /\ input' = Pr!Sanitized(IF next = 0 THEN orig ELSE Pr!HistoryTextAt(next))
           /\ past # <<>>
  <2>1. past \in Seq(ManyLines) /\ Len(past) \in Nat /\ next \in Int /\ next =< 0
    BY <1>3 DEF WalkInv, LineTypes
  <2>2. orig \in OneLine /\ (~lost => orig = mine)
    <3>1. CASE histIdx = 0
      <4>1. dir < 0
        BY <1>3, <3>1, <2>1
      <4> QED BY <1>3, <3>1, <4>1 DEF WalkInv, LineTypes, Pr!WalkKeepsDraft
    <3>2. CASE histIdx # 0
      BY <3>2 DEF WalkInv, LineTypes, Pr!WalkKeepsDraft
    <3> QED BY <3>1, <3>2
  <2> HIDE DEF orig
  <2>3. CASE next = 0
    <3>1. input' = orig
      BY <1>3, <2>2, <2>3, Sanitary
    <3> QED BY <1>1, <1>3, <2>1, <2>2, <2>3, <3>1 DEF WalkInv, LineTypes, Pr!WalkKeepsDraft
  <2>4. CASE next # 0
    <3>1. Len(past) + next + 1 \in 1 .. Len(past)
      BY <1>3, <2>1, <2>4
    <3>2. Pr!HistoryTextAt(next) \in ManyLines
      BY <2>1, <2>4, <3>1 DEF Pr!HistoryTextAt
    <3>3. input' \in OneLine
      BY <1>3, <2>4, <3>2, Sanitary
    <3> QED BY <1>1, <1>3, <2>1, <2>2, <2>4, <3>3 DEF WalkInv, LineTypes, Pr!WalkKeepsDraft
  <2> QED BY <2>3, <2>4
<1> QED BY <1>1, <1>2, <1>3

\* The user's own changes of the line, at the present or over an entry.
LEMMA TypedKeeps ==
  ASSUME WalkInv, NEW l \in OneLine, Pr!TypedNow(l),
         draft' \in ManyLines, UNCHANGED <<past, histIdx, histOrig, flight>>
  PROVE  WalkInv'
  BY DEF WalkInv, LineTypes, Pr!WalkKeepsDraft, Pr!TypedNow

\* What ends the walk with a line of its own.
LEMMA PresentKeeps ==
  ASSUME WalkInv, NEW l \in OneLine, Pr!EndWalk(l), UNCHANGED histOrig,
         draft' \in ManyLines, past' \in Seq(ManyLines), flight' \in Seq(ManyLines)
  PROVE  WalkInv'
<1>1. input' = l /\ histIdx' = 0 /\ lost' \in BOOLEAN
  BY DEF Pr!EndWalk
<1>2. histIdx = 0 => mine' = l
  BY DEF Pr!EndWalk
<1>3. histIdx # 0 => mine' = mine /\ lost'
  BY DEF Pr!EndWalk
<1>4. LineTypes'
  BY <1>1, <1>2, <1>3 DEF WalkInv, LineTypes
<1>5. Pr!WalkKeepsDraft'
  BY <1>1, <1>2, <1>3 DEF Pr!WalkKeepsDraft
<1> QED BY <1>4, <1>5 DEF WalkInv

LEMMA ClearedKeeps ==
  ASSUME WalkInv, Pr!Cleared, UNCHANGED histOrig,
         draft' \in ManyLines, past' \in Seq(ManyLines), flight' \in Seq(ManyLines)
  PROVE  WalkInv'
<1>1. <<>> \in OneLine
  BY DEF OneLine
<1> QED BY <1>1, PresentKeeps DEF Pr!Cleared

\* What changes the line in no way.
LEMMA SameKeeps ==
  ASSUME WalkInv, UNCHANGED <<input, mine, lost, draft, past, histIdx, histOrig>>,
         flight' \in Seq(ManyLines)
  PROVE  WalkInv'
  BY DEF WalkInv, LineTypes, Pr!WalkKeepsDraft

\* The line up to a place, with and without something behind it.
LEMMA Lines ==
  /\ <<>> \in OneLine /\ OneLine \subseteq ManyLines
  /\ \A l \in OneLine : l # <<>> => Pr!Front(l) \in OneLine
  /\ \A l, m \in OneLine : l \o m \in OneLine
  /\ \A l \in OneLine : \A t \in {"sp", "/"} : Append(l, t) \in OneLine
  /\ \A l, m \in ManyLines : l \o m \in ManyLines
  /\ <<"nl">> \in ManyLines
<1>1. <<>> \in OneLine /\ OneLine \subseteq ManyLines /\ <<"nl">> \in ManyLines
  BY DEF OneLine, ManyLines
<1>2. ASSUME NEW l \in OneLine, l # <<>> PROVE Pr!Front(l) \in OneLine
  BY <1>2, PieceOf DEF Pr!Front, OneLine
<1>3. \A l, m \in OneLine : l \o m \in OneLine
  BY DEF OneLine
<1>4. \A l \in OneLine : \A t \in {"sp", "/"} : Append(l, t) \in OneLine
  BY PromptAssumption DEF OneLine
<1>5. \A l, m \in ManyLines : l \o m \in ManyLines
  BY DEF ManyLines
<1> QED BY <1>1, <1>2, <1>3, <1>4, <1>5

LEMMA ClearPromptKeeps ==
  ASSUME WalkInv, Pr!ClearPrompt, UNCHANGED <<draft, flight>>
  PROVE  WalkInv'
<1>1. /\ input \in OneLine /\ draft \in ManyLines /\ past \in Seq(ManyLines)
      /\ flight \in Seq(ManyLines)
  BY DEF WalkInv, LineTypes
<1>2. Pr!Trim(input) \in ManyLines
  BY <1>1, Trimmed, Lines DEF OneLine
<1>3. past' \in Seq(ManyLines)
  BY <1>1, <1>2, Remembered DEF Pr!ClearPrompt
<1> QED BY <1>1, <1>3, ClearedKeeps DEF Pr!ClearPrompt

LEMMA AcApplyKeeps ==
  ASSUME WalkInv, NEW insert \in OneLine, Pr!AcApply(insert)
  PROVE  WalkInv'
<1> DEFINE line == SubSeq(input, 1, Pr!MentionTriggerIndex(input)) \o insert
<1>1. Pr!EndWalk(line) /\ UNCHANGED <<draft, past, histOrig, flight>>
  BY DEF Pr!AcApply
<1>2. line \in OneLine
  <2>1. input \in Seq(Letters)
    BY DEF WalkInv, LineTypes, OneLine
  <2>2. Len(input) \in Nat /\ Pr!MentionTriggerIndex(input) \in 0 .. Len(input)
    BY <2>1, TriggerInLine
  <2>3. SubSeq(input, 1, Pr!MentionTriggerIndex(input)) \in OneLine
    BY <2>1, <2>2, PieceOf DEF OneLine
  <2> QED BY <2>3, Lines
<1> HIDE DEF line
<1>3. draft \in ManyLines /\ past \in Seq(ManyLines) /\ flight \in Seq(ManyLines)
  BY DEF WalkInv, LineTypes
<1> QED BY <1>1, <1>2, <1>3, PresentKeeps

\* Everything that is picked from a menu is in the list the menu is made of.
LEMMA Picks ==
  /\ \A i \in Pr!Chosen(Pr!MenuItems) : SlashCommands[i] \in OneLine
  /\ \A i \in Pr!Chosen(Pr!MentionOptions) : Files[i].path \in OneLine
<1>1. ASSUME NEW names, NEW q, NEW uses, NEW i \in Pr!Chosen(Pr!Ranked(names, q, uses))
      PROVE  i \in DOMAIN names
  BY DEF Pr!Chosen, Pr!Ranked
<1>2. ASSUME NEW i \in Pr!Chosen(Pr!MenuItems) PROVE SlashCommands[i] \in OneLine
  <2>1. i \in DOMAIN SlashCommands
    BY <1>1 DEF Pr!MenuItems
  <2> QED BY <2>1, PromptAssumption DEF OneLine
<1>3. ASSUME NEW i \in Pr!Chosen(Pr!MentionOptions) PROVE Files[i].path \in OneLine
  <2>1. i \in DOMAIN Files
    BY <1>1 DEF Pr!MentionOptions
  <2> DEFINE paths == [path : Seq(Letters), dir : BOOLEAN]
  <2>2. Files \in Seq(paths)
    BY PromptAssumption
  <2> HIDE DEF paths
  <2>3. Files[i] \in paths
    BY <2>1, <2>2
  <2> QED BY <2>3 DEF OneLine, paths
<1> QED BY <1>2, <1>3

LEMMA PromptNext ==
  WalkInv /\ [Pr!Next]_(Pr!vars) => WalkInv'
<1> SUFFICES ASSUME WalkInv, [Pr!Next]_(Pr!vars) PROVE WalkInv'
  OBVIOUS
<1>0. /\ input \in OneLine /\ draft \in ManyLines /\ past \in Seq(ManyLines)
      /\ flight \in Seq(ManyLines)
  BY DEF WalkInv, LineTypes
<1>1. ASSUME NEW c, Pr!Char(c) PROVE WalkInv'
  <2>1. /\ Append(input, c) \in OneLine /\ Pr!TypedNow(Append(input, c))
        /\ UNCHANGED <<draft, past, histIdx, histOrig, flight>>
    BY <1>1, PromptAssumption DEF Pr!Char, Pr!InputUpdate, Pr!past, OneLine
  <2> QED BY <1>0, <2>1, TypedKeeps
<1>2. CASE Pr!Backspace
  <2>1. UNCHANGED <<draft, past, histIdx, histOrig, flight>>
    BY <1>2 DEF Pr!Backspace, Pr!past
  <2>2. CASE input # <<>>
    <3>1. Pr!Front(input) \in OneLine
      BY <1>0, <2>2, Lines
    <3>2. Pr!TypedNow(Pr!Front(input))
      BY <1>2, <2>2 DEF Pr!Backspace, Pr!InputUpdate
    <3> QED BY <1>0, <2>1, <3>1, <3>2, TypedKeeps
  <2>3. CASE input = <<>>
    <3>1. UNCHANGED <<input, mine, lost>>
      BY <1>2, <2>3 DEF Pr!Backspace
    <3> QED BY <1>0, <2>1, <3>1, SameKeeps
  <2> QED BY <2>2, <2>3
<1>3. CASE Pr!Bang
  BY <1>0, <1>3, SameKeeps DEF Pr!Bang, Pr!past
<1>4. ASSUME NEW dir \in {-1, 1}, Pr!Arrow(dir) PROVE WalkInv'
  <2>1. CASE Pr!Slash \/ Pr!Mention
    <3>1. UNCHANGED <<input, mine, lost, draft, past, histIdx, histOrig, flight>>
      BY <1>4, <2>1 DEF Pr!Arrow, Pr!past
    <3> QED BY <1>0, <3>1, SameKeeps
  <2>2. CASE ~(Pr!Slash \/ Pr!Mention)
    <3>1. Pr!RecallHistory(dir)
      BY <1>4, <2>2 DEF Pr!Arrow
    <3> QED BY <3>1, RecallKeeps
  <2> QED BY <2>1, <2>2
<1>5. CASE Pr!SlashTab
  <2>1. PICK i \in Pr!Chosen(Pr!MenuItems) : Pr!TypedNow(Append(SlashCommands[i], "sp"))
    BY <1>5 DEF Pr!SlashTab
  <2>2. UNCHANGED <<draft, past, histIdx, histOrig, flight>>
    BY <1>5 DEF Pr!SlashTab, Pr!past
  <2>3. Append(SlashCommands[i], "sp") \in OneLine
    BY Picks, Lines
  <2> QED BY <1>0, <2>1, <2>2, <2>3, TypedKeeps
<1>6. CASE Pr!AcTab
  <2>1. PICK i \in Pr!Chosen(Pr!MentionOptions) :
          Pr!AcApply(Append(Files[i].path, IF Files[i].dir THEN "/" ELSE "sp"))
    BY <1>6 DEF Pr!AcTab
  <2>2. Append(Files[i].path, IF Files[i].dir THEN "/" ELSE "sp") \in OneLine
    BY Picks, Lines
  <2> QED BY <2>1, <2>2, AcApplyKeeps
<1>7. CASE Pr!AcEnter
  <2>1. PICK i \in Pr!Chosen(Pr!MentionOptions) : Pr!AcApply(Append(Files[i].path, "sp"))
    BY <1>7 DEF Pr!AcEnter
  <2>2. Append(Files[i].path, "sp") \in OneLine
    BY Picks, Lines
  <2> QED BY <2>1, <2>2, AcApplyKeeps
<1>8. CASE Pr!MenuEnter
  <2>1. UNCHANGED <<draft, flight>>
    BY <1>8 DEF Pr!MenuEnter
  <2>2. (Pr!TypedNow(<<>>) /\ UNCHANGED <<past, histIdx, histOrig>>) \/ Pr!ClearPrompt
    BY <1>8 DEF Pr!MenuEnter, Pr!past
  <2> QED BY <1>0, <2>1, <2>2, Lines, TypedKeeps, ClearPromptKeeps
<1>9. CASE Pr!Enter
  <2>1. UNCHANGED <<past, histIdx, histOrig>>
    BY <1>9 DEF Pr!Enter, Pr!past
  <2>2. CASE input # <<>> /\ Pr!Last(input) = "\\"
    <3>1. /\ draft' = draft \o Pr!Front(input) \o <<"nl">>
          /\ Pr!TypedNow(<<>>) /\ UNCHANGED flight
      BY <1>9, <2>2 DEF Pr!Enter
    <3>2. Pr!Front(input) \in ManyLines
      BY <1>0, <2>2, Lines
    <3>3. draft' \in ManyLines
      BY <1>0, <3>1, <3>2, Lines
    <3> QED BY <1>0, <2>1, <3>1, <3>3, Lines, TypedKeeps
  <2>3. CASE ~(input # <<>> /\ Pr!Last(input) = "\\")
    <3>1. /\ flight' = Append(flight, draft \o Pr!Trim(input))
          /\ UNCHANGED <<input, draft, mine, lost>>
      BY <1>9, <2>3 DEF Pr!Enter
    <3>2. Pr!Trim(input) \in OneLine
      BY <1>0, Trimmed DEF OneLine
    <3>3. draft \o Pr!Trim(input) \in ManyLines
      BY <1>0, <3>2, Lines
    <3>4. flight' \in Seq(ManyLines)
      BY <1>0, <3>1, <3>3
    <3> QED BY <2>1, <3>1, <3>4, SameKeeps
  <2> QED BY <2>2, <2>3
<1>10. CASE Pr!Esc
  <2>1. UNCHANGED <<draft, flight>>
    BY <1>10 DEF Pr!Esc
  <2>2. CASE Pr!Slash
    <3>1. Pr!ClearPrompt
      BY <1>10, <2>2 DEF Pr!Esc
    <3> QED BY <1>0, <2>1, <3>1, ClearPromptKeeps
  <2>3. CASE ~Pr!Slash /\ Pr!Mention
    <3>1. /\ Pr!TypedNow(SubSeq(input, 1, Pr!MentionTriggerIndex(input) - 1))
          /\ UNCHANGED <<past, histIdx, histOrig>>
      BY <1>10, <2>3 DEF Pr!Esc, Pr!past
    <3>2. Len(input) \in Nat /\ Pr!MentionTriggerIndex(input) \in 0 .. Len(input)
      BY <1>0, TriggerInLine DEF OneLine
    <3>3. SubSeq(input, 1, Pr!MentionTriggerIndex(input) - 1) \in OneLine
      BY <1>0, <3>2, PieceOf DEF OneLine
    <3> QED BY <1>0, <2>1, <3>1, <3>3, TypedKeeps
  <2>4. CASE ~Pr!Slash /\ ~Pr!Mention
    <3>1. \/ Pr!EscSession \/ Pr!ClearPrompt \/ Pr!Leave
      BY <1>10, <2>4 DEF Pr!Esc
    <3>2. CASE Pr!ClearPrompt
      BY <1>0, <2>1, <3>2, ClearPromptKeeps
    <3>3. CASE Pr!EscSession \/ Pr!Leave
      BY <1>0, <2>1, <3>3, SameKeeps DEF Pr!EscSession, Pr!Leave, Pr!past
    <3> QED BY <3>1, <3>2, <3>3
  <2> QED BY <2>2, <2>3, <2>4
<1>11. ASSUME NEW ok \in BOOLEAN, Pr!Answered(ok) PROVE WalkInv'
  <2>1. flight # <<>> /\ flight' = Tail(flight) /\ UNCHANGED histOrig
    BY <1>11 DEF Pr!Answered
  <2>2. Head(flight) \in ManyLines /\ flight' \in Seq(ManyLines)
    BY <1>0, <2>1
  <2>3. CASE ok
    <3>1. past' = Pr!AppendHistory(past, Head(flight)) /\ draft' = <<>> /\ Pr!Cleared
      BY <1>11, <2>3 DEF Pr!Answered
    <3>2. past' \in Seq(ManyLines) /\ draft' \in ManyLines
      BY <1>0, <2>2, <3>1, Remembered, Lines
    <3> QED BY <2>1, <2>2, <3>1, <3>2, ClearedKeeps
  <2>4. CASE ~ok
    <3>1. UNCHANGED <<input, draft, past, histIdx, mine, lost>>
      BY <1>11, <2>4 DEF Pr!Answered
    <3> QED BY <2>1, <2>2, <3>1, SameKeeps
  <2> QED BY <2>3, <2>4
<1>12. CASE UNCHANGED Pr!vars
  BY <1>0, <1>12, SameKeeps DEF Pr!vars, Pr!past
<1> QED BY <1>1, <1>2, <1>3, <1>4, <1>5, <1>6, <1>7, <1>8, <1>9, <1>10, <1>11, <1>12 DEF Pr!Next

LEMMA PromptInit ==
  Pr!Init => WalkInv
<1> SUFFICES ASSUME Pr!Init PROVE WalkInv
  OBVIOUS
<1>1. /\ input = <<>> /\ mine = <<>> /\ draft = <<>> /\ past = <<>> /\ flight = <<>>
      /\ histIdx = 0 /\ histOrig = <<>> /\ lost = FALSE
  BY DEF Pr!Init
<1>2. <<>> \in Seq(ManyLines) /\ <<>> \in OneLine /\ <<>> \in ManyLines
  BY Lines
<1>3. histIdx \in Int /\ histIdx =< 0
  BY <1>1
<1>4. lost \in BOOLEAN
  BY <1>1
<1>5. LineTypes
  BY <1>1, <1>2, <1>3, <1>4, Zenon DEF LineTypes
<1>6. Pr!WalkKeepsDraft
  BY <1>1 DEF Pr!WalkKeepsDraft
<1> QED BY <1>5, <1>6 DEF WalkInv

\* Whatever commands and files there are, however long the history and whatever is typed over
\* its entries: a walk that goes back to the present brings back the line it started from,
\* unless it was ended at an entry, by clearing the line, the answer to a send or the pick of
\* a mention (App.recallHistory, tui/prompt.go).
THEOREM WalkSafety ==
  Pr!Spec => []WalkKeepsDraft
<1>1. WalkInv => WalkKeepsDraft
  BY DEF WalkKeepsDraft, WalkInv
<1> QED BY <1>1, PromptInit, PromptNext, PTL DEF Pr!Spec

-----------------------------------------------------------------------------
(* The fold of messages into the store. *)

\* Where a list holds a part.
At(list, p, i, j) ==
  /\ i \in 1 .. Len(list) /\ list[i].id = Owner[p]
  /\ j \in 1 .. Len(list[i].parts) /\ list[i].parts[j].id = p

\* The index names the place of a part, and its shadow is what the part reads there.
Points(list, p, e) ==
  /\ e \in Entry
  /\ At(list, p, e.msg, e.part)
  /\ e.field # "none" => e.shadow = list[e.msg].parts[e.part].content[Slot(e.field)]

IndexInv ==
  /\ parts = [p \in Part |-> parts[p]]
  /\ \A p \in Part : parts[p] # Absent => Points(messages, p, parts[p])

FoldInv == Good(messages) /\ IndexInv

-----------------------------------------------------------------------------
(* Searching and reading a list. *)

LEMMA Finding ==
  ASSUME NEW list, NEW id, NEW i \in DOMAIN list, list[i].id = id,
         \A k \in DOMAIN list : list[k].id = id => k = i
  PROVE  Find(list, id) = i
<1>1. {k \in DOMAIN list : list[k].id = id} = {i}
  OBVIOUS
<1>. QED BY <1>1 DEF Find

LEMMA FindingNone ==
  ASSUME NEW list, NEW id, \A k \in DOMAIN list : list[k].id # id
  PROVE  Find(list, id) = 0
<1>1. {k \in DOMAIN list : list[k].id = id} = {}
  OBVIOUS
<1>. QED BY <1>1 DEF Find

LEMMA Found ==
  ASSUME NEW list, NEW id, Find(list, id) # 0
  PROVE  Find(list, id) \in DOMAIN list /\ list[Find(list, id)].id = id
<1>1. {k \in DOMAIN list : list[k].id = id} # {}
  BY DEF Find
<1>. QED BY <1>1 DEF Find

\* The elements of a good list.
LEMMA GoodRows ==
  ASSUME NEW list, Good(list)
  PROVE  /\ list \in Seq(Row) /\ Len(list) \in Nat /\ DOMAIN list = 1 .. Len(list)
         /\ \A i \in 1 .. Len(list) :
              /\ list[i] \in Row /\ list[i].parts \in Seq(Held)
              /\ Len(list[i].parts) \in Nat /\ DOMAIN list[i].parts = 1 .. Len(list[i].parts)
              /\ \A j \in 1 .. Len(list[i].parts) : list[i].parts[j] \in Held
<1>1. list \in Seq(Row) /\ Len(list) \in Nat /\ DOMAIN list = 1 .. Len(list)
  BY DEF Good
<1>2. ASSUME NEW i \in 1 .. Len(list)
      PROVE  /\ list[i] \in Row /\ list[i].parts \in Seq(Held)
             /\ Len(list[i].parts) \in Nat /\ DOMAIN list[i].parts = 1 .. Len(list[i].parts)
             /\ \A j \in 1 .. Len(list[i].parts) : list[i].parts[j] \in Held
  <2>1. list[i] \in Row
    BY <1>1, <1>2
  <2>2. list[i].parts \in Seq(Held)
    BY <2>1 DEF Row
  <2>. QED BY <2>1, <2>2
<1>. QED BY <1>1, <1>2

LEMMA Places ==
  ASSUME NEW list, Good(list), NEW p \in Part, NEW i, NEW j, At(list, p, i, j)
  PROVE  Find(list, Owner[p]) = i /\ Find(list[i].parts, p) = j
<1>1. /\ i \in DOMAIN list /\ list[i].id = Owner[p]
      /\ \A k \in DOMAIN list : list[k].id = Owner[p] => k = i
  BY GoodRows DEF At, Good, UniqueIds
<1>2. /\ j \in DOMAIN list[i].parts /\ list[i].parts[j].id = p
      /\ \A k \in DOMAIN list[i].parts : list[i].parts[k].id = p => k = j
  BY GoodRows DEF At, Good, UniqueIds
<1>3. Find(list, Owner[p]) = i
  BY <1>1, Finding
<1>4. Find(list[i].parts, p) = j
  BY <1>2, Finding
<1>. QED BY <1>3, <1>4

LEMMA Reading ==
  ASSUME NEW list, Good(list), NEW p \in Part, NEW i, NEW j, At(list, p, i, j)
  PROVE  ContentOf(list)[p] = list[i].parts[j].content
<1>1. Find(list, Owner[p]) = i /\ Find(list[i].parts, p) = j
  BY Places
<1>2. i # 0 /\ j # 0
  BY GoodRows DEF At
<1>. QED BY <1>1, <1>2 DEF ContentOf

LEMMA ReadingNone ==
  ASSUME NEW list, Good(list), NEW p \in Part, \A i, j : ~At(list, p, i, j)
  PROVE  ContentOf(list)[p] = Absent
<1>. DEFINE i == Find(list, Owner[p])
            j == Find(list[i].parts, p)
<1>1. CASE i = 0
  BY <1>1 DEF ContentOf
<1>2. CASE i # 0
  <2>1. i \in 1 .. Len(list) /\ list[i].id = Owner[p]
    BY <1>2, Found, GoodRows
  <2>2. j = 0
    <3>1. SUFFICES ASSUME j # 0 PROVE FALSE
      OBVIOUS
    <3>2. j \in 1 .. Len(list[i].parts) /\ list[i].parts[j].id = p
      BY <2>1, <3>1, Found, GoodRows
    <3>. QED BY <2>1, <3>2 DEF At
  <2>. QED BY <1>2, <2>2 DEF ContentOf
<1>. QED BY <1>1, <1>2

\* A content that is read is none of the values that stand for none.
LEMMA ReadsContent ==
  ASSUME NEW list, Good(list), NEW p \in Part, NEW i, NEW j, At(list, p, i, j)
  PROVE  ContentOf(list)[p] \in Contents /\ ContentOf(list)[p] # Absent
<1>1. list[i].parts[j] \in Held
  BY GoodRows DEF At
<1>. QED BY <1>1, Reading, StoreAssumption DEF Held

-----------------------------------------------------------------------------
(* What the steps make of a list.  Wrote: the part p reads at i, j what x says, and all others *)
(* are where they were.                                                                       *)

Wrote(list, new, p, i, j, x) ==
  /\ Good(new)
  /\ At(new, p, i, j) /\ new[i].parts[j] = x
  /\ \A q \in Part : \A k, l : At(list, q, k, l) => At(new, q, k, l)
  /\ \A q \in Part \ {p} : \A k, l : At(new, q, k, l) => At(list, q, k, l)
  /\ \A q \in Part \ {p} : \A k, l : At(list, q, k, l) => new[k].parts[l] = list[k].parts[l]

\* A row with other parts.
LEMMA RowWith ==
  ASSUME NEW list, Good(list), NEW i \in 1 .. Len(list), NEW ps \in Seq(Held)
  PROVE  /\ [list[i] EXCEPT !.parts = ps] \in Row
         /\ [list[i] EXCEPT !.parts = ps].id = list[i].id
         /\ [list[i] EXCEPT !.parts = ps].parts = ps
<1>1. list[i] \in Row
  BY GoodRows
<1>2. list[i] = [id |-> list[i].id, parts |-> list[i].parts] /\ list[i].id \in Message
  BY <1>1 DEF Row
<1>3. [list[i] EXCEPT !.parts = ps] = [id |-> list[i].id, parts |-> ps]
  BY <1>2
<1>. QED BY <1>2, <1>3 DEF Row

\* A list with another row in the place of one.
Replaced(list, i, shown, new) ==
  /\ new \in Seq(Row) /\ Len(new) = Len(list) /\ new[i] = shown
  /\ \A k \in 1 .. Len(new) : k # i => new[k] = list[k]

LEMMA ListWith ==
  ASSUME NEW list, Good(list), NEW i \in 1 .. Len(list), NEW shown \in Row
  PROVE  Replaced(list, i, shown, [list EXCEPT ![i] = shown])
<1>1. list \in Seq(Row)
  BY GoodRows
<1>. QED BY <1>1 DEF Replaced

\* Over the part itself.
LEMMA WroteOver ==
  ASSUME NEW list, Good(list), NEW p \in Part, NEW i, NEW j, At(list, p, i, j),
         NEW x \in Held, x.id = p,
         NEW new, new = [list EXCEPT ![i].parts[j] = x]
  PROVE  Wrote(list, new, p, i, j, x)
<1>1. /\ list \in Seq(Row) /\ Len(list) \in Nat /\ i \in 1 .. Len(list) /\ list[i].id = Owner[p]
      /\ list[i] \in Row /\ list[i].parts \in Seq(Held) /\ Len(list[i].parts) \in Nat
      /\ j \in 1 .. Len(list[i].parts) /\ list[i].parts[j].id = p
  BY GoodRows DEF At
<1>. DEFINE ps == [list[i].parts EXCEPT ![j] = x]
            shown == [list[i] EXCEPT !.parts = ps]
<1>2. ps \in Seq(Held) /\ Len(ps) = Len(list[i].parts) /\ ps[j] = x
      /\ \A l \in 1 .. Len(ps) : l # j => ps[l] = list[i].parts[l]
  BY <1>1
<1>3. new = [list EXCEPT ![i] = shown]
  OBVIOUS
<1>. HIDE DEF ps
<1>4. shown \in Row /\ shown.id = list[i].id /\ shown.parts = ps
  BY <1>1, <1>2, RowWith
<1>. HIDE DEF shown
<1>5. /\ new \in Seq(Row) /\ Len(new) = Len(list) /\ new[i] = shown
      /\ \A k \in 1 .. Len(new) : k # i => new[k] = list[k]
  <2>1. Replaced(list, i, shown, [list EXCEPT ![i] = shown])
    BY <1>1, <1>4, ListWith
  <2>2. Replaced(list, i, shown, new)
    BY <1>3, <2>1
  <2>. QED BY <2>2 DEF Replaced
<1>6. \A k \in 1 .. Len(new) : new[k].id = list[k].id /\ Len(new[k].parts) = Len(list[k].parts)
  BY <1>2, <1>4, <1>5
<1>7. \A l \in 1 .. Len(ps) : ps[l].id = list[i].parts[l].id
  BY <1>1, <1>2
<1>8. \A k \in 1 .. Len(new) : \A l \in 1 .. Len(new[k].parts) :
        /\ new[k].parts[l].id = list[k].parts[l].id
        /\ <<k, l>> # <<i, j>> => new[k].parts[l] = list[k].parts[l]
  <2>1. ASSUME NEW k \in 1 .. Len(new), k # i, NEW l \in 1 .. Len(new[k].parts)
        PROVE  new[k].parts[l] = list[k].parts[l]
    BY <1>5, <2>1
  <2>2. ASSUME NEW l \in 1 .. Len(new[i].parts)
        PROVE  /\ new[i].parts[l].id = list[i].parts[l].id
               /\ l # j => new[i].parts[l] = list[i].parts[l]
    BY <1>2, <1>4, <1>5, <1>7
  <2>. QED BY <2>1, <2>2
<1>9. Good(new)
  BY <1>5, <1>6, <1>8, SMTT(30) DEF Good, UniqueIds
<1>10. \A q \in Part : \A k, l : At(new, q, k, l) <=> At(list, q, k, l)
  BY <1>5, <1>6, <1>8 DEF At
<1>11. new[i].parts[j] = x /\ At(new, p, i, j)
  BY <1>2, <1>4, <1>5, <1>10
<1>12. \A q \in Part \ {p} : \A k, l : At(list, q, k, l) => new[k].parts[l] = list[k].parts[l]
  BY <1>1, <1>5, <1>6, <1>8 DEF At
<1>. QED BY <1>9, <1>10, <1>11, <1>12 DEF Wrote

\* Behind the parts of its message.
LEMMA WroteBehind ==
  ASSUME NEW list, Good(list), NEW p \in Part, NEW i \in 1 .. Len(list), list[i].id = Owner[p],
         \A k, l : ~At(list, p, k, l),
         NEW x \in Held, x.id = p,
         NEW new, new = [list EXCEPT ![i].parts = Append(@, x)]
  PROVE  Wrote(list, new, p, i, Len(list[i].parts) + 1, x)
<1>1. /\ list \in Seq(Row) /\ Len(list) \in Nat
      /\ list[i] \in Row /\ list[i].parts \in Seq(Held) /\ Len(list[i].parts) \in Nat
  BY GoodRows
<1>. DEFINE ps == Append(list[i].parts, x)
            n == Len(list[i].parts) + 1
            shown == [list[i] EXCEPT !.parts = ps]
<1>2. ps \in Seq(Held) /\ Len(ps) = n /\ ps[n] = x
      /\ \A l \in 1 .. Len(list[i].parts) : ps[l] = list[i].parts[l]
  BY <1>1
<1>3. new = [list EXCEPT ![i] = shown]
  OBVIOUS
<1>. HIDE DEF ps
<1>4. shown \in Row /\ shown.id = list[i].id /\ shown.parts = ps
  BY <1>1, <1>2, RowWith
<1>. HIDE DEF shown
<1>5. /\ new \in Seq(Row) /\ Len(new) = Len(list) /\ new[i] = shown
      /\ \A k \in 1 .. Len(new) : k # i => new[k] = list[k]
  <2>1. Replaced(list, i, shown, [list EXCEPT ![i] = shown])
    BY <1>1, <1>4, ListWith
  <2>2. Replaced(list, i, shown, new)
    BY <1>3, <2>1
  <2>. QED BY <2>2 DEF Replaced
<1>6. \A k \in 1 .. Len(new) : new[k].id = list[k].id
  BY <1>4, <1>5
<1>7. \A l \in 1 .. Len(list[i].parts) : list[i].parts[l].id # p
  BY DEF At
<1>8. UniqueIds(ps)
  <2>1. UniqueIds(list[i].parts)
    BY DEF Good
  <2>2. \A l \in 1 .. n : l # n => l \in 1 .. Len(list[i].parts)
    BY <1>1
  <2>3. SUFFICES ASSUME NEW k \in 1 .. n, NEW l \in 1 .. n, ps[k].id = ps[l].id PROVE k = l
    BY <1>2 DEF UniqueIds
  <2>4. CASE k = n /\ l # n
    BY <1>2, <1>7, <2>2, <2>3, <2>4
  <2>5. CASE k # n /\ l = n
    BY <1>2, <1>7, <2>2, <2>3, <2>5
  <2>6. CASE k # n /\ l # n
    BY <1>2, <2>1, <2>2, <2>3, <2>6 DEF UniqueIds
  <2>. QED BY <2>4, <2>5, <2>6
<1>9. Good(new)
  <2>1. UniqueIds(new)
    BY <1>5, <1>6 DEF Good, UniqueIds
  <2>2. \A k \in 1 .. Len(new) : UniqueIds(new[k].parts)
    BY <1>4, <1>5, <1>8 DEF Good
  <2>. QED BY <1>5, <2>1, <2>2 DEF Good
<1>10. \A q \in Part : \A k, l :
         At(new, q, k, l) <=> At(list, q, k, l) \/ (q = p /\ k = i /\ l = n)
  <2>1. \A q \in Part : \A k, l : k # i => (At(new, q, k, l) <=> At(list, q, k, l))
    BY <1>5 DEF At
  <2>2. \A q \in Part : \A l : l # n => (At(new, q, i, l) <=> At(list, q, i, l))
    <3>1. \A l : l # n => (l \in 1 .. n <=> l \in 1 .. Len(list[i].parts))
      BY <1>1
    <3>. QED BY <1>2, <1>4, <1>5, <3>1 DEF At
  <2>3. \A q \in Part : At(new, q, i, n) <=> q = p
    BY <1>1, <1>2, <1>4, <1>5 DEF At
  <2>4. \A q \in Part : ~At(list, q, i, n)
    BY <1>1 DEF At
  <2>5. ASSUME NEW q \in Part, NEW k, NEW l
        PROVE  At(new, q, k, l) <=> At(list, q, k, l) \/ (q = p /\ k = i /\ l = n)
    <3>1. CASE k # i
      BY <2>1, <3>1
    <3>2. CASE k = i /\ l # n
      BY <2>2, <3>2
    <3>3. CASE k = i /\ l = n
      BY <2>3, <2>4, <3>3
    <3>. QED BY <3>1, <3>2, <3>3
  <2>. QED BY <2>5
<1>11. \A q \in Part \ {p} : \A k, l : At(list, q, k, l) => new[k].parts[l] = list[k].parts[l]
  BY <1>2, <1>4, <1>5 DEF At
<1>12. new[i].parts[n] = x
  BY <1>2, <1>4, <1>5
<1>. QED BY <1>9, <1>10, <1>11, <1>12 DEF Wrote

\* With a message of its own, behind all others.
LEMMA WroteNew ==
  ASSUME NEW list, Good(list), NEW p \in Part, \A k \in 1 .. Len(list) : list[k].id # Owner[p],
         NEW x \in Held, x.id = p,
         NEW new, new = Append(list, [id |-> Owner[p], parts |-> <<x>>])
  PROVE  Wrote(list, new, p, Len(list) + 1, 1, x)
<1>1. list \in Seq(Row) /\ Len(list) \in Nat
  BY GoodRows
<1>. DEFINE shown == [id |-> Owner[p], parts |-> <<x>>]
            n == Len(list) + 1
<1>2. shown \in Row
  BY DEF Row, Message
<1>3. /\ new \in Seq(Row) /\ Len(new) = n /\ new[n] = shown
      /\ \A k \in 1 .. Len(list) : new[k] = list[k]
  BY <1>1, <1>2
<1>4. shown.parts = <<x>> /\ Len(shown.parts) = 1 /\ shown.parts[1] = x /\ shown.id = Owner[p]
  OBVIOUS
<1>5. Good(new)
  <2>1. UniqueIds(new)
    BY <1>1, <1>3, <1>4 DEF Good, UniqueIds
  <2>2. \A k \in 1 .. Len(new) : UniqueIds(new[k].parts)
    <3>1. UniqueIds(shown.parts)
      BY <1>4 DEF UniqueIds
    <3>. QED BY <1>1, <1>3, <3>1 DEF Good
  <2>. QED BY <1>3, <2>1, <2>2 DEF Good
<1>6. \A q \in Part : \A k, l :
        At(new, q, k, l) <=> At(list, q, k, l) \/ (q = p /\ k = n /\ l = 1)
  <2>1. \A q \in Part : \A k, l : k # n => (At(new, q, k, l) <=> At(list, q, k, l))
    <3>1. \A k : k # n => (k \in 1 .. n <=> k \in 1 .. Len(list))
      BY <1>1
    <3>. QED BY <1>3, <3>1 DEF At
  <2>2. \A q \in Part : \A l : At(new, q, n, l) <=> q = p /\ l = 1
    BY <1>1, <1>3, <1>4 DEF At
  <2>3. \A q \in Part : \A l : ~At(list, q, n, l)
    BY <1>1 DEF At
  <2>. QED BY <2>1, <2>2, <2>3
<1>7. \A q \in Part \ {p} : \A k, l : At(list, q, k, l) => new[k].parts[l] = list[k].parts[l]
  BY <1>3 DEF At
<1>8. new[n].parts[1] = x
  BY <1>3, <1>4
<1>. QED BY <1>5, <1>6, <1>7, <1>8 DEF Wrote

\* One write and another at its place.
LEMMA WroteTwice ==
  ASSUME NEW a, NEW b, NEW c, NEW p \in Part, NEW i, NEW j, NEW x, NEW y,
         Wrote(a, b, p, i, j, x), Wrote(b, c, p, i, j, y)
  PROVE  Wrote(a, c, p, i, j, y)
  BY DEF Wrote

\* What is read after a write.
LEMMA WroteReads ==
  ASSUME NEW list, Good(list), NEW p \in Part, NEW i, NEW j, NEW x, NEW new,
         Wrote(list, new, p, i, j, x)
  PROVE  ContentOf(new) = [ContentOf(list) EXCEPT ![p] = x.content]
<1>1. Good(new) /\ At(new, p, i, j) /\ new[i].parts[j] = x
  BY DEF Wrote
<1>2. ContentOf(new)[p] = x.content
  BY <1>1, Reading
<1>3. ASSUME NEW q \in Part \ {p} PROVE ContentOf(new)[q] = ContentOf(list)[q]
  <2>1. CASE \E k, l : At(list, q, k, l)
    <3>1. PICK k, l : At(list, q, k, l)
      BY <2>1
    <3>2. At(new, q, k, l) /\ new[k].parts[l] = list[k].parts[l]
      BY <3>1 DEF Wrote
    <3>3. ContentOf(list)[q] = list[k].parts[l].content
      BY <3>1, Reading
    <3>4. ContentOf(new)[q] = new[k].parts[l].content
      BY <1>1, <3>2, Reading
    <3>. QED BY <3>2, <3>3, <3>4
  <2>2. CASE \A k, l : ~At(list, q, k, l)
    <3>1. \A k, l : ~At(new, q, k, l)
      BY <2>2 DEF Wrote
    <3>. QED BY <1>1, <2>2, <3>1, ReadingNone
  <2>. QED BY <2>1, <2>2
<1>4. /\ ContentOf(new) = [q \in Part |-> ContentOf(new)[q]]
      /\ ContentOf(list) = [q \in Part |-> ContentOf(list)[q]]
  BY DEF ContentOf
<1>. HIDE DEF ContentOf
<1>. QED BY <1>2, <1>3, <1>4

-----------------------------------------------------------------------------
(* What is taken out. *)

\* A list without one of its elements.
Lacks(list, id, new) ==
  /\ UniqueIds(new)
  /\ \A k \in 1 .. Len(new) : new[k].id # id /\ \E n \in 1 .. Len(list) : new[k] = list[n]
  /\ \A n \in 1 .. Len(list) : list[n].id # id => \E k \in 1 .. Len(new) : new[k] = list[n]

LEMMA Removing ==
  ASSUME NEW S, NEW s \in Seq(S), NEW i \in 1 .. Len(s)
  PROVE  /\ RemoveAt(s, i) \in Seq(S) /\ Len(RemoveAt(s, i)) = Len(s) - 1
         /\ \A k \in 1 .. Len(s) - 1 : RemoveAt(s, i)[k] = IF k < i THEN s[k] ELSE s[k + 1]
<1>1. Len(s) \in Nat /\ i \in Nat /\ i >= 1 /\ i <= Len(s)
  BY LenProperties
<1>. DEFINE a == SubSeq(s, 1, i - 1)
            b == SubSeq(s, i + 1, Len(s))
<1>2. a \in Seq(S) /\ Len(a) = i - 1 /\ \A k \in 1 .. i - 1 : a[k] = s[k]
  BY <1>1
<1>3. b \in Seq(S) /\ Len(b) = Len(s) - i /\ \A k \in 1 .. Len(s) - i : b[k] = s[i + k]
  BY <1>1
<1>4. RemoveAt(s, i) = a \o b
  BY DEF RemoveAt
<1>. HIDE DEF a, b
<1>5. /\ a \o b \in Seq(S) /\ Len(a \o b) = Len(a) + Len(b)
      /\ \A k \in 1 .. Len(a) + Len(b) : (a \o b)[k] = IF k <= Len(a) THEN a[k] ELSE b[k - Len(a)]
  BY <1>2, <1>3, ConcatProperties
<1>6. ASSUME NEW k \in 1 .. Len(s) - 1
      PROVE  (a \o b)[k] = IF k < i THEN s[k] ELSE s[k + 1]
  <2>1. CASE k < i
    BY <1>1, <1>2, <1>3, <1>5, <2>1
  <2>2. CASE ~(k < i)
    <3>1. k - (i - 1) \in 1 .. Len(s) - i /\ i + (k - (i - 1)) = k + 1
      BY <1>1, <2>2
    <3>2. (a \o b)[k] = b[k - (i - 1)]
      BY <1>1, <1>2, <1>3, <1>5, <2>2
    <3>. QED BY <1>3, <2>2, <3>1, <3>2
  <2>. QED BY <2>1, <2>2
<1>. QED BY <1>1, <1>2, <1>3, <1>4, <1>5, <1>6

LEMMA WithoutFacts ==
  ASSUME NEW S, NEW list \in Seq(S), UniqueIds(list), NEW id
  PROVE  Without(list, id) \in Seq(S) /\ Lacks(list, id, Without(list, id))
<1>1. Len(list) \in Nat /\ DOMAIN list = 1 .. Len(list)
  OBVIOUS
<1>2. CASE Find(list, id) = 0
  <2>1. \A n \in 1 .. Len(list) : list[n].id # id
    <3>1. SUFFICES ASSUME NEW n \in 1 .. Len(list), list[n].id = id PROVE FALSE
      OBVIOUS
    <3>2. Find(list, id) = n
      BY <1>1, <3>1, Finding DEF UniqueIds
    <3>. QED BY <1>1, <1>2, <3>2
  <2>2. Without(list, id) = list
    BY <1>2 DEF Without
  <2>. QED BY <2>1, <2>2 DEF Lacks
<1>3. CASE Find(list, id) # 0
  <2>. DEFINE i == Find(list, id)
              new == RemoveAt(list, i)
  <2>1. i \in 1 .. Len(list) /\ list[i].id = id
    BY <1>1, <1>3, Found
  <2>2. Without(list, id) = new
    BY <1>3 DEF Without
  <2>. HIDE DEF i
  <2>3. /\ new \in Seq(S) /\ Len(new) = Len(list) - 1
        /\ \A k \in 1 .. Len(list) - 1 : new[k] = IF k < i THEN list[k] ELSE list[k + 1]
    BY <2>1, Removing
  <2>. HIDE DEF new
  <2>4. \A n \in 1 .. Len(list) : n # i => list[n].id # id
    BY <2>1 DEF UniqueIds
  <2>5. ASSUME NEW k \in 1 .. Len(new)
        PROVE  \E n \in 1 .. Len(list) : n # i /\ new[k] = list[n]
    BY <1>1, <2>1, <2>3
  <2>6. ASSUME NEW n \in 1 .. Len(list), n # i
        PROVE  \E k \in 1 .. Len(new) : new[k] = list[n]
    <3>1. CASE n < i
      BY <1>1, <2>1, <2>3, <3>1
    <3>2. CASE n > i
      <4>1. n - 1 \in 1 .. Len(list) - 1 /\ ~(n - 1 < i) /\ (n - 1) + 1 = n
        BY <1>1, <2>1, <3>2
      <4>. QED BY <2>3, <4>1
    <3>. QED BY <1>1, <2>1, <2>6, <3>1, <3>2
  <2>7. UniqueIds(new)
    <3>1. SUFFICES ASSUME NEW k \in 1 .. Len(new), NEW l \in 1 .. Len(new), new[k].id = new[l].id
                   PROVE  k = l
      BY DEF UniqueIds
    <3>. DEFINE at(n) == IF n < i THEN n ELSE n + 1
    <3>2. /\ at(k) \in 1 .. Len(list) /\ at(l) \in 1 .. Len(list)
          /\ new[k] = list[at(k)] /\ new[l] = list[at(l)]
      BY <1>1, <2>1, <2>3
    <3>3. at(k) = at(l)
      BY <3>1, <3>2 DEF UniqueIds
    <3>. QED BY <1>1, <2>1, <2>3, <3>3
  <2>8. \A k \in 1 .. Len(new) : new[k].id # id /\ \E n \in 1 .. Len(list) : new[k] = list[n]
    <3>1. SUFFICES ASSUME NEW k \in 1 .. Len(new)
                   PROVE  new[k].id # id /\ \E n \in 1 .. Len(list) : new[k] = list[n]
      OBVIOUS
    <3>2. PICK n \in 1 .. Len(list) : n # i /\ new[k] = list[n]
      BY <2>5
    <3>. QED BY <2>4, <3>2
  <2>9. \A n \in 1 .. Len(list) : list[n].id # id => \E k \in 1 .. Len(new) : new[k] = list[n]
    <3>1. SUFFICES ASSUME NEW n \in 1 .. Len(list), list[n].id # id
                   PROVE  \E k \in 1 .. Len(new) : new[k] = list[n]
      OBVIOUS
    <3>2. n # i
      BY <2>1, <3>1
    <3>. QED BY <2>6, <3>2
  <2>10. Lacks(list, id, new)
    BY <2>7, <2>8, <2>9 DEF Lacks
  <2>. QED BY <2>2, <2>3, <2>10
<1>. QED BY <1>2, <1>3

\* What of the parts of one list another holds, wherever they are.
Carried(list, new, q) ==
  /\ \A k, l : At(list, q, k, l) =>
       \E k2, l2 : At(new, q, k2, l2) /\ new[k2].parts[l2] = list[k].parts[l]
  /\ \A k, l : At(new, q, k, l) => \E k2, l2 : At(list, q, k2, l2)

LEMMA CarriedReads ==
  ASSUME NEW list, NEW new, Good(list), Good(new), NEW q \in Part, Carried(list, new, q)
  PROVE  ContentOf(new)[q] = ContentOf(list)[q]
<1>1. CASE \E k, l : At(list, q, k, l)
  <2>1. PICK k, l : At(list, q, k, l)
    BY <1>1
  <2>2. PICK k2, l2 : At(new, q, k2, l2) /\ new[k2].parts[l2] = list[k].parts[l]
    BY <2>1 DEF Carried
  <2>3. ContentOf(list)[q] = list[k].parts[l].content
    BY <2>1, Reading
  <2>4. ContentOf(new)[q] = new[k2].parts[l2].content
    BY <2>2, Reading
  <2>. QED BY <2>2, <2>3, <2>4
<1>2. CASE \A k, l : ~At(list, q, k, l)
  <2>1. \A k, l : ~At(new, q, k, l)
    BY <1>2 DEF Carried
  <2>. QED BY <1>2, <2>1, ReadingNone
<1>. QED BY <1>1, <1>2

\* A new message without parts changes nothing.
Untouched(list, new) ==
  /\ Good(new) /\ \A q \in Part : Carried(list, new, q)
  /\ \A q \in Part : \A k, l : At(list, q, k, l) =>
       At(new, q, k, l) /\ new[k].parts[l] = list[k].parts[l]

LEMMA EmptyMessage ==
  ASSUME NEW list, Good(list), NEW m \in Message, \A k \in 1 .. Len(list) : list[k].id # m,
         NEW new, new = Append(list, NewMessage(m))
  PROVE  Untouched(list, new)
<1>1. list \in Seq(Row) /\ Len(list) \in Nat
  BY GoodRows
<1>2. /\ NewMessage(m) \in Row /\ NewMessage(m).id = m /\ NewMessage(m).parts = <<>>
  BY DEF NewMessage, Row
<1>3. /\ new \in Seq(Row) /\ Len(new) = Len(list) + 1 /\ new[Len(list) + 1] = NewMessage(m)
      /\ \A k \in 1 .. Len(list) : new[k] = list[k]
  BY <1>1, <1>2
<1>4. Good(new)
  <2>1. UniqueIds(new)
    BY <1>1, <1>2, <1>3 DEF Good, UniqueIds
  <2>2. UniqueIds(<<>>)
    BY DEF UniqueIds
  <2>3. \A k \in 1 .. Len(new) : UniqueIds(new[k].parts)
    BY <1>1, <1>2, <1>3, <2>2 DEF Good
  <2>. QED BY <1>3, <2>1, <2>3 DEF Good
<1>5. \A q \in Part : \A k, l : At(list, q, k, l) =>
        At(new, q, k, l) /\ new[k].parts[l] = list[k].parts[l]
  <2>1. \A k \in 1 .. Len(list) : k \in 1 .. Len(new)
    BY <1>1, <1>3
  <2>. QED BY <1>3, <2>1 DEF At
<1>6. \A q \in Part : \A k, l : At(new, q, k, l) => At(list, q, k, l)
  <2>1. SUFFICES ASSUME NEW q \in Part, NEW k, NEW l, At(new, q, k, l) PROVE At(list, q, k, l)
    OBVIOUS
  <2>2. k # Len(list) + 1
    BY <1>2, <1>3, <2>1 DEF At
  <2>3. k \in 1 .. Len(list)
    BY <1>1, <1>3, <2>1, <2>2 DEF At
  <2>. QED BY <1>3, <2>1, <2>3 DEF At
<1>7. ASSUME NEW q \in Part PROVE Carried(list, new, q)
  <2>1. \A k, l : At(list, q, k, l) =>
          \E k2, l2 : At(new, q, k2, l2) /\ new[k2].parts[l2] = list[k].parts[l]
    <3>1. SUFFICES ASSUME NEW k, NEW l, At(list, q, k, l)
                   PROVE  \E k2, l2 : At(new, q, k2, l2) /\ new[k2].parts[l2] = list[k].parts[l]
      OBVIOUS
    <3>2. At(new, q, k, l) /\ new[k].parts[l] = list[k].parts[l]
      BY <1>5, <3>1, ZenonT(30)
    <3>. QED BY <3>2
  <2>2. \A k, l : At(new, q, k, l) => \E k2, l2 : At(list, q, k2, l2)
    BY <1>6
  <2>. QED BY <2>1, <2>2 DEF Carried
<1>. QED BY <1>4, <1>5, <1>7 DEF Untouched

\* Without a message.
LEMMA LessAMessage ==
  ASSUME NEW list, Good(list), NEW m \in Message, NEW new, new = Without(list, m)
  PROVE  /\ Good(new)
         /\ \A q \in Part : IF Owner[q] = m THEN \A k, l : ~At(new, q, k, l)
                                            ELSE Carried(list, new, q)
<1>1. list \in Seq(Row) /\ UniqueIds(list)
  BY DEF Good
<1>2. new \in Seq(Row) /\ Lacks(list, m, new)
  BY <1>1, WithoutFacts
<1>3. Good(new)
  BY <1>2 DEF Good, Lacks
<1>4. ASSUME NEW q \in Part, Owner[q] = m PROVE \A k, l : ~At(new, q, k, l)
  BY <1>2, <1>4 DEF At, Lacks
<1>5. ASSUME NEW q \in Part, Owner[q] # m PROVE Carried(list, new, q)
  <2>1. ASSUME NEW k, NEW l, At(list, q, k, l)
        PROVE  \E k2, l2 : At(new, q, k2, l2) /\ new[k2].parts[l2] = list[k].parts[l]
    <3>1. PICK k2 \in 1 .. Len(new) : new[k2] = list[k]
      BY <1>2, <1>5, <2>1 DEF At, Lacks
    <3>2. At(new, q, k2, l) /\ new[k2].parts[l] = list[k].parts[l]
      BY <2>1, <3>1 DEF At
    <3>. QED BY <3>2
  <2>2. ASSUME NEW k, NEW l, At(new, q, k, l) PROVE \E k2, l2 : At(list, q, k2, l2)
    <3>1. PICK k2 \in 1 .. Len(list) : new[k] = list[k2]
      BY <1>2, <2>2 DEF At, Lacks
    <3>2. At(list, q, k2, l)
      BY <2>2, <3>1 DEF At
    <3>. QED BY <3>2
  <2>. QED BY <2>1, <2>2 DEF Carried
<1>. QED BY <1>3, <1>4, <1>5

\* Without a part.
LEMMA LessAPart ==
  ASSUME NEW list, Good(list), NEW p \in Part,
         NEW new, new = [i \in DOMAIN list |->
           IF list[i].id = Owner[p] THEN [list[i] EXCEPT !.parts = Without(@, p)] ELSE list[i]]
  PROVE  /\ Good(new) /\ \A k, l : ~At(new, p, k, l)
         /\ \A q \in Part \ {p} : Carried(list, new, q)
<1>1. /\ list \in Seq(Row) /\ Len(list) \in Nat /\ DOMAIN list = 1 .. Len(list)
      /\ \A i \in 1 .. Len(list) : list[i] \in Row /\ list[i].parts \in Seq(Held)
      /\ \A i \in 1 .. Len(list) : UniqueIds(list[i].parts)
  BY GoodRows DEF Good
<1>2. ASSUME NEW i \in 1 .. Len(list), list[i].id = Owner[p]
      PROVE  /\ new[i] \in Row /\ new[i].id = list[i].id
             /\ new[i].parts \in Seq(Held) /\ Lacks(list[i].parts, p, new[i].parts)
  <2>1. Without(list[i].parts, p) \in Seq(Held) /\ Lacks(list[i].parts, p, Without(list[i].parts, p))
    BY <1>1, WithoutFacts
  <2>. DEFINE ps == Without(list[i].parts, p)
  <2>2. new[i] = [list[i] EXCEPT !.parts = ps]
    BY <1>1, <1>2
  <2>3. ps \in Seq(Held) /\ Lacks(list[i].parts, p, ps)
    BY <2>1
  <2>. HIDE DEF ps
  <2>4. /\ [list[i] EXCEPT !.parts = ps] \in Row
        /\ [list[i] EXCEPT !.parts = ps].id = list[i].id
        /\ [list[i] EXCEPT !.parts = ps].parts = ps
    BY <1>2, <2>3, RowWith
  <2>. QED BY <2>2, <2>3, <2>4
<1>3. ASSUME NEW i \in 1 .. Len(list), list[i].id # Owner[p] PROVE new[i] = list[i]
  BY <1>1, <1>3
<1>4. new \in Seq(Row) /\ Len(new) = Len(list) /\ \A i \in 1 .. Len(list) : new[i].id = list[i].id
  <2>1. DOMAIN new = 1 .. Len(list)
    BY <1>1
  <2>2. \A i \in 1 .. Len(list) : new[i] \in Row /\ new[i].id = list[i].id
    BY <1>1, <1>2, <1>3
  <2>3. new = [i \in 1 .. Len(list) |-> new[i]]
    BY <1>1
  <2>4. new \in Seq(Row)
    BY <1>1, <2>2, <2>3
  <2>. QED BY <1>1, <2>1, <2>2, <2>4
<1>5. Good(new)
  <2>1. UniqueIds(new)
    BY <1>4 DEF Good, UniqueIds
  <2>2. \A i \in 1 .. Len(new) : UniqueIds(new[i].parts)
    BY <1>1, <1>2, <1>3, <1>4 DEF Lacks
  <2>. QED BY <1>4, <2>1, <2>2 DEF Good
<1>6. \A k, l : ~At(new, p, k, l)
  BY <1>2, <1>4 DEF At, Lacks
<1>7. ASSUME NEW q \in Part \ {p} PROVE Carried(list, new, q)
  <2>1. CASE Owner[q] = Owner[p]
    <3>1. ASSUME NEW k, NEW l, At(list, q, k, l)
          PROVE  \E k2, l2 : At(new, q, k2, l2) /\ new[k2].parts[l2] = list[k].parts[l]
      <4>1. k \in 1 .. Len(list) /\ Lacks(list[k].parts, p, new[k].parts)
        BY <1>2, <2>1, <3>1 DEF At
      <4>2. PICK l2 \in 1 .. Len(new[k].parts) : new[k].parts[l2] = list[k].parts[l]
        BY <3>1, <4>1 DEF At, Lacks
      <4>3. At(new, q, k, l2)
        BY <1>4, <3>1, <4>1, <4>2 DEF At
      <4>. QED BY <4>2, <4>3
    <3>2. ASSUME NEW k, NEW l, At(new, q, k, l) PROVE \E k2, l2 : At(list, q, k2, l2)
      <4>1. k \in 1 .. Len(list) /\ Lacks(list[k].parts, p, new[k].parts)
        BY <1>2, <1>4, <2>1, <3>2 DEF At
      <4>2. PICK l2 \in 1 .. Len(list[k].parts) : new[k].parts[l] = list[k].parts[l2]
        BY <3>2, <4>1 DEF At, Lacks
      <4>3. At(list, q, k, l2)
        BY <1>4, <3>2, <4>1, <4>2 DEF At
      <4>. QED BY <4>3
    <3>. QED BY <3>1, <3>2 DEF Carried
  <2>2. CASE Owner[q] # Owner[p]
    <3>1. \A k, l : At(list, q, k, l) <=> At(new, q, k, l)
      BY <1>3, <1>4, <2>2 DEF At
    <3>2. \A k, l : At(list, q, k, l) => new[k].parts[l] = list[k].parts[l]
      BY <1>3, <2>2 DEF At
    <3>. QED BY <3>1, <3>2 DEF Carried
  <2>. QED BY <2>1, <2>2
<1>. QED BY <1>5, <1>6, <1>7

-----------------------------------------------------------------------------
(* The index. *)

LEMMA PlacedPoints ==
  ASSUME NEW list, Good(list), NEW p \in Part, NEW i, NEW j, At(list, p, i, j)
  PROVE  Points(list, p, Placed(i, j))
<1>1. i \in Nat /\ j \in Nat
  BY GoodRows DEF At
<1>2. Placed(i, j) \in Entry
  BY <1>1 DEF Placed, Entry
<1>. QED BY <1>2 DEF Placed, Points

\* Of an entry of another part.
LEMMA WrotePoints ==
  ASSUME NEW list, NEW new, NEW p \in Part, NEW i, NEW j, NEW x, Wrote(list, new, p, i, j, x),
         NEW q \in Part \ {p}, NEW e, Points(list, q, e)
  PROVE  Points(new, q, e)
<1>1. At(list, q, e.msg, e.part)
  BY DEF Points
<1>2. At(new, q, e.msg, e.part) /\ new[e.msg].parts[e.part] = list[e.msg].parts[e.part]
  BY <1>1 DEF Wrote
<1>. QED BY <1>2 DEF Points

LEMMA WroteIndex ==
  ASSUME IndexInv, NEW p \in Part, NEW i, NEW j, NEW x, Wrote(messages, messages', p, i, j, x),
         NEW e, e = Absent \/ Points(messages', p, e), parts' = [parts EXCEPT ![p] = e]
  PROVE  IndexInv'
<1>1. parts' = [q \in Part |-> parts'[q]] /\ parts'[p] = e
      /\ \A q \in Part \ {p} : parts'[q] = parts[q]
  BY DEF IndexInv
<1>2. ASSUME NEW q \in Part \ {p}, parts[q] # Absent PROVE Points(messages', q, parts[q])
  BY <1>2, WrotePoints DEF IndexInv
<1>3. \A q \in Part : parts'[q] # Absent => Points(messages', q, parts'[q])
  BY <1>1, <1>2
<1>. QED BY <1>1, <1>3 DEF IndexInv

LEMMA Searching ==
  ASSUME NEW list, Good(list), NEW p \in Part, NEW i, i = Find(list, Owner[p])
  PROVE  /\ i = 0 => \A k \in 1 .. Len(list) : list[k].id # Owner[p]
         /\ i # 0 => i \in 1 .. Len(list) /\ list[i].id = Owner[p]
         /\ i # 0 /\ Find(list[i].parts, p) # 0 => At(list, p, i, Find(list[i].parts, p))
         /\ i # 0 /\ Find(list[i].parts, p) = 0 => \A k, l : ~At(list, p, k, l)
<1>1. ASSUME i = 0, NEW k \in 1 .. Len(list), list[k].id = Owner[p] PROVE FALSE
  <2>1. /\ Len(list) \in Nat /\ k \in DOMAIN list
        /\ \A n \in DOMAIN list : list[n].id = Owner[p] => n = k
    BY <1>1, GoodRows DEF Good, UniqueIds
  <2>2. Find(list, Owner[p]) = k
    BY <1>1, <2>1, Finding
  <2>3. k # 0
    BY <2>1
  <2>. QED BY <1>1, <2>2, <2>3
<1>2. ASSUME i # 0 PROVE i \in 1 .. Len(list) /\ list[i].id = Owner[p]
  BY <1>2, Found, GoodRows
<1>3. ASSUME i # 0, Find(list[i].parts, p) # 0 PROVE At(list, p, i, Find(list[i].parts, p))
  BY <1>2, <1>3, Found, GoodRows DEF At
<1>4. ASSUME i # 0, Find(list[i].parts, p) = 0, NEW k, NEW l, At(list, p, k, l) PROVE FALSE
  <2>1. k = i /\ l = Find(list[i].parts, p)
    BY <1>4, Places
  <2>. QED BY <1>4, <2>1, GoodRows DEF At
<1>. QED BY <1>1, <1>2, <1>3, <1>4

LEMMA RebuiltIndex ==
  ASSUME Good(messages'), parts' = Index(messages')
  PROVE  IndexInv'
<1>1. ASSUME NEW p \in Part, Index(messages')[p] # Absent
      PROVE  Points(messages', p, Index(messages')[p])
  <2>. DEFINE i == Find(messages', Owner[p])
              j == Find(messages'[i].parts, p)
  <2>1. i # 0 /\ j # 0 /\ Index(messages')[p] = Placed(i, j)
    BY <1>1 DEF Index
  <2>2. At(messages', p, i, j)
    BY <2>1, Searching
  <2>. QED BY <2>1, <2>2, PlacedPoints
<1>2. Index(messages') = [p \in Part |-> Index(messages')[p]]
  BY DEF Index
<1>. QED BY <1>1, <1>2 DEF IndexInv

LEMMA NoIndexInv ==
  ASSUME parts' = NoIndex
  PROVE  IndexInv'
  BY DEF NoIndex, IndexInv

-----------------------------------------------------------------------------
(* The steps.  Each keeps the invariant, and reads after it what Transcript says. *)

Implemented == FoldInv' /\ ContentOf(messages') = Contract!After(event')

Became(p, c) == FoldInv' /\ ContentOf(messages') = [ContentOf(messages) EXCEPT ![p] = c]

\* A write, with the entry of the index that goes with it.
LEMMA WriteStep ==
  ASSUME FoldInv, NEW p \in Part, NEW i, NEW j, NEW x, Wrote(messages, messages', p, i, j, x),
         NEW e, e = Absent \/ Points(messages', p, e), parts' = [parts EXCEPT ![p] = e]
  PROVE  Became(p, x.content)
<1>1. Good(messages')
  BY DEF Wrote
<1>2. IndexInv'
  BY WroteIndex DEF FoldInv
<1>3. ContentOf(messages') = [ContentOf(messages) EXCEPT ![p] = x.content]
  BY WroteReads DEF FoldInv
<1>. QED BY <1>1, <1>2, <1>3 DEF FoldInv, Became

LEMMA MessageUpdatedStep ==
  ASSUME FoldInv, NEW m \in Message, MessageUpdated(m)
  PROVE  Implemented
<1>1. Contract!After(event') = ContentOf(messages)
  BY DEF MessageUpdated, Contract!After
<1>2. CASE Find(messages, m) # 0
  <2>1. UNCHANGED <<messages, parts>>
    BY <1>2 DEF MessageUpdated
  <2>2. ContentOf(messages') = ContentOf(messages)
    BY <2>1
  <2>. QED BY <1>1, <2>1, <2>2 DEF Implemented, FoldInv, IndexInv
<1>3. CASE Find(messages, m) = 0
  <2>1. PICK p \in Part : Owner[p] = m
    BY DEF Message
  <2>2. \A k \in 1 .. Len(messages) : messages[k].id # m
    BY <1>3, <2>1, Searching DEF FoldInv
  <2>3. messages' = Append(messages, NewMessage(m)) /\ parts' = parts
    BY <1>3 DEF MessageUpdated
  <2>4. Untouched(messages, messages')
    BY <2>2, <2>3, EmptyMessage DEF FoldInv
  <2>5. IndexInv'
    <3>1. ASSUME NEW q \in Part, parts[q] # Absent PROVE Points(messages', q, parts[q])
      <4>1. Points(messages, q, parts[q])
        BY <3>1 DEF FoldInv, IndexInv
      <4>. QED BY <2>4, <4>1 DEF Points, Untouched
    <3>. QED BY <2>3, <3>1 DEF FoldInv, IndexInv
  <2>6. ContentOf(messages') = ContentOf(messages)
    <3>1. \A q \in Part : ContentOf(messages')[q] = ContentOf(messages)[q]
      BY <2>4, CarriedReads DEF FoldInv, Untouched
    <3>2. /\ ContentOf(messages') = [q \in Part |-> ContentOf(messages')[q]]
          /\ ContentOf(messages) = [q \in Part |-> ContentOf(messages)[q]]
      BY DEF ContentOf
    <3>. HIDE DEF ContentOf
    <3>. QED BY <3>1, <3>2
  <2>. QED BY <1>1, <2>4, <2>5, <2>6 DEF Implemented, FoldInv, Untouched
<1>. QED BY <1>2, <1>3

LEMMA PartUpdatedStep ==
  ASSUME FoldInv, NEW p \in Part, NEW c \in Contents, PartUpdated(p, c)
  PROVE  Implemented
<1>. DEFINE new == [id |-> p, content |-> c]
            i == Find(messages, Owner[p])
            j == IF i = 0 THEN 0 ELSE Find(messages[i].parts, p)
<1>1. new \in Held /\ new.id = p /\ new.content = c
  BY DEF Held
<1>2. Contract!After(event') = [ContentOf(messages) EXCEPT ![p] = c]
  BY DEF PartUpdated, Contract!After
<1>3. Good(messages)
  BY DEF FoldInv
<1>4. CASE /\ i # 0 /\ j # 0
           /\ messages' = [messages EXCEPT ![i].parts[j] = new]
           /\ parts' = [parts EXCEPT ![p] = Absent]
  <2>1. At(messages, p, i, j)
    BY <1>3, <1>4, Searching
  <2>2. Wrote(messages, messages', p, i, j, new)
    BY <1>1, <1>3, <1>4, <2>1, WroteOver
  <2>. HIDE DEF new
  <2>4. Became(p, new.content)
    BY <1>4, <2>2, WriteStep
  <2>. QED BY <1>1, <1>2, <2>4 DEF Implemented, Became
<1>5. CASE /\ i # 0 /\ j = 0
           /\ messages' = [messages EXCEPT ![i].parts = Append(@, new)]
           /\ parts' = [parts EXCEPT ![p] = Placed(i, Len(messages[i].parts) + 1)]
  <2>1. i \in 1 .. Len(messages) /\ messages[i].id = Owner[p] /\ \A k, l : ~At(messages, p, k, l)
    BY <1>3, <1>5, Searching
  <2>2. Wrote(messages, messages', p, i, Len(messages[i].parts) + 1, new)
    BY <1>1, <1>3, <1>5, <2>1, WroteBehind
  <2>3. Points(messages', p, Placed(i, Len(messages[i].parts) + 1))
    BY <2>2, PlacedPoints DEF Wrote
  <2>. HIDE DEF new
  <2>4. Became(p, new.content)
    BY <1>5, <2>2, <2>3, WriteStep
  <2>. QED BY <1>1, <1>2, <2>4 DEF Implemented, Became
<1>6. CASE /\ i = 0
           /\ messages' = Append(messages, [id |-> Owner[p], parts |-> <<new>>])
           /\ parts' = [parts EXCEPT ![p] = Placed(Len(messages) + 1, 1)]
  <2>1. \A k \in 1 .. Len(messages) : messages[k].id # Owner[p]
    BY <1>3, <1>6, Searching
  <2>2. Wrote(messages, messages', p, Len(messages) + 1, 1, new)
    BY <1>1, <1>3, <1>6, <2>1, WroteNew
  <2>3. Points(messages', p, Placed(Len(messages) + 1, 1))
    BY <2>2, PlacedPoints DEF Wrote
  <2>. HIDE DEF new
  <2>4. Became(p, new.content)
    BY <1>6, <2>2, <2>3, WriteStep
  <2>. QED BY <1>1, <1>2, <2>4 DEF Implemented, Became
<1>. QED BY <1>4, <1>5, <1>6 DEF PartUpdated

\* The content after a delta.
Extended(c, field, d) == [c EXCEPT ![Slot(field)] = Append(@, d)]

LEMMA Extending ==
  ASSUME NEW c \in Contents, NEW field, NEW d \in Delta
  PROVE  /\ c[Slot(field)] \in Seq(Piece)
         /\ Extended(c, field, d) \in Contents
         /\ Extended(c, field, d)[Slot(field)] = Append(c[Slot(field)], d)
<1>1. c = [text |-> c.text, input |-> c.input] /\ c.text \in Seq(Piece) /\ c.input \in Seq(Piece)
  BY DEF Contents
<1>2. \A s \in Seq(Piece) : Append(s, d) \in Seq(Piece)
  BY DEF Piece
<1>3. CASE field = "input"
  <2>1. Slot(field) = "input"
    BY <1>3 DEF Slot
  <2>2. Extended(c, field, d) = [c EXCEPT !.input = Append(c.input, d)]
    BY <2>1 DEF Extended
  <2>3. Extended(c, field, d) = [text |-> c.text, input |-> Append(c.input, d)]
    BY <1>1, <2>2
  <2>. QED BY <1>1, <1>2, <2>1, <2>3 DEF Contents
<1>4. CASE field # "input"
  <2>1. Slot(field) = "text"
    BY <1>4 DEF Slot
  <2>2. Extended(c, field, d) = [c EXCEPT !.text = Append(c.text, d)]
    BY <2>1 DEF Extended
  <2>3. Extended(c, field, d) = [text |-> Append(c.text, d), input |-> c.input]
    BY <1>1, <2>2
  <2>. QED BY <1>1, <1>2, <2>1, <2>3 DEF Contents
<1>. QED BY <1>3, <1>4

\* AppendTo extends what the part reads, whichever of shadow and text it appends to.
Appended(list, p, i, j, field, d) ==
  LET c == Extended(list[i].parts[j].content, field, d)
  IN  /\ \E x \in Held : x.content = c /\ Wrote(list, messages', p, i, j, x)
      /\ \E e : Points(messages', p, e) /\ parts' = [parts EXCEPT ![p] = e]

LEMMA Appending ==
  ASSUME NEW list, Good(list), NEW p \in Part, NEW i, NEW j, At(list, p, i, j),
         NEW entry, entry # Absent => Points(list, p, entry) /\ entry.msg = i /\ entry.part = j,
         NEW field \in FieldsOf[p], NEW d \in Delta,
         AppendTo(list, i, j, entry, field, d)
  PROVE  Appended(list, p, i, j, field, d)
<1>. DEFINE h == list[i].parts[j]
            text == Append(h.content[Slot(field)], d)
            c == Extended(h.content, field, d)
            x == [h EXCEPT !.content = c]
            e == [msg |-> i, part |-> j, field |-> field, shadow |-> text]
<1>1. /\ h \in Held /\ h.id = p /\ h = [id |-> p, content |-> h.content] /\ h.content \in Contents
      /\ i \in Nat /\ j \in Nat
  BY GoodRows DEF At, Held
<1>2. field # "none" /\ field \in {"none"} \cup UNION {FieldsOf[q] : q \in Part}
  BY StoreAssumption
<1>3. (IF entry # Absent /\ entry.field = field THEN entry.shadow ELSE h.content[Slot(field)])
        = h.content[Slot(field)]
  BY <1>2 DEF Points
<1>4. /\ messages' = [list EXCEPT ![i].parts[j].content[Slot(field)] = text]
      /\ parts' = [parts EXCEPT ![p] = e]
  BY <1>1, <1>3 DEF AppendTo, At
<1>5. messages' = [list EXCEPT ![i].parts[j] = x]
  BY <1>4 DEF Extended
<1>. HIDE DEF h
<1>6. c \in Contents /\ c[Slot(field)] = text /\ text \in Seq(Piece)
  <2>1. /\ h.content[Slot(field)] \in Seq(Piece) /\ c \in Contents
        /\ c[Slot(field)] = Append(h.content[Slot(field)], d)
    BY <1>1, Extending
  <2>. QED BY <2>1 DEF Piece
<1>. HIDE DEF c, text
<1>7. x \in Held /\ x.id = p /\ x.content = c
  BY <1>1, <1>6 DEF Held
<1>8. Wrote(list, messages', p, i, j, x)
  <2>. HIDE DEF x
  <2>1. messages' = [list EXCEPT ![i].parts[j] = x]
    BY <1>5 DEF h
  <2>. QED BY <1>7, <2>1, WroteOver
<1>9. Points(messages', p, e)
  <2>1. At(messages', p, i, j) /\ messages'[i].parts[j] = x
    BY <1>8 DEF Wrote
  <2>2. e \in Entry
    BY <1>1, <1>2, <1>6 DEF Entry
  <2>. QED BY <1>6, <1>7, <2>1, <2>2 DEF Points
<1>10. x \in Held /\ x.content = Extended(list[i].parts[j].content, field, d)
         /\ Wrote(list, messages', p, i, j, x)
  BY <1>7, <1>8 DEF c, h
<1>. QED BY <1>4, <1>9, <1>10 DEF Appended

LEMMA AppendStep ==
  ASSUME FoldInv, NEW list, NEW p \in Part, NEW i, NEW j,
         list = messages \/ \E y : Wrote(messages, list, p, i, j, y),
         NEW field, NEW d, Appended(list, p, i, j, field, d)
  PROVE  Became(p, Extended(list[i].parts[j].content, field, d))
<1>. DEFINE c == Extended(list[i].parts[j].content, field, d)
<1>1. PICK x \in Held : x.content = c /\ Wrote(list, messages', p, i, j, x)
  BY DEF Appended
<1>2. PICK e : Points(messages', p, e) /\ parts' = [parts EXCEPT ![p] = e]
  BY DEF Appended
<1>. HIDE DEF c
<1>3. Wrote(messages, messages', p, i, j, x)
  BY <1>1, WroteTwice
<1>4. Became(p, x.content)
  BY <1>2, <1>3, WriteStep
<1>. QED BY <1>1, <1>4 DEF c

LEMMA DeltaStep ==
  ASSUME FoldInv, NEW p \in Part, NEW field \in FieldsOf[p], NEW d \in Delta,
         DeltaArrives(p, field, d)
  PROVE  Implemented
<1>. DEFINE i == Find(messages, Owner[p])
            j == IF i = 0 THEN 0 ELSE Find(messages[i].parts, p)
            was == ContentOf(messages)[p]
            base == IF was = Absent THEN Content ELSE was
<1>1. Contract!After(event') = [ContentOf(messages) EXCEPT ![p] = Extended(base, field, d)]
  BY DEF DeltaArrives, Contract!After, Contract!Blank, Contract!Slot, Content, Slot, Extended
<1>2. Good(messages)
  BY DEF FoldInv
<1>3. ASSUME Became(p, Extended(base, field, d)) PROVE Implemented
  BY <1>1, <1>3 DEF Implemented, Became
<1>. HIDE DEF was, base
<1>4. CASE Fast(p) /\ AppendTo(messages, parts[p].msg, parts[p].part, parts[p], field, d)
  <2>. DEFINE k == parts[p].msg
              l == parts[p].part
  <2>1. Points(messages, p, parts[p]) /\ At(messages, p, k, l)
    BY <1>4 DEF Fast, FoldInv, IndexInv, Points
  <2>2. was = messages[k].parts[l].content /\ was # Absent
    BY <1>2, <2>1, Reading, ReadsContent DEF was
  <2>3. Appended(messages, p, k, l, field, d)
    BY <1>2, <1>4, <2>1, Appending
  <2>4. Became(p, Extended(messages[k].parts[l].content, field, d))
    BY <2>3, AppendStep
  <2>. QED BY <1>3, <2>2, <2>4 DEF base
<1>5. CASE j # 0 /\ AppendTo(messages, i, j, Absent, field, d)
  <2>1. At(messages, p, i, j)
    BY <1>2, <1>5, Searching
  <2>. HIDE DEF i, j
  <2>2. was = messages[i].parts[j].content /\ was # Absent
    BY <1>2, <2>1, Reading, ReadsContent DEF was
  <2>3. Appended(messages, p, i, j, field, d)
    BY <1>2, <1>5, <2>1, Appending
  <2>4. Became(p, Extended(messages[i].parts[j].content, field, d))
    BY <2>3, AppendStep
  <2>. QED BY <1>3, <2>2, <2>4 DEF base
<1>6. NewPart(p) \in Held /\ NewPart(p).id = p /\ NewPart(p).content = Content
  BY DEF NewPart, Held, Content, Contents
<1>7. ASSUME NEW list, NEW k, NEW l, Wrote(messages, list, p, k, l, NewPart(p)),
             \A a, b : ~At(messages, p, a, b),
             AppendTo(list, k, l, Absent, field, d)
      PROVE  Implemented
  <2>1. Good(list) /\ At(list, p, k, l) /\ list[k].parts[l] = NewPart(p)
    BY <1>7 DEF Wrote
  <2>2. was = Absent
    BY <1>2, <1>7, ReadingNone DEF was
  <2>3. Appended(list, p, k, l, field, d)
    BY <1>7, <2>1, Appending
  <2>4. Became(p, Extended(list[k].parts[l].content, field, d))
    BY <1>7, <2>3, AppendStep
  <2>. QED BY <1>3, <1>6, <2>1, <2>2, <2>4 DEF base
<1>8. CASE /\ i # 0 /\ j = 0
           /\ AppendTo([messages EXCEPT ![i].parts = Append(@, NewPart(p))],
                       i, Len(messages[i].parts) + 1, Absent, field, d)
  <2>. DEFINE list == [messages EXCEPT ![i].parts = Append(@, NewPart(p))]
  <2>1. i \in 1 .. Len(messages) /\ messages[i].id = Owner[p] /\ \A k, l : ~At(messages, p, k, l)
    BY <1>2, <1>8, Searching
  <2>. HIDE DEF i, j
  <2>2. Wrote(messages, list, p, i, Len(messages[i].parts) + 1, NewPart(p))
    BY <1>2, <1>6, <2>1, WroteBehind
  <2>3. AppendTo(list, i, Len(messages[i].parts) + 1, Absent, field, d)
    BY <1>8
  <2>. HIDE DEF list
  <2>. QED BY <1>7, <2>1, <2>2, <2>3
<1>9. CASE /\ i = 0
           /\ AppendTo(Append(messages, [id |-> Owner[p], parts |-> <<NewPart(p)>>]),
                       Len(messages) + 1, 1, Absent, field, d)
  <2>. DEFINE list == Append(messages, [id |-> Owner[p], parts |-> <<NewPart(p)>>])
  <2>1. \A k \in 1 .. Len(messages) : messages[k].id # Owner[p]
    BY <1>2, <1>9, Searching
  <2>2. Wrote(messages, list, p, Len(messages) + 1, 1, NewPart(p))
    BY <1>2, <1>6, <2>1, WroteNew
  <2>3. \A k, l : ~At(messages, p, k, l)
    BY <2>1 DEF At
  <2>4. AppendTo(list, Len(messages) + 1, 1, Absent, field, d)
    BY <1>9
  <2>. HIDE DEF list
  <2>. QED BY <1>7, <2>2, <2>3, <2>4
<1>. QED BY <1>4, <1>5, <1>8, <1>9 DEF DeltaArrives

\* A removal, with the index made anew.
LEMMA RemovalStep ==
  ASSUME FoldInv, Good(messages'), parts' = Index(messages'), NEW gone \in SUBSET Part,
         \A q \in gone : \A k, l : ~At(messages', q, k, l),
         \A q \in Part \ gone : Carried(messages, messages', q)
  PROVE  /\ FoldInv'
         /\ ContentOf(messages') =
              [q \in Part |-> IF q \in gone THEN Absent ELSE ContentOf(messages)[q]]
<1>1. \A q \in gone : ContentOf(messages')[q] = Absent
  BY ReadingNone
<1>2. \A q \in Part \ gone : ContentOf(messages')[q] = ContentOf(messages)[q]
  BY CarriedReads DEF FoldInv
<1>3. ContentOf(messages') = [q \in Part |-> ContentOf(messages')[q]]
  BY DEF ContentOf
<1>4. IndexInv'
  BY RebuiltIndex
<1>. HIDE DEF ContentOf
<1>. QED BY <1>1, <1>2, <1>3, <1>4 DEF FoldInv

LEMMA MessageRemovedStep ==
  ASSUME FoldInv, NEW m \in Message, MessageRemoved(m)
  PROVE  Implemented
<1>. DEFINE gone == {q \in Part : Owner[q] = m}
<1>1. /\ Good(messages')
      /\ \A q \in Part : IF Owner[q] = m THEN \A k, l : ~At(messages', q, k, l)
                                         ELSE Carried(messages, messages', q)
  BY LessAMessage DEF MessageRemoved, FoldInv
<1>2. /\ \A q \in gone : \A k, l : ~At(messages', q, k, l)
      /\ \A q \in Part \ gone : Carried(messages, messages', q)
      /\ gone \in SUBSET Part
  BY <1>1
<1>3. /\ FoldInv'
      /\ ContentOf(messages') =
           [q \in Part |-> IF q \in gone THEN Absent ELSE ContentOf(messages)[q]]
  <2>1. parts' = Index(messages')
    BY DEF MessageRemoved
  <2>. HIDE DEF gone
  <2>. QED BY <1>1, <1>2, <2>1, RemovalStep
<1>4. Contract!After(event')
        = [q \in Part |-> IF Owner[q] = m THEN Absent ELSE ContentOf(messages)[q]]
  BY DEF MessageRemoved, Contract!After
<1>. QED BY <1>3, <1>4 DEF Implemented

LEMMA PartRemovedStep ==
  ASSUME FoldInv, NEW p \in Part, PartRemoved(p)
  PROVE  Implemented
<1>1. /\ Good(messages') /\ \A k, l : ~At(messages', p, k, l)
      /\ \A q \in Part \ {p} : Carried(messages, messages', q)
  BY LessAPart DEF PartRemoved, FoldInv
<1>2. /\ FoldInv'
      /\ ContentOf(messages') =
           [q \in Part |-> IF q \in {p} THEN Absent ELSE ContentOf(messages)[q]]
  <2>1. parts' = Index(messages') /\ {p} \in SUBSET Part
    BY DEF PartRemoved
  <2>2. \A q \in {p} : \A k, l : ~At(messages', q, k, l)
    BY <1>1
  <2>. QED BY <1>1, <2>1, <2>2, RemovalStep
<1>3. Contract!After(event') = [ContentOf(messages) EXCEPT ![p] = Absent]
  BY DEF PartRemoved, Contract!After
<1>4. ContentOf(messages) = [q \in Part |-> ContentOf(messages)[q]]
  BY DEF ContentOf
<1>. HIDE DEF ContentOf
<1>5. [ContentOf(messages) EXCEPT ![p] = Absent]
        = [q \in Part |-> IF q \in {p} THEN Absent ELSE ContentOf(messages)[q]]
  BY <1>4
<1>. QED BY <1>2, <1>3, <1>5 DEF Implemented

LEMMA HydratedStep ==
  ASSUME FoldInv, NEW list \in Listings, Hydrated(list)
  PROVE  Implemented
<1>1. Good(messages') /\ IndexInv'
  BY NoIndexInv, StoreAssumption DEF Hydrated
<1>2. Contract!After(event') = ContentOf(messages')
  BY DEF Hydrated, Contract!After
<1>. QED BY <1>1, <1>2 DEF Implemented, FoldInv

LEMMA SessionDeletedStep ==
  ASSUME FoldInv, SessionDeleted
  PROVE  Implemented
<1>1. UNCHANGED <<messages, parts>> /\ Contract!After(event') = ContentOf(messages)
  BY DEF SessionDeleted, Contract!After
<1>2. ContentOf(messages') = ContentOf(messages)
  BY <1>1
<1>. QED BY <1>1, <1>2 DEF Implemented, FoldInv, IndexInv

-----------------------------------------------------------------------------
LEMMA FoldInit == StoreInit => FoldInv /\ Contract!TInit
<1>. SUFFICES ASSUME StoreInit PROVE FoldInv /\ Contract!TInit
  OBVIOUS
<1>1. messages = <<>> /\ parts = NoIndex /\ event = [kind |-> "none"]
  BY DEF StoreInit
<1>2. Good(messages)
  BY <1>1 DEF Good, UniqueIds
<1>3. IndexInv
  BY <1>1 DEF IndexInv, NoIndex
<1>4. ContentOf(messages) = [p \in Part |-> Absent]
  <2>1. \A p \in Part : ContentOf(messages)[p] = Absent
    BY <1>1, <1>2, ReadingNone DEF At
  <2>2. ContentOf(messages) = [p \in Part |-> ContentOf(messages)[p]]
    BY DEF ContentOf
  <2>. HIDE DEF ContentOf
  <2>. QED BY <2>1, <2>2
<1>. QED BY <1>1, <1>2, <1>3, <1>4 DEF FoldInv, Contract!TInit

LEMMA FoldNext ==
  FoldInv /\ [StoreNext]_storeVars
    => FoldInv' /\ [Contract!TNext]_<<ContentOf(messages), event>>
<1>. SUFFICES ASSUME FoldInv, [StoreNext]_storeVars
              PROVE  FoldInv' /\ [Contract!TNext]_<<ContentOf(messages), event>>
  OBVIOUS
<1>1. ASSUME Implemented PROVE FoldInv' /\ [Contract!TNext]_<<ContentOf(messages), event>>
  BY <1>1 DEF Implemented, Contract!TNext
<1>2. ASSUME NEW m \in Message, MessageUpdated(m) \/ MessageRemoved(m) PROVE Implemented
  BY <1>2, MessageUpdatedStep, MessageRemovedStep
<1>3. ASSUME NEW p \in Part, NEW c \in Given(p), PartUpdated(p, c) PROVE Implemented
  <2>1. Content \in Contents /\ <<Seed>> \in Seq(Piece)
    BY DEF Content, Contents, Piece
  <2>2. \A f : Slot(f) \in {"text", "input"}
    BY DEF Slot
  <2>3. \A f : [Content EXCEPT ![Slot(f)] = <<Seed>>] \in Contents
    BY <2>1, <2>2 DEF Contents
  <2>4. c \in Contents
    BY <2>1, <2>3 DEF Given
  <2>. QED BY <1>3, <2>4, PartUpdatedStep
<1>4. ASSUME NEW p \in Part, NEW f \in FieldsOf[p], NEW d \in Delta, DeltaArrives(p, f, d)
      PROVE  Implemented
  BY <1>4, DeltaStep
<1>5. ASSUME NEW p \in Part, PartRemoved(p) PROVE Implemented
  BY <1>5, PartRemovedStep
<1>6. ASSUME NEW list \in Listings, Hydrated(list) PROVE Implemented
  BY <1>6, HydratedStep
<1>7. ASSUME SessionDeleted PROVE Implemented
  BY <1>7, SessionDeletedStep
<1>8. CASE UNCHANGED storeVars
  <2>1. messages' = messages /\ parts' = parts /\ event' = event
    BY <1>8 DEF storeVars
  <2>2. ContentOf(messages') = ContentOf(messages)
    BY <2>1
  <2>. QED BY <2>1, <2>2 DEF FoldInv, IndexInv
<1>. QED
  BY <1>1, <1>2, <1>3, <1>4, <1>5, <1>6, <1>7, <1>8 DEF StoreNext

\* For any parts, listings and deltas, the ids of the messages stay unique and every entry of
\* the index names the place of its part, with a shadow that is what the part reads there.
THEOREM FoldSafety ==
  StoreSpec => []FoldInv
<1>1. StoreInit => FoldInv
  BY FoldInit
<1>2. FoldInv /\ [StoreNext]_storeVars => FoldInv'
  BY FoldNext
<1>. QED BY <1>1, <1>2, PTL DEF StoreSpec

\* The fold of the store implements what Transcript promises: after every event a part reads
\* what it was last given and the deltas since, whatever was added, removed or replaced.
THEOREM TranscriptImplemented ==
  StoreSpec => ImplementsTranscript
<1>1. StoreInit => Contract!TInit
  BY FoldInit
<1>2. FoldInv /\ [StoreNext]_storeVars => [Contract!TNext]_<<ContentOf(messages), event>>
  BY FoldNext
<1>. QED BY <1>1, <1>2, FoldSafety, PTL DEF StoreSpec, ImplementsTranscript, Contract!TSpec

=============================================================================
