------------------------------ MODULE RoundProofs ------------------------------
(***************************************************************************)
(* What module Round claims of a turn's rounds, for every set of calls,    *)
(* every bound and every setting: the parts settle (RoundsSettle), the     *)
(* history kept is the history stored (HistoryIsStored), no call repeats   *)
(* unasked (NoSilentLoop), none runs that came after the abort             *)
(* (AbortStopsTools), and a finished part is never touched again           *)
(* (FinalIsFinal).                                                         *)
(*                                                                         *)
(* The inductive invariant RoundInv says where a part may still change:    *)
(* the open text of a stream and the shown part of the running call, each  *)
(* found on the wire under the id the turn remembers.  What a step does to *)
(* the parts is a fact about two lists, the wire and the rows, and about   *)
(* Upsert; those lemmas come first.                                        *)
(***************************************************************************)
EXTENDS Round, TLAPS

-----------------------------------------------------------------------------
(* The inductive invariant.                                                *)

ToolStages == {"checking", "start", "run"} \cup Gates \cup Waits
\* The stages before the part of the call exists, and those past the doom gate.
Unshown == {"checking", "doom", "doom?", "start"}
PastDoom == {"start", "external", "external?", "core", "core?", "run"}

\* The types the proof needs.
Shape ==
  /\ setting \in Settings
  /\ pc \in {"request", "opening", "backoff", "streaming", "tool", "noting",
             "finishing", "ending", "done"}
  /\ round \in Nat
  /\ pc \notin {"request", "ending", "done"} => round > 0
  /\ open \in [Kinds -> Nat] /\ text \in [Kinds -> Nat]
  /\ pc = "tool" =>
       tool \in [stage : ToolStages, id : Nat \ {0}, key : Key, late : BOOLEAN]
  /\ result # "none" => pc \in {"ending", "done"}
  /\ cancelled \in BOOLEAN

\* The wire shows part i at place i: an id is never used for two parts.
Ids(w) == w \in Seq(PartRecord) /\ \A i \in 1 .. Len(w) : w[i].id = i

\* A row is of a part shown, never of one that streams, and a finished row is
\* the part as shown.
Held(w, s) ==
  /\ s \in Seq(PartRecord)
  /\ \A j \in 1 .. Len(s) :
       /\ s[j].id \in 1 .. Len(w)
       /\ s[j].msg = w[s[j].id].msg
       /\ s[j].state # "open"
       /\ Terminal(s[j]) => w[s[j].id] = s[j]

\* When no statement fails: every row is the part as shown, and every part
\* that no longer streams has its row.
Same(w, s) == \A j \in 1 .. Len(s) : w[s[j].id] = s[j]
Stored(w, s, aborted) ==
  \A i \in 1 .. Len(w) :
    w[i].state # "open" /\ (w[i].kind # "note" \/ ~aborted) =>
      \E j \in 1 .. Len(s) : s[j] = w[i]

PartsInv ==
  /\ Ids(wire)
  /\ Held(wire, store)
  /\ ~DbMayFail => Same(wire, store) /\ Stored(wire, store, cancelled)

\* The part a stream goes on with is its own, of this round and still open.
OpenInv ==
  /\ \A kind \in Kinds : Open(kind) =>
       /\ open[kind] \in 1 .. Len(wire)
       /\ wire[open[kind]].kind = kind
       /\ wire[open[kind]].msg = round
       /\ pc = "streaming" => wire[open[kind]].state = "open"
  /\ pc \notin {"streaming", "noting", "finishing"} => open = NoText

\* The part of a call takes the next id; from ToolStart on it is shown running.
ShownInv ==
  pc = "tool" =>
    IF tool.stage \in Unshown THEN tool.id = Len(wire) + 1
    ELSE /\ tool.id \in 1 .. Len(wire)
         /\ wire[tool.id].kind = "tool"
         /\ wire[tool.id].msg = round
         /\ wire[tool.id].state = "running"

\* Nothing else is unfinished.
SettledInv ==
  result # "panicked" =>
    \A i \in 1 .. Len(wire) :
      \/ Terminal(wire[i])
      \/ pc = "streaming" /\ \E kind \in Kinds : open[kind] = i
      \/ pc = "tool" /\ tool.id = i

\* The rounds that are over.
Over == IF pc \in {"request", "ending", "done"} THEN round ELSE round - 1
HistoryInv ==
  ~DbMayFail /\ result # "panicked" =>
    /\ completed = 1 .. Over
    /\ hist = [m \in 1 .. Over |-> Replayed(m)]

\* The doom history is the calls that reached the gate; the call past the gate
\* is its last, and repeats the two before it only if it was cleared.
DoomInv ==
  /\ doom \in Seq(Key) /\ reached \in Seq([key : Key, cleared : BOOLEAN])
  /\ Len(doom) = Len(reached)
  /\ \A i \in 1 .. Len(doom) : doom[i] = reached[i].key
  /\ pc = "tool" /\ tool.stage \in PastDoom =>
       LET n == Len(reached) IN
       /\ n >= 1 /\ reached[n].key = tool.key
       /\ n >= 3 /\ reached[n - 1].key = tool.key /\ reached[n - 2].key = tool.key
            => reached[n].cleared

\* A call that came after the abort is never checked through.
LateInv ==
  pc = "tool" =>
    /\ tool.late => cancelled
    /\ tool.stage # "checking" => ~tool.late

RoundInv ==
  /\ Shape /\ PartsInv /\ OpenInv /\ ShownInv /\ SettledInv /\ HistoryInv
  /\ DoomInv /\ LateInv

-----------------------------------------------------------------------------
(* Lists of parts.                                                         *)

\* UpsertPart changes the rows of the part's id, or adds one at the end.
Upserted(q, p, u) ==
  /\ u \in Seq(PartRecord)
  /\ Len(u) >= Len(q)
  /\ \A i \in 1 .. Len(q) : u[i] = IF q[i].id = p.id THEN p ELSE q[i]
  /\ \A i \in 1 .. Len(u) : i > Len(q) => u[i] = p
  /\ \E i \in 1 .. Len(u) : u[i] = p
  /\ (\E i \in 1 .. Len(q) : q[i].id = p.id) => Len(u) = Len(q)
  /\ (\A i \in 1 .. Len(q) : q[i].id # p.id) => Len(u) = Len(q) + 1

LEMMA UpsertFacts ==
  ASSUME NEW q \in Seq(PartRecord), NEW p \in PartRecord, NEW u, u = Upsert(q, p)
  PROVE  Upserted(q, p, u)
<1>1. CASE \E i \in 1 .. Len(q) : q[i].id = p.id
  <2> DEFINE v == [i \in DOMAIN q |-> IF q[i].id = p.id THEN p ELSE q[i]]
  <2>1. u = v
    BY <1>1 DEF Upsert
  <2>2. v \in Seq(PartRecord) /\ Len(v) = Len(q)
    OBVIOUS
  <2>3. \A i \in 1 .. Len(q) : v[i] = IF q[i].id = p.id THEN p ELSE q[i]
    OBVIOUS
  <2> HIDE DEF v
  <2>4. PICK i \in 1 .. Len(q) : q[i].id = p.id
    BY <1>1
  <2>5. v[i] = p
    BY <2>3, <2>4
  <2> QED BY <1>1, <2>1, <2>2, <2>3, <2>4, <2>5 DEF Upserted
<1>2. CASE \A i \in 1 .. Len(q) : q[i].id # p.id
  <2>1. u = Append(q, p)
    BY <1>2 DEF Upsert
  <2> QED BY <1>2, <2>1 DEF Upserted
<1> QED BY <1>1, <1>2

\* On the wire the id is the place.
LEMMA UpsertWire ==
  ASSUME NEW w, Ids(w), NEW p \in PartRecord, p.id \in 1 .. Len(w) + 1,
         NEW u, u = Upsert(w, p)
  PROVE  /\ Ids(u)
         /\ Len(u) = IF p.id = Len(w) + 1 THEN Len(w) + 1 ELSE Len(w)
         /\ \A i \in 1 .. Len(u) : u[i] = IF i = p.id THEN p ELSE w[i]
<1>0. w \in Seq(PartRecord) /\ \A i \in 1 .. Len(w) : w[i].id = i
  BY DEF Ids
<1>1. /\ u \in Seq(PartRecord)
      /\ \A i \in 1 .. Len(w) : u[i] = IF w[i].id = p.id THEN p ELSE w[i]
      /\ \A i \in 1 .. Len(u) : i > Len(w) => u[i] = p
      /\ (\E i \in 1 .. Len(w) : w[i].id = p.id) => Len(u) = Len(w)
      /\ (\A i \in 1 .. Len(w) : w[i].id # p.id) => Len(u) = Len(w) + 1
  <2>1. Upserted(w, p, u)
    BY <1>0, UpsertFacts
  <2> QED BY <2>1 DEF Upserted
<1>2. Len(u) = IF p.id = Len(w) + 1 THEN Len(w) + 1 ELSE Len(w)
  BY <1>0, <1>1
<1>3. \A i \in 1 .. Len(u) : u[i] = IF i = p.id THEN p ELSE w[i]
  BY <1>0, <1>1, <1>2
<1>4. \A i \in 1 .. Len(u) : u[i].id = i
  BY <1>0, <1>1, <1>2, <1>3
<1> QED BY <1>1, <1>2, <1>3, <1>4 DEF Ids

\* What a step may do to a list of parts: finished parts stay as they are.
Keeps(q, u) ==
  Len(q) <= Len(u) /\ \A i \in 1 .. Len(q) : Terminal(q[i]) => u[i] = q[i]

\* A part may be written that is new, or unfinished and of the same message.
Writable(w, p) ==
  /\ p \in PartRecord
  /\ p.id \in 1 .. Len(w) + 1
  /\ p.id <= Len(w) => w[p.id].msg = p.msg /\ ~Terminal(w[p.id])

\* Showing such a part keeps the rows held, whether its row is written or not.
LEMMA ShowKeepsHeld ==
  ASSUME NEW w, NEW s, Ids(w), Held(w, s), NEW p, Writable(w, p),
         NEW u, u = Upsert(w, p)
  PROVE  Ids(u) /\ Held(u, s) /\ Keeps(w, u)
<1>1. /\ p \in PartRecord /\ p.id \in 1 .. Len(w) + 1
      /\ p.id <= Len(w) => w[p.id].msg = p.msg /\ ~Terminal(w[p.id])
  BY DEF Writable
<1>2. /\ Ids(u)
      /\ Len(u) = IF p.id = Len(w) + 1 THEN Len(w) + 1 ELSE Len(w)
      /\ \A i \in 1 .. Len(u) : u[i] = IF i = p.id THEN p ELSE w[i]
  BY <1>1, UpsertWire
<1>3. w \in Seq(PartRecord)
  BY DEF Ids
<1>4. Held(u, s)
  <2> SUFFICES ASSUME NEW j \in 1 .. Len(s)
               PROVE  /\ s[j].id \in 1 .. Len(u)
                      /\ s[j].msg = u[s[j].id].msg
                      /\ s[j].state # "open"
                      /\ Terminal(s[j]) => u[s[j].id] = s[j]
    BY DEF Held
  <2>1. /\ s[j].id \in 1 .. Len(w) /\ s[j].msg = w[s[j].id].msg
        /\ s[j].state # "open"
        /\ Terminal(s[j]) => w[s[j].id] = s[j]
    BY DEF Held
  <2>2. CASE s[j].id = p.id
    <3>1. ~Terminal(s[j]) /\ w[p.id].msg = p.msg
      BY <1>1, <1>3, <2>1, <2>2 DEF Terminal
    <3>2. p.id \in 1 .. Len(u) /\ u[p.id] = p
      BY <1>1, <1>2, <1>3
    <3> QED BY <2>1, <2>2, <3>1, <3>2
  <2>3. CASE s[j].id # p.id
    <3> DEFINE i == s[j].id
    <3>1. i \in 1 .. Len(w) /\ i # p.id
      BY <2>1, <2>3
    <3> HIDE DEF i
    <3>2. i \in 1 .. Len(u) /\ u[i] = w[i]
      BY <1>1, <1>2, <1>3, <3>1
    <3> QED BY <2>1, <3>2 DEF i
  <2> QED BY <2>2, <2>3
<1>5. Keeps(w, u)
  BY <1>1, <1>2, <1>3 DEF Keeps
<1> QED BY <1>2, <1>4, <1>5

LEMMA SaveKeepsHeld ==
  ASSUME NEW w, NEW s, Ids(w), Held(w, s), NEW p, Writable(w, p), p.state # "open",
         NEW u, u = Upsert(w, p), NEW v, v = Upsert(s, p)
  PROVE  Held(u, v) /\ Keeps(s, v)
<1>1. /\ p \in PartRecord /\ p.id \in 1 .. Len(w) + 1
      /\ p.id <= Len(w) => w[p.id].msg = p.msg /\ ~Terminal(w[p.id])
  BY DEF Writable
<1>2. /\ Len(u) = IF p.id = Len(w) + 1 THEN Len(w) + 1 ELSE Len(w)
      /\ \A i \in 1 .. Len(u) : u[i] = IF i = p.id THEN p ELSE w[i]
  BY <1>1, UpsertWire
<1>3. w \in Seq(PartRecord) /\ s \in Seq(PartRecord)
  BY DEF Ids, Held
<1>4. Held(u, s)
  BY ShowKeepsHeld
<1>5. p.id \in 1 .. Len(u) /\ u[p.id] = p
  BY <1>1, <1>2, <1>3
<1>6. /\ v \in Seq(PartRecord) /\ Len(v) >= Len(s)
      /\ \A j \in 1 .. Len(s) : v[j] = IF s[j].id = p.id THEN p ELSE s[j]
      /\ \A j \in 1 .. Len(v) : j > Len(s) => v[j] = p
  <2>1. Upserted(s, p, v)
    BY <1>1, <1>3, UpsertFacts
  <2> QED BY <2>1 DEF Upserted
<1>7. Held(u, v)
  <2> SUFFICES ASSUME NEW j \in 1 .. Len(v)
               PROVE  /\ v[j].id \in 1 .. Len(u)
                      /\ v[j].msg = u[v[j].id].msg
                      /\ v[j].state # "open"
                      /\ Terminal(v[j]) => u[v[j].id] = v[j]
    BY <1>6 DEF Held
  <2>1. v[j] = p \/ (j \in 1 .. Len(s) /\ v[j] = s[j])
    BY <1>3, <1>6
  <2>2. CASE v[j] = p
    BY <1>5, <2>2
  <2>3. CASE j \in 1 .. Len(s) /\ v[j] = s[j]
    BY <1>4, <2>3 DEF Held
  <2> QED BY <2>1, <2>2, <2>3
<1>8. Keeps(s, v)
  <2>1. ASSUME NEW j \in 1 .. Len(s), Terminal(s[j])
        PROVE  s[j].id # p.id
    <3>1. s[j].id \in 1 .. Len(w) /\ w[s[j].id] = s[j]
      BY <2>1 DEF Held
    <3> QED BY <1>1, <1>3, <2>1, <3>1
  <2> QED BY <1>6, <2>1 DEF Keeps
<1> QED BY <1>7, <1>8

\* A part both shown and saved leaves wire and rows in step; so does a part
\* that still streams, which has no row.
LEMMA SaveKeepsSame ==
  ASSUME NEW w, NEW s, Ids(w), Held(w, s), NEW p, Writable(w, p), Same(w, s),
         NEW u, u = Upsert(w, p), NEW v, v = Upsert(s, p)
  PROVE  /\ Same(u, v)
         /\ \A aborted : Stored(w, s, aborted) => Stored(u, v, aborted)
<1>1. p \in PartRecord /\ p.id \in 1 .. Len(w) + 1
  BY DEF Writable
<1>2. /\ Len(u) = IF p.id = Len(w) + 1 THEN Len(w) + 1 ELSE Len(w)
      /\ \A i \in 1 .. Len(u) : u[i] = IF i = p.id THEN p ELSE w[i]
  BY <1>1, UpsertWire
<1>3. w \in Seq(PartRecord) /\ s \in Seq(PartRecord)
  BY DEF Ids, Held
<1>5. p.id \in 1 .. Len(u) /\ u[p.id] = p
  BY <1>1, <1>2, <1>3
<1>6. /\ v \in Seq(PartRecord) /\ Len(v) >= Len(s)
      /\ \A j \in 1 .. Len(s) : v[j] = IF s[j].id = p.id THEN p ELSE s[j]
      /\ \A j \in 1 .. Len(v) : j > Len(s) => v[j] = p
      /\ \E j \in 1 .. Len(v) : v[j] = p
  <2>1. Upserted(s, p, v)
    BY <1>1, <1>3, UpsertFacts
  <2> QED BY <2>1 DEF Upserted
<1>7. Same(u, v)
  <2> SUFFICES ASSUME NEW j \in 1 .. Len(v)
               PROVE  u[v[j].id] = v[j]
    BY DEF Same
  <2>1. v[j] = p \/ (j \in 1 .. Len(s) /\ s[j].id # p.id /\ v[j] = s[j])
    BY <1>3, <1>6
  <2>2. CASE v[j] = p
    BY <1>5, <2>2
  <2>3. CASE j \in 1 .. Len(s) /\ s[j].id # p.id /\ v[j] = s[j]
    <3>1. s[j].id \in 1 .. Len(w) /\ w[s[j].id] = s[j]
      BY <2>3 DEF Held, Same
    <3> DEFINE i == s[j].id
    <3>2. i \in 1 .. Len(w) /\ i # p.id
      BY <2>3, <3>1
    <3> HIDE DEF i
    <3>3. u[i] = w[i]
      BY <1>1, <1>2, <1>3, <3>2
    <3> QED BY <2>3, <3>1, <3>3 DEF i
  <2> QED BY <2>1, <2>2, <2>3
<1>8. ASSUME NEW aborted, Stored(w, s, aborted)
      PROVE  Stored(u, v, aborted)
  <2> SUFFICES ASSUME NEW i \in 1 .. Len(u), u[i].state # "open",
                      u[i].kind # "note" \/ ~aborted
               PROVE  \E j \in 1 .. Len(v) : v[j] = u[i]
    BY DEF Stored
  <2>1. CASE i = p.id
    BY <1>5, <1>6, <2>1
  <2>2. CASE i # p.id
    <3>1. i \in 1 .. Len(w) /\ u[i] = w[i] /\ w[i].id = i
      BY <1>1, <1>2, <1>3, <2>2 DEF Ids
    <3>2. PICK j \in 1 .. Len(s) : s[j] = w[i]
      BY <1>8, <3>1 DEF Stored
    <3>3. j \in 1 .. Len(v) /\ v[j] = s[j]
      BY <1>3, <1>6, <2>2, <3>1, <3>2
    <3> QED BY <3>1, <3>2, <3>3
  <2> QED BY <2>1, <2>2
<1> QED BY <1>7, <1>8

LEMMA ShowKeepsSame ==
  ASSUME NEW w, NEW s, Ids(w), Held(w, s), NEW p, Writable(w, p), Same(w, s),
         p.state = "open", p.id <= Len(w) => w[p.id].state = "open",
         NEW u, u = Upsert(w, p)
  PROVE  /\ Same(u, s)
         /\ \A aborted : Stored(w, s, aborted) => Stored(u, s, aborted)
<1>1. p \in PartRecord /\ p.id \in 1 .. Len(w) + 1
  BY DEF Writable
<1>2. /\ Len(u) = IF p.id = Len(w) + 1 THEN Len(w) + 1 ELSE Len(w)
      /\ \A i \in 1 .. Len(u) : u[i] = IF i = p.id THEN p ELSE w[i]
  BY <1>1, UpsertWire
<1>3. w \in Seq(PartRecord)
  BY DEF Ids
<1>4. ASSUME NEW j \in 1 .. Len(s)
      PROVE  s[j].id \in 1 .. Len(w) /\ s[j].id # p.id /\ w[s[j].id] = s[j]
  <2>1. s[j].id \in 1 .. Len(w) /\ w[s[j].id] = s[j] /\ s[j].state # "open"
    BY DEF Held, Same
  <2> QED BY <1>3, <2>1
<1>5. Same(u, s)
  BY <1>2, <1>3, <1>4 DEF Same
<1>6. ASSUME NEW aborted, Stored(w, s, aborted)
      PROVE  Stored(u, s, aborted)
  <2> SUFFICES ASSUME NEW i \in 1 .. Len(u), u[i].state # "open",
                      u[i].kind # "note" \/ ~aborted
               PROVE  \E j \in 1 .. Len(s) : s[j] = u[i]
    BY DEF Stored
  <2>1. i # p.id /\ i \in 1 .. Len(w) /\ u[i] = w[i]
    BY <1>1, <1>2, <1>3
  <2> QED BY <1>6, <2>1 DEF Stored
<1> QED BY <1>5, <1>6

\* Writing the rows of a part leaves the other messages' rows alone.
LEMMA WritableRows ==
  ASSUME NEW w, NEW s, Ids(w), Held(w, s), NEW p, Writable(w, p), NEW m, m # p.msg,
         NEW v, v = Upsert(s, p)
  PROVE  RowsOf(v, m) = RowsOf(s, m)
<1>1. w \in Seq(PartRecord) /\ s \in Seq(PartRecord) /\ p \in PartRecord
  BY DEF Ids, Held, Writable
<1>2. \A j \in 1 .. Len(s) : s[j].id = p.id => s[j].msg = p.msg
  BY <1>1 DEF Held, Writable
<1>3. /\ v \in Seq(PartRecord) /\ Len(v) >= Len(s)
      /\ \A j \in 1 .. Len(s) : v[j] = IF s[j].id = p.id THEN p ELSE s[j]
      /\ \A j \in 1 .. Len(v) : j > Len(s) => v[j] = p
  <2>1. Upserted(s, p, v)
    BY <1>1, UpsertFacts
  <2> QED BY <2>1 DEF Upserted
<1>4. \A j : j \in DOMAIN v /\ v[j].msg = m <=> j \in DOMAIN s /\ s[j].msg = m
  BY <1>1, <1>2, <1>3, SMTT(30)
<1>5. \A j \in DOMAIN s : s[j].msg = m => v[j] = s[j]
  BY <1>1, <1>2, <1>3
<1>6. {j \in DOMAIN v : v[j].msg = m} = {j \in DOMAIN s : s[j].msg = m}
  BY <1>4
<1> QED BY <1>5, <1>6 DEF RowsOf

-----------------------------------------------------------------------------
(* What the steps of a turn do to the wire and the rows.                   *)

\* Finished parts stay, and so do the rows of the other rounds.
Stepped(w, s, u, v) ==
  /\ Ids(u) /\ Held(u, v)
  /\ Keeps(w, u) /\ Keeps(s, v)
  /\ \A m \in Nat \ {round} : RowsOf(v, m) = RowsOf(s, m)

\* Wire and rows stay in step.
InStep(w, s, u, v) ==
  Same(w, s) =>
    Same(u, v) /\ \A aborted : Stored(w, s, aborted) => Stored(u, v, aborted)

LEMMA FinalRecord ==
  ASSUME Shape, pc = "streaming", NEW kind \in Kinds, Open(kind)
  PROVE  /\ Final(kind) \in PartRecord
         /\ Final(kind).id = open[kind] /\ Final(kind).msg = round
         /\ Final(kind).kind = kind /\ Final(kind).state = "final"
<1>1. /\ round \in Nat \ {0}
      /\ open[kind] \in Nat \ {0} /\ text[kind] \in Nat
  BY DEF Shape, Open
<1> QED BY <1>1 DEF Final, Part, PartRecord

\* Finalizing the open part of a kind, with or without its row.
LEMMA FinalizedFacts ==
  ASSUME Shape, pc = "streaming", NEW w, NEW s, Ids(w), Held(w, s),
         NEW kind \in Kinds, NEW kinds,
         Open(kind) => /\ open[kind] \in 1 .. Len(w)
                       /\ w[open[kind]].msg = round
                       /\ w[open[kind]].state = "open",
         NEW u, u = Finalized(w, kind, Kinds), NEW v, v = Finalized(s, kind, kinds)
  PROVE  /\ Stepped(w, s, u, v)
         /\ Len(u) = Len(w)
         /\ \A i \in 1 .. Len(w) :
              u[i] = IF Open(kind) /\ i = open[kind] THEN Final(kind) ELSE w[i]
         /\ kinds = Kinds => InStep(w, s, u, v)
<1>1. CASE ~Open(kind)
  <2>1. u = w /\ v = s
    BY <1>1 DEF Finalized
  <2>2. Keeps(w, w) /\ Keeps(s, s)
    BY DEF Keeps, Ids, Held
  <2> QED BY <1>1, <2>1, <2>2 DEF Stepped, InStep
<1>2. CASE Open(kind)
  <2> DEFINE p == Final(kind)
  <2>1. /\ p \in PartRecord /\ p.id = open[kind] /\ p.msg = round
        /\ p.kind = kind /\ p.state = "final"
    BY <1>2, FinalRecord
  <2> HIDE DEF p
  <2>2. u = Upsert(w, p)
    BY <1>2 DEF Finalized, p
  <2>3. v = Upsert(s, p) \/ (v = s /\ kinds # Kinds)
    BY <1>2 DEF Finalized, p
  <2>4. Writable(w, p)
    BY <1>2, <2>1 DEF Writable, Terminal
  <2>5. Ids(u) /\ Held(u, s) /\ Keeps(w, u)
    BY <2>2, <2>4, ShowKeepsHeld
  <2>6. Held(u, v) /\ Keeps(s, v)
    <3>1. CASE v = Upsert(s, p)
      BY <2>1, <2>2, <2>4, <3>1, SaveKeepsHeld
    <3>2. CASE v = s
      BY <2>5, <3>2 DEF Keeps, Held
    <3> QED BY <2>3, <3>1, <3>2
  <2>7. \A m \in Nat \ {round} : RowsOf(v, m) = RowsOf(s, m)
    BY <2>1, <2>3, <2>4, WritableRows
  <2>8. /\ Len(u) = Len(w)
        /\ \A i \in 1 .. Len(w) : u[i] = IF i = open[kind] THEN p ELSE w[i]
    <3>1. w \in Seq(PartRecord)
      BY DEF Ids
    <3>2. p.id \in 1 .. Len(w) + 1
      BY <2>4 DEF Writable
    <3>3. /\ Len(u) = IF p.id = Len(w) + 1 THEN Len(w) + 1 ELSE Len(w)
          /\ \A i \in 1 .. Len(u) : u[i] = IF i = p.id THEN p ELSE w[i]
      BY <2>1, <2>2, <3>2, UpsertWire
    <3> QED BY <1>2, <2>1, <3>1, <3>3
  <2>9. kinds = Kinds => InStep(w, s, u, v)
    BY <2>2, <2>3, <2>4, SaveKeepsSame DEF InStep
  <2> QED BY <1>2, <2>5, <2>6, <2>7, <2>8, <2>9 DEF Stepped, p
<1> QED BY <1>1, <1>2

LEMMA SteppedTwice ==
  ASSUME NEW w, NEW s, NEW u, NEW v, NEW x, NEW y, Ids(w), Held(w, s),
         Stepped(w, s, u, v), Stepped(u, v, x, y)
  PROVE  /\ Stepped(w, s, x, y)
         /\ InStep(w, s, u, v) /\ InStep(u, v, x, y) => InStep(w, s, x, y)
<1>1. ASSUME NEW a \in Seq(PartRecord), NEW b \in Seq(PartRecord),
             NEW c \in Seq(PartRecord), Keeps(a, b), Keeps(b, c)
      PROVE  Keeps(a, c)
  BY <1>1, SMTT(30) DEF Keeps
<1>2. /\ w \in Seq(PartRecord) /\ u \in Seq(PartRecord) /\ x \in Seq(PartRecord)
      /\ s \in Seq(PartRecord) /\ v \in Seq(PartRecord) /\ y \in Seq(PartRecord)
  BY DEF Stepped, Ids, Held
<1>3. Keeps(w, x) /\ Keeps(s, y)
  BY <1>1, <1>2 DEF Stepped
<1> QED BY <1>3 DEF Stepped, InStep

\* partState.Finalize ends the open parts, and changes nothing else.
LEMMA FinalizeFacts ==
  ASSUME Shape, PartsInv, OpenInv, pc = "streaming", FinalizeParts
  PROVE  /\ Stepped(wire, store, wire', store')
         /\ ~DbMayFail => InStep(wire, store, wire', store')
         /\ Len(wire') = Len(wire)
         /\ \A i \in 1 .. Len(wire) :
              \/ wire'[i] = wire[i] /\ \A kind \in Kinds : open[kind] # i
              \/ \E kind \in Kinds : open[kind] = i /\ wire'[i] = Final(kind)
<1>0. PICK written \in IF DbMayFail THEN SUBSET Kinds ELSE {Kinds} :
        store' = Finalized(Finalized(store, "text", written), "reasoning", written)
  BY DEF FinalizeParts
<1> DEFINE u == Finalized(wire, "text", Kinds)
           v == Finalized(store, "text", written)
<1>1. wire' = Finalized(u, "reasoning", Kinds) /\ store' = Finalized(v, "reasoning", written)
  BY <1>0 DEF FinalizeParts
<1>2. Ids(wire) /\ Held(wire, store) /\ wire \in Seq(PartRecord)
  BY DEF PartsInv, Ids
<1>3. ASSUME NEW kind \in Kinds, Open(kind)
      PROVE  /\ open[kind] \in 1 .. Len(wire)
             /\ wire[open[kind]].kind = kind
             /\ wire[open[kind]].msg = round
             /\ wire[open[kind]].state = "open"
  BY <1>3 DEF OpenInv
<1> HIDE DEF u, v
<1>4. /\ Stepped(wire, store, u, v)
      /\ Len(u) = Len(wire)
      /\ \A i \in 1 .. Len(wire) :
           u[i] = IF Open("text") /\ i = open["text"] THEN Final("text") ELSE wire[i]
      /\ written = Kinds => InStep(wire, store, u, v)
  BY <1>2, <1>3, FinalizedFacts DEF Kinds, u, v
<1>5. Open("reasoning") => /\ open["reasoning"] \in 1 .. Len(u)
                           /\ u[open["reasoning"]].msg = round
                           /\ u[open["reasoning"]].state = "open"
  BY <1>3, <1>4 DEF Kinds
<1>6. /\ Stepped(u, v, wire', store')
      /\ Len(wire') = Len(u)
      /\ \A i \in 1 .. Len(u) :
           wire'[i] = IF Open("reasoning") /\ i = open["reasoning"]
                      THEN Final("reasoning") ELSE u[i]
      /\ written = Kinds => InStep(u, v, wire', store')
  <2>1. Ids(u) /\ Held(u, v)
    BY <1>4 DEF Stepped
  <2> QED BY <1>1, <1>5, <2>1, FinalizedFacts DEF Kinds
<1>7. /\ Stepped(wire, store, wire', store')
      /\ written = Kinds => InStep(wire, store, wire', store')
  BY <1>2, <1>4, <1>6, SteppedTwice
<1>8. ~DbMayFail => written = Kinds
  BY <1>0
<1>9. ASSUME NEW i \in 1 .. Len(wire)
      PROVE  \/ wire'[i] = wire[i] /\ \A kind \in Kinds : open[kind] # i
             \/ \E kind \in Kinds : open[kind] = i /\ wire'[i] = Final(kind)
  <2>1. i # 0
    BY <1>2, <1>9
  <2> QED BY <1>4, <1>6, <2>1, <1>3 DEF Kinds, Open
<1> QED BY <1>4, <1>6, <1>7, <1>8, <1>9

\* Save shows a finished or running part, with or without its row.
LEMMA SaveFacts ==
  ASSUME PartsInv, Shape, NEW p, Writable(wire, p), p.msg = round, p.state # "open", Save(p)
  PROVE  /\ Stepped(wire, store, wire', store')
         /\ ~DbMayFail => InStep(wire, store, wire', store')
         /\ Len(wire') = IF p.id = Len(wire) + 1 THEN Len(wire) + 1 ELSE Len(wire)
         /\ \A i \in 1 .. Len(wire') : wire'[i] = IF i = p.id THEN p ELSE wire[i]
<1>1. wire' = Upsert(wire, p) /\ (store' = Upsert(store, p) \/ (DbMayFail /\ store' = store))
  BY DEF Save
<1>2. Ids(wire) /\ Held(wire, store)
  BY DEF PartsInv
<1>3. p \in PartRecord /\ p.id \in 1 .. Len(wire) + 1
  BY DEF Writable
<1>4. Ids(wire') /\ Held(wire', store) /\ Keeps(wire, wire')
  BY <1>1, <1>2, ShowKeepsHeld
<1>5. Held(wire', store') /\ Keeps(store, store')
  <2>1. CASE store' = Upsert(store, p)
    BY <1>1, <1>2, <2>1, SaveKeepsHeld
  <2>2. CASE store' = store
    BY <1>4, <2>2 DEF Keeps, Held
  <2> QED BY <1>1, <2>1, <2>2
<1>6. \A m \in Nat \ {round} : RowsOf(store', m) = RowsOf(store, m)
  BY <1>1, <1>2, WritableRows
<1>7. ~DbMayFail => InStep(wire, store, wire', store')
  BY <1>1, <1>2, SaveKeepsSame DEF InStep
<1>8. /\ Len(wire') = IF p.id = Len(wire) + 1 THEN Len(wire) + 1 ELSE Len(wire)
      /\ \A i \in 1 .. Len(wire') : wire'[i] = IF i = p.id THEN p ELSE wire[i]
  BY <1>1, <1>2, <1>3, UpsertWire
<1> QED BY <1>4, <1>5, <1>6, <1>7, <1>8 DEF Stepped

\* The part of the call: the next one, or the one shown running.
LEMMA ToolPartFacts ==
  ASSUME Shape, PartsInv, ShownInv, pc = "tool",
         NEW state \in {"running", "completed", "error"}, ToolPart(state)
  PROVE  /\ Stepped(wire, store, wire', store')
         /\ ~DbMayFail => InStep(wire, store, wire', store')
         /\ Len(wire') >= Len(wire)
         /\ tool.id \in 1 .. Len(wire')
         /\ wire'[tool.id].kind = "tool" /\ wire'[tool.id].msg = round
         /\ wire'[tool.id].state = state
         /\ \A i \in 1 .. Len(wire') : i # tool.id => i <= Len(wire) /\ wire'[i] = wire[i]
<1> DEFINE p == Part(tool.id, "tool", state, 0, 0)
<1>1. tool.id \in Nat \ {0} /\ round \in Nat \ {0}
  BY DEF Shape
<1>2. /\ p \in PartRecord /\ p.id = tool.id /\ p.kind = "tool" /\ p.msg = round
      /\ p.state = state
  BY <1>1 DEF Part, PartRecord
<1>3. Save(p)
  BY DEF ToolPart
<1> HIDE DEF p
<1>4. wire \in Seq(PartRecord)
  BY DEF PartsInv, Ids
<1>5. \/ tool.id = Len(wire) + 1
      \/ /\ tool.id \in 1 .. Len(wire) /\ wire[tool.id].msg = round
         /\ ~Terminal(wire[tool.id])
  BY DEF ShownInv, Terminal
<1>6. Writable(wire, p)
  BY <1>2, <1>4, <1>5 DEF Writable
<1>7. /\ Stepped(wire, store, wire', store')
      /\ ~DbMayFail => InStep(wire, store, wire', store')
      /\ Len(wire') = IF p.id = Len(wire) + 1 THEN Len(wire) + 1 ELSE Len(wire)
      /\ \A i \in 1 .. Len(wire') : wire'[i] = IF i = p.id THEN p ELSE wire[i]
  BY <1>2, <1>3, <1>6, SaveFacts
<1>8. tool.id \in 1 .. Len(wire') /\ wire'[tool.id] = p /\ Len(wire') >= Len(wire)
  BY <1>2, <1>4, <1>5, <1>7
<1>9. \A i \in 1 .. Len(wire') : i # tool.id => i <= Len(wire) /\ wire'[i] = wire[i]
  BY <1>2, <1>4, <1>7
<1> QED BY <1>2, <1>7, <1>8, <1>9

\* A delta shows a part that streams and writes no row.
LEMMA DeltaFacts ==
  ASSUME Shape, PartsInv, OpenInv, NEW kind \in Kinds, Delta(kind)
  PROVE  /\ Stepped(wire, store, wire', store')
         /\ ~DbMayFail => InStep(wire, store, wire', store')
         /\ Len(wire') >= Len(wire)
         /\ open' \in [Kinds -> Nat] /\ text' \in [Kinds -> Nat]
         /\ open'[kind] \in 1 .. Len(wire')
         /\ wire'[open'[kind]].kind = kind /\ wire'[open'[kind]].msg = round
         /\ wire'[open'[kind]].state = "open"
         /\ \A i \in 1 .. Len(wire') :
              i # open'[kind] => i <= Len(wire) /\ wire'[i] = wire[i]
         /\ \A other \in Kinds \ {kind} : open'[other] = open[other]
         /\ Open(kind) => open'[kind] = open[kind]
<1> DEFINE id == IF Open(kind) THEN open[kind] ELSE Fresh
           n == text[kind] + 1
           p == Part(id, kind, "open", n, id)
<1>1. /\ pc = "streaming"
      /\ open' = [open EXCEPT ![kind] = id] /\ text' = [text EXCEPT ![kind] = n]
      /\ wire' = Upsert(wire, p) /\ store' = store
  BY DEF Delta
<1>2. wire \in Seq(PartRecord) /\ Ids(wire) /\ Held(wire, store)
  BY DEF PartsInv, Ids
<1>3. round \in Nat \ {0} /\ open \in [Kinds -> Nat] /\ text \in [Kinds -> Nat]
  BY <1>1 DEF Shape
<1>4. /\ id \in 1 .. Len(wire) + 1
      /\ id <= Len(wire) => wire[id].msg = round /\ wire[id].state = "open"
  BY <1>1, <1>2, <1>3 DEF OpenInv, Fresh
<1>5. open' \in [Kinds -> Nat] /\ text' \in [Kinds -> Nat] /\ open'[kind] = id
  BY <1>1, <1>2, <1>3, <1>4
<1>6. \A other \in Kinds \ {kind} : open'[other] = open[other]
  BY <1>1, <1>3
<1>7. n \in Nat
  BY <1>3
<1>8. Open(kind) => id = open[kind]
  OBVIOUS
<1> HIDE DEF id, n
<1>9. /\ p \in PartRecord /\ p.id = id /\ p.msg = round /\ p.kind = kind
      /\ p.state = "open"
  BY <1>2, <1>3, <1>4, <1>7 DEF Part, PartRecord
<1> HIDE DEF p
<1>10. Writable(wire, p)
  BY <1>4, <1>9 DEF Writable, Terminal
<1>11. Ids(wire') /\ Held(wire', store') /\ Keeps(wire, wire')
  BY <1>1, <1>2, <1>10, ShowKeepsHeld
<1>12. Keeps(store, store')
  BY <1>1, <1>2 DEF Keeps, Held
<1>13. InStep(wire, store, wire', store')
  BY <1>1, <1>2, <1>4, <1>9, <1>10, ShowKeepsSame DEF InStep
<1>14. /\ Len(wire') = IF id = Len(wire) + 1 THEN Len(wire) + 1 ELSE Len(wire)
       /\ \A i \in 1 .. Len(wire') : wire'[i] = IF i = id THEN p ELSE wire[i]
  BY <1>1, <1>2, <1>4, <1>9, UpsertWire
<1>15. /\ Len(wire') >= Len(wire) /\ id \in 1 .. Len(wire') /\ wire'[id] = p
       /\ \A i \in 1 .. Len(wire') : i # id => i <= Len(wire) /\ wire'[i] = wire[i]
  BY <1>2, <1>4, <1>14
<1>16. Stepped(wire, store, wire', store')
  BY <1>1, <1>11, <1>12 DEF Stepped
<1> QED BY <1>5, <1>6, <1>8, <1>9, <1>13, <1>15, <1>16

\* A note is a part of its own, already final.
LEMMA NoteFacts ==
  ASSUME Shape, PartsInv, SaveNote
  PROVE  /\ Stepped(wire, store, wire', store')
         /\ ~DbMayFail /\ Same(wire, store) /\ Stored(wire, store, cancelled)
              => Same(wire', store') /\ Stored(wire', store', cancelled)
         /\ Len(wire') = Len(wire) + 1
         /\ Terminal(wire'[Len(wire) + 1])
         /\ \A i \in 1 .. Len(wire) : wire'[i] = wire[i]
<1> DEFINE p == Part(Fresh, "note", "final", 0, Fresh)
<1>1. /\ pc = "noting" /\ wire' = Append(wire, p)
      /\ \/ store' = Append(store, p)
         \/ (cancelled \/ DbMayFail) /\ store' = store
  BY DEF SaveNote
<1>2. /\ wire \in Seq(PartRecord) /\ Ids(wire) /\ Held(wire, store)
      /\ store \in Seq(PartRecord)
  BY DEF PartsInv, Ids, Held
<1>3. round \in Nat \ {0}
  BY <1>1 DEF Shape
<1>4. /\ p \in PartRecord /\ p.id = Len(wire) + 1 /\ p.msg = round /\ p.kind = "note"
      /\ p.state = "final"
  BY <1>2, <1>3 DEF Part, PartRecord, Fresh
<1> HIDE DEF p
<1>5. Writable(wire, p)
  BY <1>2, <1>4 DEF Writable
<1>6. /\ \A i \in 1 .. Len(wire) : wire[i].id # p.id
      /\ \A j \in 1 .. Len(store) : store[j].id \in 1 .. Len(wire) /\ store[j].id # p.id
  BY <1>2, <1>4 DEF Ids, Held
<1>7. Append(wire, p) = Upsert(wire, p) /\ Append(store, p) = Upsert(store, p)
  BY <1>2, <1>6 DEF Upsert
<1>8. Ids(wire') /\ Held(wire', store) /\ Keeps(wire, wire')
  BY <1>1, <1>2, <1>5, <1>7, ShowKeepsHeld
<1>9. /\ Len(wire') = Len(wire) + 1 /\ wire'[Len(wire) + 1] = p
      /\ \A i \in 1 .. Len(wire) : wire'[i] = wire[i]
  BY <1>1, <1>2, <1>4
<1>10. CASE store' = Append(store, p)
  <2>1. Held(wire', store') /\ Keeps(store, store')
    BY <1>1, <1>2, <1>4, <1>5, <1>7, <1>10, SaveKeepsHeld
  <2>2. \A m \in Nat \ {round} : RowsOf(store', m) = RowsOf(store, m)
    BY <1>2, <1>4, <1>5, <1>7, <1>10, WritableRows
  <2>3. InStep(wire, store, wire', store')
    BY <1>1, <1>2, <1>5, <1>7, <1>10, SaveKeepsSame DEF InStep
  <2> QED BY <1>4, <1>8, <1>9, <2>1, <2>2, <2>3 DEF Stepped, InStep, Terminal
<1>11. CASE store' = store /\ (cancelled \/ DbMayFail)
  <2>1. Keeps(store, store')
    BY <1>2, <1>11 DEF Keeps
  <2>2. Same(wire, store) => Same(wire', store)
    BY <1>6, <1>9 DEF Same
  <2>3. ~DbMayFail /\ Stored(wire, store, cancelled) => Stored(wire', store, cancelled)
    <3> SUFFICES ASSUME cancelled, Stored(wire, store, cancelled),
                        NEW i \in 1 .. Len(wire'), wire'[i].state # "open",
                        wire'[i].kind # "note" \/ ~cancelled
                 PROVE  \E j \in 1 .. Len(store) : store[j] = wire'[i]
      BY <1>11 DEF Stored
    <3>1. i \in 1 .. Len(wire) /\ wire'[i] = wire[i]
      BY <1>2, <1>4, <1>9
    <3> QED BY <3>1 DEF Stored
  <2> QED BY <1>4, <1>8, <1>9, <1>11, <2>1, <2>2, <2>3 DEF Stepped, Terminal
<1> QED BY <1>1, <1>10, <1>11

-----------------------------------------------------------------------------
(* One step.                                                               *)

Actions ==
  \/ StartRound \/ SaveNote \/ FinishRound \/ EndTurn
  \/ StreamRefused \/ StreamBusy \/ Retry \/ StreamAborted
  \/ ToolChecked \/ AskGate \/ DoomAskFails \/ ToolStart
  \/ StreamOpens \/ \E kind \in Kinds : Delta(kind)
  \/ StreamFails \/ StreamEnds \/ \E key \in Key : ToolCall(key)
  \/ ToolRefused \/ DoomAllowed \/ DoomDenied \/ GateAllowed \/ GateDenied
  \/ ToolRan \/ ToolPanics \/ Abort

LEMMA NextActions == Next => Actions /\ setting' = setting
  BY DEF Next, TurnStep, Answer, Actions

\* Every step of the turn's parts, whichever it is.
LEMMA PartsStep ==
  ASSUME Shape, PartsInv, OpenInv, ShownInv, Next
  PROVE  /\ \/ UNCHANGED <<wire, store>>
            \/ /\ Stepped(wire, store, wire', store')
               /\ pc \in {"streaming", "tool", "noting"}
               /\ UNCHANGED <<round, completed, hist, result, cancelled>>
         /\ ~DbMayFail /\ Same(wire, store) /\ Stored(wire, store, cancelled)
              => Same(wire', store') /\ Stored(wire', store', cancelled')
<1>0. Actions /\ setting' = setting
  BY NextActions
<1> DEFINE Moves ==
             /\ Stepped(wire, store, wire', store')
             /\ pc \in {"streaming", "tool", "noting"}
             /\ UNCHANGED <<round, completed, hist, result, cancelled>>
           Rests == UNCHANGED <<wire, store>>
           Steady == ~DbMayFail /\ Same(wire, store) /\ Stored(wire, store, cancelled)
                       => Same(wire', store') /\ Stored(wire', store', cancelled')
<1>1. CASE StreamAborted \/ StreamFails \/ StreamEnds \/ \E key \in Key : ToolCall(key)
  <2>1. /\ pc = "streaming" /\ FinalizeParts
        /\ UNCHANGED <<round, completed, hist, result, cancelled>>
    BY <1>1 DEF StreamAborted, StreamFails, StreamEnds, ToolCall
  <2>2. /\ Stepped(wire, store, wire', store')
        /\ ~DbMayFail => InStep(wire, store, wire', store')
    BY <2>1, FinalizeFacts
  <2>3. Steady
    BY <2>1, <2>2 DEF InStep
  <2> QED BY <2>1, <2>2, <2>3
<1>2. CASE ToolRefused \/ DoomDenied \/ DoomAskFails \/ ToolStart \/ GateDenied \/ ToolRan
  <2>1. PICK state \in {"running", "completed", "error"} :
          /\ pc = "tool" /\ ToolPart(state)
          /\ UNCHANGED <<round, completed, hist, result, cancelled>>
    BY <1>2 DEF ToolRefused, DoomDenied, DoomAskFails, ToolStart, GateDenied, ToolRan,
                In, Asked, NotAsked, endVars
  <2>2. /\ Stepped(wire, store, wire', store')
        /\ ~DbMayFail => InStep(wire, store, wire', store')
    BY <2>1, ToolPartFacts
  <2>3. Steady
    BY <2>1, <2>2 DEF InStep
  <2> QED BY <2>1, <2>2, <2>3
<1>3. ASSUME NEW kind \in Kinds, Delta(kind)
      PROVE  Moves /\ Steady
  <2>1. pc = "streaming" /\ UNCHANGED <<round, completed, hist, result, cancelled>>
    BY <1>3 DEF Delta, endVars
  <2>2. /\ Stepped(wire, store, wire', store')
        /\ ~DbMayFail => InStep(wire, store, wire', store')
    BY <1>3, DeltaFacts
  <2>3. Steady
    BY <2>1, <2>2 DEF InStep
  <2> QED BY <2>1, <2>2, <2>3
<1>4. CASE SaveNote
  <2>1. pc = "noting" /\ UNCHANGED <<round, completed, hist, result, cancelled>>
    BY <1>4 DEF SaveNote, endVars
  <2> QED BY <1>4, <2>1, NoteFacts
<1>5. CASE \/ StartRound \/ FinishRound \/ EndTurn \/ StreamRefused \/ StreamBusy
           \/ Retry \/ ToolChecked \/ AskGate \/ StreamOpens \/ DoomAllowed
           \/ GateAllowed \/ ToolPanics \/ Abort
  <2>1. Rests
    BY <1>5 DEF StartRound, FinishRound, EndTurn, StreamRefused, StreamBusy, Retry,
                ToolChecked, AskGate, StreamOpens, DoomAllowed, GateAllowed, ToolPanics,
                Abort, partVars
  <2>2. cancelled \in BOOLEAN /\ (cancelled => cancelled')
    BY <1>5 DEF Shape, StartRound, FinishRound, EndTurn, StreamRefused, StreamBusy, Retry,
                ToolChecked, AskGate, StreamOpens, DoomAllowed, GateAllowed, ToolPanics,
                Abort
  <2>3. Stored(wire, store, cancelled) => Stored(wire, store, cancelled')
    BY <2>2 DEF Stored
  <2> QED BY <2>1, <2>3
<1> QED BY <1>0, <1>1, <1>2, <1>3, <1>4, <1>5 DEF Actions

LEMMA PartsNext ==
  ASSUME Shape, PartsInv, OpenInv, ShownInv, Next
  PROVE  PartsInv'
<1>1. DbMayFail' = DbMayFail
  BY NextActions DEF DbMayFail
<1>2. Ids(wire') /\ Held(wire', store')
  BY PartsStep DEF PartsInv, Stepped
<1>3. ~DbMayFail => Same(wire', store') /\ Stored(wire', store', cancelled')
  BY PartsStep DEF PartsInv
<1> QED BY <1>1, <1>2, <1>3 DEF PartsInv

\* The types.
LEMMA ShapeNext ==
  ASSUME Shape, PartsInv, OpenInv, Next
  PROVE  Shape'
<1>0. Actions /\ setting' = setting
  BY NextActions
<1> USE DEF Shape
<1>1. NoText \in [Kinds -> Nat]
  BY DEF NoText
<1>2. Len(wire) \in Nat
  BY DEF PartsInv, Ids
<1>3. CASE StartRound
  BY <1>0, <1>3 DEF StartRound, Goto, End, streamVars, endVars, Failure
<1>4. CASE SaveNote
  BY <1>0, <1>4 DEF SaveNote, Goto, streamVars, toolVars, endVars
<1>5. CASE FinishRound
  BY <1>0, <1>1, <1>5 DEF FinishRound, AfterRound, Goto, End, toolVars, endVars
<1>6. CASE EndTurn
  BY <1>0, <1>6 DEF EndTurn, Goto, streamVars, toolVars, endVars
<1>7. CASE StreamRefused \/ StreamBusy \/ Retry \/ StreamOpens
  BY <1>0, <1>7 DEF StreamRefused, StreamBusy, Retry, StreamOpens, Leave, LeaveWithNote,
                    Goto, streamVars, toolVars, endVars
<1>8. CASE StreamAborted \/ StreamFails \/ StreamEnds
  BY <1>0, <1>8 DEF StreamAborted, StreamFails, StreamEnds, Leave, LeaveWithNote, Goto,
                    streamVars, toolVars
<1>9. ASSUME NEW key \in Key, ToolCall(key)
      PROVE  Shape'
  BY <1>0, <1>1, <1>2, <1>9 DEF ToolCall, Leave, Goto, Call, Fresh, Reset, ToolStages
<1>10. ASSUME NEW kind \in Kinds, Delta(kind)
       PROVE  Shape'
  <2>1. open' \in [Kinds -> Nat] /\ text' \in [Kinds -> Nat]
    BY <1>10, DeltaFacts
  <2> QED BY <1>0, <1>10, <2>1 DEF Delta, toolVars, endVars
<1>11. CASE ToolChecked
  BY <1>0, <1>11 DEF ToolChecked, In, Stage, streamVars, endVars, ToolStages, Gates
<1>12. CASE AskGate
  BY <1>0, <1>12 DEF AskGate, Ask, In, Stage, streamVars, endVars, ToolStages, Waits
<1>13. CASE DoomAllowed
  BY <1>0, <1>13 DEF DoomAllowed, Asked, In, Stage, streamVars, endVars, ToolStages
<1>14. CASE ToolStart \/ GateAllowed
  BY <1>0, <1>14 DEF ToolStart, GateAllowed, Asked, In, Stage, streamVars, endVars,
                     ToolStages, Gates
<1>15. CASE ToolRefused \/ DoomDenied \/ DoomAskFails \/ GateDenied \/ ToolRan
  BY <1>0, <1>15 DEF ToolRefused, DoomDenied, DoomAskFails, GateDenied, ToolRan, ToolOver,
                     Asked, NotAsked, In, Goto, streamVars, endVars
<1>16. CASE ToolPanics
  BY <1>0, <1>16 DEF ToolPanics, In, End, Goto, streamVars
<1>17. CASE Abort
  BY <1>0, <1>17 DEF Abort, streamVars, toolVars, endVars
<1> QED
  BY <1>0, <1>3, <1>4, <1>5, <1>6, <1>7, <1>8, <1>9, <1>10, <1>11, <1>12, <1>13, <1>14,
     <1>15, <1>16, <1>17 DEF Actions

\* The steps that leave the parts alone, and those that end the stream.
QuietSteps ==
  \/ StartRound \/ EndTurn \/ StreamRefused \/ StreamBusy \/ Retry \/ StreamOpens
  \/ ToolChecked \/ AskGate \/ DoomAllowed \/ GateAllowed \/ ToolPanics
StreamOver == StreamAborted \/ StreamFails \/ StreamEnds
CallOver == ToolRefused \/ DoomDenied \/ DoomAskFails \/ GateDenied \/ ToolRan

\* What a call that ends leaves of its part.
LEMMA CallOverFacts ==
  ASSUME Shape, PartsInv, ShownInv, CallOver
  PROVE  /\ pc = "tool" /\ pc' = "streaming" /\ UNCHANGED <<open, result, round>>
         /\ \A i \in 1 .. Len(wire') :
              \/ i = tool.id /\ Terminal(wire'[i])
              \/ i # tool.id /\ i <= Len(wire) /\ wire'[i] = wire[i]
         /\ Len(wire') >= Len(wire)
<1>1. PICK state \in {"completed", "error"} :
        /\ pc = "tool" /\ ToolPart(state) /\ pc' = "streaming"
        /\ UNCHANGED <<open, result, round>>
  BY DEF CallOver, ToolRefused, DoomDenied, DoomAskFails, GateDenied, ToolRan, In, Asked,
         NotAsked, ToolOver, Goto, endVars, streamVars
<1>2. /\ wire'[tool.id].state = state
      /\ \A i \in 1 .. Len(wire') : i # tool.id => i <= Len(wire) /\ wire'[i] = wire[i]
      /\ Len(wire') >= Len(wire)
  BY <1>1, ToolPartFacts
<1> QED BY <1>1, <1>2 DEF Terminal

LEMMA ToolStartFacts ==
  ASSUME Shape, PartsInv, ShownInv, ToolStart
  PROVE  /\ pc = "tool" /\ pc' = "tool" /\ UNCHANGED <<open, result, round, cancelled>>
         /\ tool.stage = "start"
         /\ tool'.id = tool.id /\ tool'.key = tool.key /\ tool'.late = tool.late
         /\ tool'.stage \in {"external", "core"}
         /\ tool.id \in 1 .. Len(wire')
         /\ wire'[tool.id].kind = "tool" /\ wire'[tool.id].msg = round
         /\ wire'[tool.id].state = "running"
         /\ \A i \in 1 .. Len(wire') : i # tool.id => i <= Len(wire) /\ wire'[i] = wire[i]
<1>1. /\ pc = "tool" /\ pc' = "tool" /\ UNCHANGED <<open, result, round, cancelled>>
      /\ tool.stage = "start" /\ ToolPart("running")
      /\ Stage("external") \/ Stage("core")
  BY DEF ToolStart, In, streamVars, endVars
<1>2. tool \in [stage : ToolStages, id : Nat \ {0}, key : Key, late : BOOLEAN]
  BY <1>1 DEF Shape
<1>3. /\ tool'.id = tool.id /\ tool'.key = tool.key /\ tool'.late = tool.late
      /\ tool'.stage \in {"external", "core"}
  BY <1>1, <1>2 DEF Stage
<1> QED BY <1>1, <1>3, ToolPartFacts

\* The open parts of a stream.
LEMMA OpenNext ==
  ASSUME Shape, PartsInv, OpenInv, ShownInv, Next
  PROVE  OpenInv'
<1>0. Actions
  BY NextActions
<1>1. \A kind \in Kinds : NoText[kind] = 0
  BY DEF NoText
<1>2. wire \in Seq(PartRecord)
  BY DEF PartsInv, Ids
<1>3. CASE open' = NoText
  BY <1>1, <1>3 DEF OpenInv, Open
<1>4. CASE StreamOver
  <2>1. /\ pc = "streaming" /\ pc' \in {"noting", "finishing"} /\ FinalizeParts
        /\ UNCHANGED <<open, round>>
    BY <1>4 DEF StreamOver, StreamAborted, StreamFails, StreamEnds, Leave, LeaveWithNote,
                Goto, streamVars
  <2>2. /\ Len(wire') = Len(wire)
        /\ \A i \in 1 .. Len(wire) :
             \/ wire'[i] = wire[i] /\ \A kind \in Kinds : open[kind] # i
             \/ \E kind \in Kinds : open[kind] = i /\ wire'[i] = Final(kind)
    BY <2>1, FinalizeFacts
  <2>3. ASSUME NEW kind \in Kinds, Open(kind)
        PROVE  /\ open[kind] \in 1 .. Len(wire')
               /\ wire'[open[kind]].kind = kind /\ wire'[open[kind]].msg = round
    <3>1. open[kind] \in 1 .. Len(wire) /\ wire[open[kind]].kind = kind
      BY <2>3 DEF OpenInv
    <3>2. PICK other \in Kinds : open[other] = open[kind]
                                 /\ wire'[open[kind]] = Final(other)
      BY <2>2, <3>1
    <3>3. Open(other) /\ other = kind
      BY <2>3, <3>1, <3>2 DEF OpenInv, Open
    <3> QED BY <2>1, <2>2, <3>1, <3>2, <3>3, FinalRecord
  <2> QED BY <2>1, <2>3 DEF OpenInv, Open
<1>5. CASE \E key \in Key : ToolCall(key)
  BY <1>3, <1>5 DEF ToolCall, Reset
<1>6. ASSUME NEW kind \in Kinds, Delta(kind)
      PROVE  OpenInv'
  <2>1. pc = "streaming" /\ UNCHANGED <<pc, round>>
    BY <1>6 DEF Delta
  <2>2. /\ Len(wire') >= Len(wire)
        /\ open'[kind] \in 1 .. Len(wire')
        /\ wire'[open'[kind]].kind = kind /\ wire'[open'[kind]].msg = round
        /\ wire'[open'[kind]].state = "open"
        /\ \A i \in 1 .. Len(wire') :
             i # open'[kind] => i <= Len(wire) /\ wire'[i] = wire[i]
        /\ \A other \in Kinds \ {kind} : open'[other] = open[other]
    BY <1>6, DeltaFacts
  <2>3. Ids(wire') /\ wire' \in Seq(PartRecord)
    BY PartsNext DEF PartsInv, Ids
  <2>4. ASSUME NEW other \in Kinds \ {kind}, open[other] # 0
        PROVE  /\ open[other] \in 1 .. Len(wire') /\ wire'[open[other]].kind = other
               /\ wire'[open[other]].msg = round /\ wire'[open[other]].state = "open"
    <3>1. /\ open[other] \in 1 .. Len(wire) /\ wire[open[other]].kind = other
          /\ wire[open[other]].msg = round /\ wire[open[other]].state = "open"
      BY <2>1, <2>4 DEF OpenInv, Open
    <3>2. open[other] # open'[kind]
      <4> SUFFICES ASSUME open[other] = open'[kind] PROVE FALSE
        OBVIOUS
      <4>1. CASE Open(kind)
        <5>1. open'[kind] = open[kind] /\ wire[open[kind]].kind = kind
          BY <1>6, <4>1, DeltaFacts DEF OpenInv
        <5> QED BY <3>1, <5>1
      <4>2. CASE ~Open(kind)
        <5>1. open'[kind] = Len(wire) + 1
          BY <1>6, <4>2 DEF Delta, Shape, Fresh
        <5> QED BY <1>2, <3>1, <5>1
      <4> QED BY <4>1, <4>2
    <3> QED BY <1>2, <2>2, <2>3, <3>1, <3>2
  <2> QED BY <2>1, <2>2, <2>4 DEF OpenInv, Open
<1>7. CASE SaveNote
  <2>1. /\ pc = "noting" /\ pc' = "finishing" /\ UNCHANGED <<open, round>>
    BY <1>7 DEF SaveNote, Goto, streamVars
  <2>2. Len(wire') = Len(wire) + 1 /\ \A i \in 1 .. Len(wire) : wire'[i] = wire[i]
    BY <1>7, NoteFacts
  <2> QED BY <1>2, <2>1, <2>2 DEF OpenInv, Open
<1>8. CASE CallOver \/ ToolStart
  BY <1>3, <1>8, CallOverFacts, ToolStartFacts DEF OpenInv
<1>9. CASE QuietSteps
  <2>1. CASE StreamRefused \/ StreamBusy \/ Retry \/ StreamOpens
    <3>1. open' = NoText
      BY <2>1 DEF StreamRefused, StreamBusy, Retry, StreamOpens, streamVars, OpenInv
    <3> QED BY <3>1, <1>3
  <2>2. CASE StartRound \/ EndTurn \/ ToolChecked \/ AskGate \/ DoomAllowed \/ GateAllowed
             \/ ToolPanics
    <3>1. open' = NoText
      BY <2>2 DEF StartRound, EndTurn, ToolChecked, AskGate, DoomAllowed, GateAllowed,
                  ToolPanics, In, Ask, Asked, streamVars, OpenInv
    <3> QED BY <3>1, <1>3
  <2> QED BY <1>9, <2>1, <2>2 DEF QuietSteps
<1>10. CASE FinishRound
  BY <1>3, <1>10 DEF FinishRound
<1>11. CASE Abort
  <2>1. UNCHANGED <<pc, round, open, wire>>
    BY <1>11 DEF Abort, streamVars, partVars
  <2> QED BY <2>1 DEF OpenInv, Open
<1> QED
  BY <1>0, <1>4, <1>5, <1>6, <1>7, <1>8, <1>9, <1>10, <1>11
     DEF Actions, QuietSteps, StreamOver, CallOver

\* The part of the call.
LEMMA ShownNext ==
  ASSUME Shape, PartsInv, OpenInv, ShownInv, Next
  PROVE  ShownInv'
<1>0. Actions
  BY NextActions
<1>1. CASE pc' # "tool"
  BY <1>1 DEF ShownInv
<1>2. CASE pc' = "tool"
  <2>1. CASE \E key \in Key : ToolCall(key)
    <3>1. PICK key \in Key : ToolCall(key)
      BY <2>1
    <3>2. FinalizeParts /\ pc = "streaming" /\ tool' = Call(Fresh, key, cancelled)
      BY <1>2, <3>1 DEF ToolCall, Leave, Goto
    <3>3. Len(wire') = Len(wire)
      BY <3>2, FinalizeFacts
    <3>4. tool'.stage = "checking" /\ tool'.id = Len(wire) + 1
      BY <3>2 DEF Call, Fresh
    <3> QED BY <3>3, <3>4 DEF ShownInv, Unshown
  <2>2. CASE ToolStart
    BY <2>2, ToolStartFacts DEF ShownInv, Unshown
  <2>3. ASSUME pc = "tool", UNCHANGED <<wire, round>>, tool'.id = tool.id,
               tool'.stage \in Unshown <=> tool.stage \in Unshown
        PROVE  ShownInv'
    BY <2>3 DEF ShownInv
  <2>4. CASE ToolChecked \/ AskGate \/ DoomAllowed \/ GateAllowed
    <3>1. pc = "tool" /\ UNCHANGED <<wire, round>>
      BY <2>4 DEF ToolChecked, AskGate, DoomAllowed, GateAllowed, In, Ask, Asked, partVars
    <3>2. tool \in [stage : ToolStages, id : Nat \ {0}, key : Key, late : BOOLEAN]
      BY <3>1 DEF Shape
    <3>3. tool'.id = tool.id /\ (tool'.stage \in Unshown <=> tool.stage \in Unshown)
      BY <2>4, <3>2 DEF ToolChecked, AskGate, DoomAllowed, GateAllowed, In, Ask, Asked,
                        Stage, Waiting, Gates, Unshown
    <3> QED BY <2>3, <3>1, <3>3
  <2>5. CASE Abort
    BY <1>2, <2>3, <2>5 DEF Abort, toolVars, partVars
  <2> QED
    BY <1>0, <1>2, <2>1, <2>2, <2>4, <2>5
       DEF Actions, StartRound, SaveNote, FinishRound, AfterRound, EndTurn, StreamRefused,
           StreamBusy, Retry, StreamOpens, StreamAborted, StreamFails, StreamEnds, Delta,
           ToolRefused, DoomDenied, DoomAskFails, GateDenied, ToolRan, ToolPanics,
           ToolOver, Leave, LeaveWithNote, End, Goto
<1> QED BY <1>1, <1>2

\* A turn has no result before it ends.
LEMMA ResultStep ==
  ASSUME Shape, Next, result' # "panicked"
  PROVE  result # "panicked" /\ ~ToolPanics
<1>0. Actions
  BY NextActions
<1>1. ~ToolPanics
  BY DEF ToolPanics, End
<1>2. CASE result = "none"
  BY <1>1, <1>2
<1>3. CASE pc \in {"ending", "done"}
  <2>1. result' = result
    BY <1>0, <1>3
       DEF Actions, StartRound, SaveNote, FinishRound, EndTurn, StreamRefused, StreamBusy,
           Retry, StreamOpens, StreamAborted, StreamFails, StreamEnds, Delta, ToolCall,
           ToolChecked, AskGate, DoomAllowed, GateAllowed, ToolStart,
           ToolRefused, DoomDenied, DoomAskFails, GateDenied, ToolRan, ToolPanics,
           Ask, Asked, NotAsked, In, Abort, endVars
  <2> QED BY <1>1, <2>1
<1> QED BY <1>1, <1>2, <1>3 DEF Shape

LEMMA SettledNext ==
  ASSUME Shape, PartsInv, OpenInv, ShownInv, SettledInv, Next
  PROVE  SettledInv'
<1> SUFFICES ASSUME result' # "panicked", NEW i \in 1 .. Len(wire')
             PROVE  \/ Terminal(wire'[i])
                    \/ pc' = "streaming" /\ \E kind \in Kinds : open'[kind] = i
                    \/ pc' = "tool" /\ tool'.id = i
  BY DEF SettledInv, Terminal
<1>0. Actions
  BY NextActions
<1>1. \A j \in 1 .. Len(wire) :
        \/ Terminal(wire[j])
        \/ pc = "streaming" /\ \E kind \in Kinds : open[kind] = j
        \/ pc = "tool" /\ tool.id = j
  BY ResultStep DEF SettledInv
<1>2. wire \in Seq(PartRecord) /\ wire' \in Seq(PartRecord)
  BY PartsNext DEF PartsInv, Ids
<1>3. CASE StreamOver \/ \E key \in Key : ToolCall(key)
  <2>1. pc = "streaming" /\ FinalizeParts
    BY <1>3 DEF StreamOver, StreamAborted, StreamFails, StreamEnds, ToolCall
  <2>2. i \in 1 .. Len(wire)
    BY <2>1, FinalizeFacts
  <2>3. CASE wire'[i] = wire[i] /\ \A kind \in Kinds : open[kind] # i
    BY <1>1, <2>1, <2>2, <2>3
  <2>4. ASSUME NEW kind \in Kinds, open[kind] = i, wire'[i] = Final(kind)
        PROVE  Terminal(wire'[i])
    <3>1. Open(kind)
      BY <1>2, <2>4 DEF Open
    <3> QED BY <2>1, <2>4, <3>1, FinalRecord DEF Terminal
  <2> QED BY <2>1, <2>2, <2>3, <2>4, FinalizeFacts
<1>4. ASSUME NEW kind \in Kinds, Delta(kind)
      PROVE  \/ Terminal(wire'[i])
             \/ pc' = "streaming" /\ \E other \in Kinds : open'[other] = i
  <2>1. pc = "streaming" /\ pc' = "streaming"
    BY <1>4 DEF Delta
  <2>2. /\ i # open'[kind] => i <= Len(wire) /\ wire'[i] = wire[i]
        /\ \A other \in Kinds \ {kind} : open'[other] = open[other]
        /\ Open(kind) => open'[kind] = open[kind]
    BY <1>4, DeltaFacts
  <2>3. CASE i # open'[kind]
    <3>1. i \in 1 .. Len(wire) /\ wire'[i] = wire[i] /\ i # 0
      BY <1>2, <2>2, <2>3
    <3>2. ASSUME NEW other \in Kinds, open[other] = i
          PROVE  open'[other] = i
      BY <2>2, <3>1, <3>2 DEF Open
    <3> QED BY <1>1, <2>1, <3>1, <3>2
  <2> QED BY <2>1, <2>3
<1>5. CASE SaveNote
  <2>1. pc = "noting"
    BY <1>5 DEF SaveNote
  <2> QED BY <1>1, <1>2, <1>5, <2>1, NoteFacts
<1>6. CASE CallOver
  BY <1>1, <1>2, <1>6, CallOverFacts
<1>7. CASE ToolStart
  BY <1>1, <1>2, <1>7, ToolStartFacts
<1>8. CASE QuietSteps \/ FinishRound
  <2>1. wire' = wire
    BY <1>8 DEF QuietSteps, StartRound, FinishRound, EndTurn, StreamRefused, StreamBusy,
                Retry, StreamOpens, ToolChecked, AskGate, DoomAllowed, GateAllowed,
                ToolPanics, partVars
  <2>2. pc # "streaming"
    BY <1>8 DEF QuietSteps, StartRound, FinishRound, EndTurn, StreamRefused, StreamBusy,
                Retry, StreamOpens, ToolChecked, AskGate, DoomAllowed, GateAllowed,
                ToolPanics, Ask, Asked, In
  <2>3. CASE pc = "tool"
    <3>1. ToolChecked \/ AskGate \/ DoomAllowed \/ GateAllowed
      BY <1>8, <2>3, ResultStep
         DEF QuietSteps, StartRound, FinishRound, EndTurn, StreamRefused, StreamBusy,
             Retry, StreamOpens
    <3>2. pc' = "tool"
      BY <2>3, <3>1 DEF ToolChecked, AskGate, DoomAllowed, GateAllowed
    <3>3. tool \in [stage : ToolStages, id : Nat \ {0}, key : Key, late : BOOLEAN]
      BY <2>3 DEF Shape
    <3>4. tool'.id = tool.id
      BY <3>1, <3>3 DEF ToolChecked, AskGate, Ask, DoomAllowed, GateAllowed, Stage
    <3> QED BY <1>1, <2>1, <2>2, <3>2, <3>4
  <2> QED BY <1>1, <2>1, <2>2, <2>3
<1>9. CASE Abort
  BY <1>1, <1>9 DEF Abort, streamVars, toolVars, partVars
<1> QED
  BY <1>0, <1>3, <1>4, <1>5, <1>6, <1>7, <1>8, <1>9
     DEF Actions, QuietSteps, StreamOver, CallOver

\* The finished rounds: their rows are never written again.
LEMMA HistoryNext ==
  ASSUME Shape, PartsInv, OpenInv, ShownInv, HistoryInv, Next
  PROVE  HistoryInv'
<1> SUFFICES ASSUME ~DbMayFail, result' # "panicked"
             PROVE  completed' = 1 .. Over' /\ hist' = [m \in 1 .. Over' |-> Replayed(m)']
  BY NextActions DEF HistoryInv, DbMayFail
<1>0. Actions
  BY NextActions
<1>1. completed = 1 .. Over /\ hist = [m \in 1 .. Over |-> Replayed(m)]
  BY ResultStep DEF HistoryInv
<1>2. round \in Nat /\ Over \in Nat
  BY DEF Shape, Over
<1>3. ASSUME UNCHANGED <<completed, hist>>, Over' = Over,
             \/ UNCHANGED store
             \/ pc \in {"streaming", "tool", "noting"} /\ Stepped(wire, store, wire', store')
      PROVE  completed' = 1 .. Over' /\ hist' = [m \in 1 .. Over' |-> Replayed(m)']
  <2>1. ASSUME NEW m \in 1 .. Over
        PROVE  RowsOf(store', m) = RowsOf(store, m)
    <3>1. CASE UNCHANGED store
      BY <3>1
    <3>2. CASE pc \in {"streaming", "tool", "noting"} /\ Stepped(wire, store, wire', store')
      <4>1. m \in Nat \ {round}
        BY <1>2, <3>2 DEF Over
      <4> QED BY <3>2, <4>1 DEF Stepped
    <3> QED BY <1>3, <3>1, <3>2
  <2>2. \A m \in 1 .. Over : Replayed(m)' = Replayed(m)
    BY <2>1 DEF Replayed, Listed
  <2> QED BY <1>1, <1>3, <2>2
<1>4. CASE FinishRound
  <2>1. /\ pc = "finishing" /\ completed' = completed \cup {round}
        /\ hist' = Append(hist, Replayed(round)) /\ store' = store /\ round' = round
        /\ pc' \in {"ending", "request"}
    BY <1>4 DEF FinishRound, AfterRound, End, Goto, partVars
  <2>2. Over = round - 1 /\ round > 0 /\ Over' = round
    BY <2>1 DEF Over, Shape
  <2>3. completed' = 1 .. Over'
    BY <1>1, <1>2, <2>1, <2>2
  <2>4. \A m : Replayed(m)' = Replayed(m)
    BY <2>1 DEF Replayed, Listed
  <2>5. hist' = [m \in 1 .. Over' |-> Replayed(m)]
    <3> DEFINE S == {Replayed(m) : m \in 1 .. round}
    <3>1. hist \in Seq(S) /\ Len(hist) = round - 1
      BY <1>1, <1>2, <2>2
    <3>2. Replayed(round) \in S
      BY <1>2, <2>2
    <3> HIDE DEF S
    <3>3. /\ DOMAIN hist' = 1 .. round
          /\ \A m \in 1 .. round - 1 : hist'[m] = hist[m]
          /\ hist'[round] = Replayed(round)
          /\ hist' \in Seq(S)
      BY <1>2, <2>1, <2>2, <3>1, <3>2
    <3>4. \A m \in 1 .. round : hist'[m] = Replayed(m)
      BY <1>1, <1>2, <2>2, <3>3
    <3> QED BY <2>2, <3>3, <3>4
  <2> QED BY <2>3, <2>4, <2>5
<1>5. CASE StartRound
  <2>1. /\ UNCHANGED <<completed, hist, store>> /\ pc = "request"
        /\ \/ round' = round + 1 /\ pc' = "opening"
           \/ round' = round /\ pc' = "ending"
    BY <1>5 DEF StartRound, Goto, End, partVars
  <2>2. Over' = Over
    BY <1>2, <2>1 DEF Over
  <2> QED BY <1>3, <2>1, <2>2
<1>6. CASE ~FinishRound /\ ~StartRound
  <2>1. UNCHANGED <<completed, hist, round>>
    BY <1>0, <1>6
       DEF Actions, SaveNote, EndTurn, StreamRefused, StreamBusy,
           Retry, StreamOpens, StreamAborted, StreamFails, StreamEnds, Delta, ToolCall,
           ToolChecked, AskGate, DoomAllowed, GateAllowed, ToolStart,
           ToolRefused, DoomDenied, DoomAskFails, GateDenied, ToolRan, ToolPanics,
           Abort, endVars
  <2>2. pc' \in {"request", "ending", "done"} <=> pc \in {"request", "ending", "done"}
    BY <1>0, <1>6, ResultStep
       DEF Actions, SaveNote, EndTurn, StreamRefused, StreamBusy,
           Retry, StreamOpens, StreamAborted, StreamFails, StreamEnds, Delta, ToolCall,
           ToolChecked, AskGate, DoomAllowed, GateAllowed, ToolStart,
           ToolRefused, DoomDenied, DoomAskFails, GateDenied, ToolRan, Ask, Asked,
           NotAsked, In, Abort, Goto, Leave, LeaveWithNote, ToolOver
  <2>3. Over' = Over
    BY <2>1, <2>2 DEF Over
  <2> QED BY <1>3, <2>1, <2>3, PartsStep
<1> QED BY <1>4, <1>5, <1>6

\* A call that goes through the doom gate is recorded with its key.
Records(key, cleared) ==
  /\ doom' \in Seq(Key) /\ reached' \in Seq([key : Key, cleared : BOOLEAN])
  /\ Len(reached') = Len(reached) + 1 /\ Len(doom') = Len(reached')
  /\ \A i \in 1 .. Len(doom') : doom'[i] = reached'[i].key
  /\ reached'[Len(reached) + 1].key = key
  /\ reached'[Len(reached) + 1].cleared = cleared
  /\ \A i \in 1 .. Len(reached) : reached'[i] = reached[i] /\ doom[i] = reached[i].key

LEMMA Recorded ==
  ASSUME DoomInv, NEW key \in Key, NEW cleared \in BOOLEAN,
         doom' = Append(doom, key),
         reached' = Append(reached, [key |-> key, cleared |-> cleared])
  PROVE  Records(key, cleared)
<1> DEFINE r == [key |-> key, cleared |-> cleared]
<1>1. r \in [key : Key, cleared : BOOLEAN] /\ r.key = key /\ r.cleared = cleared
  OBVIOUS
<1> HIDE DEF r
<1>2. /\ doom \in Seq(Key) /\ reached \in Seq([key : Key, cleared : BOOLEAN])
      /\ Len(doom) = Len(reached)
      /\ \A i \in 1 .. Len(doom) : doom[i] = reached[i].key
  BY DEF DoomInv
<1>3. reached' = Append(reached, r)
  BY DEF r
<1>4. /\ reached' \in Seq([key : Key, cleared : BOOLEAN])
      /\ Len(reached') = Len(reached) + 1 /\ reached'[Len(reached) + 1] = r
      /\ \A i \in 1 .. Len(reached) : reached'[i] = reached[i]
  BY <1>1, <1>2, <1>3
<1>5. /\ doom' \in Seq(Key) /\ Len(doom') = Len(doom) + 1 /\ doom'[Len(doom) + 1] = key
      /\ \A i \in 1 .. Len(doom) : doom'[i] = doom[i]
  BY <1>2
<1>6. \A i \in 1 .. Len(doom') : doom'[i] = reached'[i].key
  BY <1>1, <1>2, <1>4, <1>5
<1> QED BY <1>1, <1>2, <1>4, <1>5, <1>6 DEF Records

LEMMA DoomNext ==
  ASSUME Shape, PartsInv, ShownInv, DoomInv, Next
  PROVE  DoomInv'
<1>0. Actions
  BY NextActions
<1>1. ASSUME UNCHANGED <<doom, reached>>,
             \/ pc' # "tool"
             \/ tool'.stage \notin PastDoom
             \/ pc = "tool" /\ tool.stage \in PastDoom /\ tool'.key = tool.key
      PROVE  DoomInv'
  BY <1>1 DEF DoomInv
<1>2. pc = "tool" =>
        tool \in [stage : ToolStages, id : Nat \ {0}, key : Key, late : BOOLEAN]
  BY DEF Shape
<1>3. CASE \E key \in Key : ToolCall(key)
  <2>1. /\ UNCHANGED <<doom, reached>>
        /\ pc' # "tool" \/ tool'.stage = "checking"
    BY <1>3 DEF ToolCall, Leave, Goto, Call
  <2> QED BY <1>1, <2>1 DEF PastDoom
<1>4. CASE ToolChecked
  <2>1. pc = "tool" /\ tool.key \in Key
    BY <1>2, <1>4 DEF ToolChecked, In
  <2>2. CASE DoomLoopDue(doom, tool.key)
    <3>1. UNCHANGED <<doom, reached>> /\ tool'.stage = "doom"
      BY <1>2, <1>4, <2>1, <2>2 DEF ToolChecked, Stage
    <3> QED BY <1>1, <3>1 DEF PastDoom
  <2>3. CASE ~DoomLoopDue(doom, tool.key)
    <3>1. /\ doom' = Append(doom, tool.key)
          /\ reached' = Append(reached, [key |-> tool.key, cleared |-> FALSE])
          /\ tool' = [tool EXCEPT !.stage = "start"]
      BY <1>4, <2>3 DEF ToolChecked, Reached, Stage
    <3>2. tool'.key = tool.key
      BY <1>2, <2>1, <3>1
    <3>3. /\ doom' \in Seq(Key) /\ reached' \in Seq([key : Key, cleared : BOOLEAN])
          /\ Len(reached') = Len(reached) + 1 /\ Len(doom') = Len(reached')
          /\ \A i \in 1 .. Len(doom') : doom'[i] = reached'[i].key
          /\ reached'[Len(reached) + 1].key = tool.key
          /\ \A i \in 1 .. Len(reached) :
               reached'[i] = reached[i] /\ doom[i] = reached[i].key
      <4>1. Records(tool.key, FALSE)
        BY <2>1, <3>1, Recorded
      <4> QED BY <4>1 DEF Records
    <3>4. Len(reached) \in Nat /\ Len(doom) = Len(reached)
      BY DEF DoomInv
    <3>5. ~(/\ Len(reached') >= 3
            /\ reached'[Len(reached') - 1].key = tool.key
            /\ reached'[Len(reached') - 2].key = tool.key)
      <4> SUFFICES ASSUME Len(reached) >= 2, reached'[Len(reached)].key = tool.key,
                          reached'[Len(reached) - 1].key = tool.key
                   PROVE  FALSE
        BY <3>3, <3>4
      <4>1. doom[Len(reached)] = tool.key /\ doom[Len(reached) - 1] = tool.key
        BY <3>3, <3>4
      <4> QED BY <2>3, <3>4, <4>1 DEF DoomLoopDue
    <3> QED BY <3>2, <3>3, <3>4, <3>5 DEF DoomInv
  <2> QED BY <2>2, <2>3
<1>5. CASE DoomAllowed
  <2>1. pc = "tool" /\ tool.key \in Key
    BY <1>2, <1>5 DEF DoomAllowed, Asked, In
  <2>2. /\ doom' = Append(doom, tool.key)
        /\ reached' = Append(reached, [key |-> tool.key, cleared |-> TRUE])
        /\ tool' = [tool EXCEPT !.stage = "start"]
    BY <1>5 DEF DoomAllowed, Reached, Stage
  <2>3. tool'.key = tool.key
    BY <1>2, <2>1, <2>2
  <2>4. /\ doom' \in Seq(Key) /\ reached' \in Seq([key : Key, cleared : BOOLEAN])
        /\ Len(reached') = Len(reached) + 1 /\ Len(doom') = Len(reached')
        /\ \A i \in 1 .. Len(doom') : doom'[i] = reached'[i].key
        /\ reached'[Len(reached) + 1].key = tool.key
        /\ reached'[Len(reached) + 1].cleared
    <3>1. Records(tool.key, TRUE)
      BY <2>1, <2>2, Recorded
    <3> QED BY <3>1 DEF Records
  <2>5. Len(reached) \in Nat
    BY DEF DoomInv
  <2> QED BY <2>3, <2>4, <2>5 DEF DoomInv
<1>6. CASE DoomDenied
  <2>1. pc = "tool" /\ tool.key \in Key /\ pc' = "streaming"
    BY <1>2, <1>6 DEF DoomDenied, Asked, In, ToolOver, Goto
  <2>2. /\ doom' = Append(doom, tool.key)
        /\ reached' = Append(reached, [key |-> tool.key, cleared |-> FALSE])
    BY <1>6 DEF DoomDenied, Reached
  <2>3. /\ doom' \in Seq(Key) /\ reached' \in Seq([key : Key, cleared : BOOLEAN])
        /\ Len(doom') = Len(reached')
        /\ \A i \in 1 .. Len(doom') : doom'[i] = reached'[i].key
    <3>1. Records(tool.key, FALSE)
      BY <2>1, <2>2, Recorded
    <3> QED BY <3>1 DEF Records
  <2> QED BY <2>1, <2>3 DEF DoomInv
<1>7. CASE AskGate
  <2>1. UNCHANGED <<doom, reached>> /\ pc = "tool"
    BY <1>7 DEF AskGate, Ask, In
  <2>2. PICK gate \in Gates : tool.stage = gate /\ tool' = [tool EXCEPT !.stage = Waiting(gate)]
    BY <1>7 DEF AskGate, Ask, In, Stage
  <2>3. tool'.key = tool.key /\ tool'.stage = Waiting(gate)
    BY <1>2, <2>1, <2>2
  <2>4. tool'.stage = "doom?" \/ tool.stage \in PastDoom
    BY <2>2, <2>3 DEF Gates, Waiting, PastDoom
  <2>5. "doom?" \notin PastDoom
    BY DEF PastDoom
  <2> QED BY <1>1, <2>1, <2>3, <2>4, <2>5
<1>8. CASE ToolStart
  <2>1. UNCHANGED <<doom, reached>>
    BY <1>8 DEF ToolStart
  <2> QED BY <1>1, <1>8, <2>1, ToolStartFacts DEF PastDoom
<1>9. CASE GateAllowed
  <2>1. UNCHANGED <<doom, reached>> /\ pc = "tool" /\ tool.stage \in {"external?", "core?"}
    BY <1>9 DEF GateAllowed, Asked, In, Waiting
  <2>2. tool'.key = tool.key
    BY <1>2, <1>9, <2>1 DEF GateAllowed, Stage
  <2> QED BY <1>1, <2>1, <2>2 DEF PastDoom
<1>10. CASE Abort
  BY <1>10 DEF Abort, toolVars, DoomInv
<1>11. CASE \/ StartRound \/ SaveNote \/ FinishRound \/ EndTurn \/ StreamRefused
            \/ StreamBusy \/ Retry \/ StreamOpens \/ StreamOver
            \/ (\E kind \in Kinds : Delta(kind))
            \/ ToolRefused \/ DoomAskFails \/ GateDenied \/ ToolRan \/ ToolPanics
  <2>1. UNCHANGED <<doom, reached>>
    BY <1>11 DEF StartRound, SaveNote, FinishRound, EndTurn, StreamRefused, StreamBusy,
                 Retry, StreamOpens, StreamOver, StreamAborted, StreamFails, StreamEnds,
                 Delta, ToolRefused, DoomAskFails, GateDenied, ToolRan, ToolPanics, toolVars
  <2>2. pc' # "tool"
    BY <1>11 DEF StartRound, SaveNote, FinishRound, AfterRound, EndTurn, StreamRefused,
                 StreamBusy, Retry, StreamOpens, StreamOver, StreamAborted, StreamFails,
                 StreamEnds, Delta, ToolRefused, DoomAskFails, GateDenied, ToolRan,
                 ToolPanics, ToolOver, Leave, LeaveWithNote, End, Goto
  <2> QED BY <1>1, <2>1, <2>2
<1> QED
  BY <1>0, <1>3, <1>4, <1>5, <1>6, <1>7, <1>8, <1>9, <1>10, <1>11 DEF Actions, StreamOver

\* The gates' statements fail on a cancelled context: a late call goes no further.
LEMMA LateNext ==
  ASSUME Shape, PartsInv, ShownInv, LateInv, Next
  PROVE  LateInv'
<1>0. Actions
  BY NextActions
<1>1. pc = "tool" =>
        /\ tool \in [stage : ToolStages, id : Nat \ {0}, key : Key, late : BOOLEAN]
        /\ tool.late => cancelled
        /\ tool.stage # "checking" => ~tool.late
  BY DEF Shape, LateInv
<1>2. CASE \E key \in Key : ToolCall(key)
  <2>1. /\ cancelled' = cancelled
        /\ pc' = "tool" => tool'.stage = "checking" /\ tool'.late = cancelled
    BY <1>2 DEF ToolCall, Leave, Goto, Call
  <2> QED BY <2>1 DEF LateInv
<1>3. CASE ToolChecked
  BY <1>1, <1>3 DEF ToolChecked, In, Stage, ContextDone, LateInv
<1>4. CASE AskGate \/ DoomAllowed \/ GateAllowed
  <2>1. /\ pc = "tool" /\ tool.stage # "checking" /\ cancelled' = cancelled
        /\ \E stage : tool' = [tool EXCEPT !.stage = stage]
    <3>1. pc = "tool" /\ tool.stage # "checking" /\ cancelled' = cancelled
      BY <1>4 DEF AskGate, DoomAllowed, GateAllowed, Ask, Asked, In, Gates, Waiting
    <3>2. CASE AskGate
      <4>1. PICK gate \in Gates : Stage(Waiting(gate))
        BY <3>2 DEF AskGate, Ask
      <4> QED BY <3>1, <4>1 DEF Stage
    <3>3. CASE DoomAllowed
      BY <3>1, <3>3 DEF DoomAllowed, Stage
    <3>4. CASE GateAllowed
      BY <3>1, <3>4 DEF GateAllowed, Stage
    <3> QED BY <1>4, <3>1, <3>2, <3>3, <3>4
  <2>2. tool'.late = tool.late
    BY <1>1, <2>1
  <2> QED BY <1>1, <2>1, <2>2 DEF LateInv
<1>5. CASE ToolStart
  BY <1>1, <1>5, ToolStartFacts DEF LateInv
<1>6. CASE Abort
  BY <1>1, <1>6 DEF Abort, toolVars, LateInv
<1>7. CASE \/ StartRound \/ SaveNote \/ FinishRound \/ EndTurn \/ StreamRefused
           \/ StreamBusy \/ Retry \/ StreamOpens \/ StreamOver \/ CallOver
           \/ (\E kind \in Kinds : Delta(kind)) \/ ToolPanics
  <2>1. pc' # "tool"
    BY <1>7, CallOverFacts
       DEF StartRound, SaveNote, FinishRound, AfterRound, EndTurn, StreamRefused,
           StreamBusy, Retry, StreamOpens, StreamOver, StreamAborted, StreamFails,
           StreamEnds, Delta, ToolPanics, Leave, LeaveWithNote, End, Goto
  <2> QED BY <2>1 DEF LateInv
<1> QED
  BY <1>0, <1>2, <1>3, <1>4, <1>5, <1>6, <1>7 DEF Actions, StreamOver, CallOver

-----------------------------------------------------------------------------
(* The invariant and what follows from it.                                 *)

LEMMA RoundInit == Init => RoundInv
<1> SUFFICES ASSUME Init PROVE RoundInv
  OBVIOUS
<1> USE DEF Init
<1>1. NoText \in [Kinds -> Nat] /\ \A kind \in Kinds : NoText[kind] = 0
  BY DEF NoText
<1>2. Shape
  BY <1>1 DEF Shape
<1>3. PartsInv
  BY DEF PartsInv, Ids, Held, Same, Stored
<1>4. OpenInv /\ ShownInv /\ SettledInv
  BY <1>1 DEF OpenInv, ShownInv, SettledInv, Open
<1>5. HistoryInv
  BY DEF HistoryInv, Over
<1>6. DoomInv /\ LateInv
  BY DEF DoomInv, LateInv
<1> QED BY <1>2, <1>3, <1>4, <1>5, <1>6 DEF RoundInv

LEMMA RoundNext == RoundInv /\ [Next]_vars => RoundInv'
<1> SUFFICES ASSUME RoundInv, [Next]_vars PROVE RoundInv'
  OBVIOUS
<1>1. CASE Next
  BY <1>1, ShapeNext, PartsNext, OpenNext, ShownNext, SettledNext, HistoryNext, DoomNext,
     LateNext DEF RoundInv
<1>2. CASE UNCHANGED vars
  <2>0. /\ UNCHANGED <<setting, pc, round, open, text, tool, result, cancelled>>
        /\ UNCHANGED <<wire, store, completed, hist, doom, reached>>
    BY <1>2 DEF vars, streamVars, toolVars, partVars, endVars
  <2>1. Shape'
    BY <2>0 DEF RoundInv, Shape
  <2>2. PartsInv'
    BY <2>0 DEF RoundInv, PartsInv, DbMayFail
  <2>3. OpenInv' /\ ShownInv'
    BY <2>0 DEF RoundInv, OpenInv, ShownInv, Open
  <2>4. SettledInv'
    BY <2>0 DEF RoundInv, SettledInv
  <2>5. HistoryInv'
    BY <2>0 DEF RoundInv, HistoryInv, Over, DbMayFail, Replayed, Listed
  <2>6. DoomInv' /\ LateInv'
    BY <2>0 DEF RoundInv, DoomInv, LateInv
  <2> QED BY <2>1, <2>2, <2>3, <2>4, <2>5, <2>6 DEF RoundInv
<1> QED BY <1>1, <1>2

\* The invariant holds of every behaviour of a turn.
THEOREM RoundSafety == Spec => []RoundInv
  BY RoundInit, RoundNext, PTL DEF Spec

LEMMA SettleFollows == RoundInv => RoundsSettle
<1> SUFFICES ASSUME RoundInv, pc \in {"request", "done"}, result # "panicked", ~DbMayFail
             PROVE  /\ completed = 1 .. round
                    /\ \A i \in DOMAIN wire :
                         /\ Terminal(wire[i])
                         /\ (wire[i].kind # "note" \/ ~cancelled) =>
                              \E j \in DOMAIN store : store[j] = wire[i]
                    /\ \A j \in DOMAIN store : \E i \in DOMAIN wire : wire[i] = store[j]
  BY DEF RoundsSettle
<1>1. completed = 1 .. round
  BY DEF RoundInv, HistoryInv, Over
<1>2. /\ wire \in Seq(PartRecord) /\ store \in Seq(PartRecord)
      /\ Held(wire, store) /\ Same(wire, store) /\ Stored(wire, store, cancelled)
  BY DEF RoundInv, PartsInv, Ids, Held
<1>3. DOMAIN wire = 1 .. Len(wire) /\ DOMAIN store = 1 .. Len(store)
  BY <1>2
<1>4. ASSUME NEW i \in 1 .. Len(wire)
      PROVE  /\ Terminal(wire[i])
             /\ (wire[i].kind # "note" \/ ~cancelled) =>
                  \E j \in 1 .. Len(store) : store[j] = wire[i]
  <2>1. Terminal(wire[i])
    BY DEF RoundInv, SettledInv
  <2>2. wire[i].state # "open"
    BY <2>1 DEF Terminal
  <2> QED BY <1>2, <2>1, <2>2 DEF Stored
<1>5. ASSUME NEW j \in 1 .. Len(store)
      PROVE  \E i \in 1 .. Len(wire) : wire[i] = store[j]
  BY <1>2 DEF Held, Same
<1> QED BY <1>1, <1>3, <1>4, <1>5

\* Between rounds and after the turn, whatever was aborted, refused, denied or
\* cut short, every part is finished, shown and stored, and every message is
\* complete (runRound's exits, finishRound, gateFail).
THEOREM RoundsSettleSafety == Spec => []RoundsSettle
  BY RoundSafety, SettleFollows, PTL

LEMMA HistoryFollows == RoundInv => HistoryIsStored
  BY DEF RoundInv, HistoryInv, HistoryIsStored, Over

\* The turn's own history is the one a reload gives (roundAsMessage and the
\* replay of the stored parts).
THEOREM HistoryIsStoredSafety == Spec => []HistoryIsStored
  BY RoundSafety, HistoryFollows, PTL

LEMMA NoLoopFollows == RoundInv => NoSilentLoop
<1> SUFFICES ASSUME RoundInv, In("run"), Len(reached) >= 3,
                    \A k \in {Len(reached) - 2, Len(reached) - 1, Len(reached)} :
                      reached[k].key = tool.key
             PROVE  reached[Len(reached)].cleared
  BY DEF NoSilentLoop
<1>1. pc = "tool" /\ tool.stage \in PastDoom
  BY DEF In, PastDoom
<1>2. /\ reached[Len(reached) - 1].key = tool.key
      /\ reached[Len(reached) - 2].key = tool.key
  OBVIOUS
<1> QED BY <1>1, <1>2 DEF RoundInv, DoomInv

\* No call runs that repeats the two before it, unless the doom ask let it
\* (checkDoom, DoomLoopDue).
THEOREM NoSilentLoopSafety == Spec => []NoSilentLoop
  BY RoundSafety, NoLoopFollows, PTL

LEMMA AbortFollows == RoundInv => AbortStopsTools
  BY DEF RoundInv, LateInv, AbortStopsTools, In

\* A call the turn comes to after its abort does not run (rulesetForRow on the
\* cancelled context).
THEOREM AbortStopsToolsSafety == Spec => []AbortStopsTools
  BY RoundSafety, AbortFollows, PTL

FinalKept ==
  /\ \A i \in DOMAIN wire : Terminal(wire[i]) => wire'[i] = wire[i]
  /\ \A j \in DOMAIN store : Terminal(store[j]) => store'[j] = store[j]

LEMMA FinalStep == RoundInv /\ [Next]_vars => [FinalKept]_vars
<1> SUFFICES ASSUME RoundInv, Next PROVE FinalKept
  OBVIOUS
<1>1. DOMAIN wire = 1 .. Len(wire) /\ DOMAIN store = 1 .. Len(store)
  BY DEF RoundInv, PartsInv, Ids, Held
<1>2. UNCHANGED <<wire, store>> \/ (Keeps(wire, wire') /\ Keeps(store, store'))
  BY PartsStep DEF RoundInv, Stepped
<1> QED BY <1>1, <1>2 DEF FinalKept, Keeps

\* A finished part is never touched again, on the wire or in the store
\* (partState.reset after a call, saveToolPart by the call's own id).
THEOREM FinalIsFinalSafety == Spec => FinalIsFinal
<1>1. Spec => [][FinalKept]_vars
  BY RoundSafety, FinalStep, PTL DEF Spec
<1> QED BY <1>1 DEF FinalIsFinal, FinalKept
=============================================================================
