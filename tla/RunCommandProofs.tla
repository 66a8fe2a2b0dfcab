--------------------------- MODULE RunCommandProofs ---------------------------
(***************************************************************************)
(* When yolo run may leave its event loop, and what it then exits with,    *)
(* for any buffer sizes, any number of lost connections, events and asks,  *)
(* and any other client.                                                   *)
(***************************************************************************)
EXTENDS RunCommand, TLAPS

(***************************************************************************)
(* Queues.  Every queue between the engine and the loop only ever gains an *)
(* element at its end and loses its first.                                 *)
(***************************************************************************)
Without(q, e) == \A i \in 1 .. Len(q) : q[i] # e

LEMMA AppendWithout ==
  ASSUME NEW S, NEW q \in Seq(S), NEW x \in S, NEW e, Without(q, e), x # e
  PROVE  Without(Append(q, x), e)
BY DEF Without

LEMMA TailWithout ==
  ASSUME NEW S, NEW q \in Seq(S), q # <<>>, NEW e, Without(q, e)
  PROVE  /\ Without(Tail(q), e)
         /\ Head(q) # e
BY DEF Without

LEMMA QueueMoves ==
  ASSUME NEW S, NEW q \in Seq(S), q # <<>>
  PROVE  /\ Head(q) \in S
         /\ Tail(q) \in Seq(S)
         /\ Len(Tail(q)) = Len(q) - 1
         /\ Len(q) \in Nat \ {0}
OBVIOUS

LEMMA QueueGrows ==
  ASSUME NEW S, NEW q \in Seq(S), NEW x \in S
  PROVE  /\ Append(q, x) \in Seq(S)
         /\ Len(Append(q, x)) = Len(q) + 1
         /\ Len(q) \in Nat
OBVIOUS

LEMMA EmptyQueue ==
  ASSUME NEW S, NEW e
  PROVE  <<>> \in Seq(S) /\ Len(<<>>) = 0 /\ Without(<<>>, e)
BY DEF Without

\* What a publish does to the subscription.
LEMMA Published ==
  ASSUME TypeOK, NEW e \in Event, Publish(e)
  PROVE  /\ sub' \in [on : BOOLEAN, buffer : Seq(Event)]
         /\ Len(sub'.buffer) <= Backlog
         /\ ~sub.on => sub' = sub
         /\ \A f : f # e /\ Without(sub.buffer, f) => Without(sub'.buffer, f)
<1> USE StreamAssumption
<1>0. /\ sub \in [on : BOOLEAN, buffer : Seq(Event)]
      /\ Len(sub.buffer) <= Backlog
      /\ Len(sub.buffer) \in Nat
  BY DEF TypeOK, StreamTypeOK
<1>1. CASE ~sub.on
  BY <1>0, <1>1 DEF Publish
<1>2. CASE sub.on /\ Len(sub.buffer) < Backlog
  <2>1. sub' = [sub EXCEPT !.buffer = Append(@, e)]
    BY <1>2 DEF Publish
  <2>2. sub'.buffer = Append(sub.buffer, e) /\ sub'.on = sub.on
    BY <1>0, <2>1
  <2>3. /\ Append(sub.buffer, e) \in Seq(Event)
        /\ Len(Append(sub.buffer, e)) = Len(sub.buffer) + 1
    BY <1>0, QueueGrows
  <2>4. \A f : f # e /\ Without(sub.buffer, f) => Without(Append(sub.buffer, e), f)
    BY <1>0, AppendWithout
  <2>5. sub' \in [on : BOOLEAN, buffer : Seq(Event)]
    BY <1>0, <2>1, <2>3
  <2>6. Len(sub'.buffer) <= Backlog
    BY <1>0, <1>2, <2>2, <2>3
  <2> QED BY <1>2, <2>2, <2>4, <2>5, <2>6
<1>3. CASE sub.on /\ ~(Len(sub.buffer) < Backlog)
  BY <1>0, <1>3 DEF Publish
<1> QED BY <1>1, <1>2, <1>3

-----------------------------------------------------------------------------
StreamOK == StreamTypeOK(Event)

LEMMA StreamTyped ==
  ASSUME TypeOK, StreamStep \/ Break \/ Connect PROVE StreamOK'
<1> USE DEF TypeOK, StreamTypeOK, StreamOK, Links
<1> USE StreamAssumption
<1>1. CASE Accept \/ Redial \/ HangUp \/ Connect
  BY <1>1, SMTT(30) DEF Accept, Redial, HangUp, Connect
<1>2. CASE Subscribe
  BY <1>2, EmptyQueue DEF Subscribe
<1>3. CASE WriteFrame
  <2>1. /\ sub'.buffer = Tail(sub.buffer) /\ sub'.on = sub.on
        /\ sub' = [on |-> sub.on, buffer |-> Tail(sub.buffer)]
        /\ wire' = Append(wire, Head(sub.buffer))
        /\ UNCHANGED <<link, ch, pings, drops, breaks>>
        /\ sub.buffer # <<>> /\ Len(wire) < Wire
    BY <1>3 DEF WriteFrame
  <2>2. /\ Head(sub.buffer) \in Event
        /\ Tail(sub.buffer) \in Seq(Event)
        /\ Len(Tail(sub.buffer)) = Len(sub.buffer) - 1
        /\ Len(sub.buffer) \in Nat
    BY <2>1, QueueMoves
  <2>3. wire' \in Seq(Event) /\ Len(wire') = Len(wire) + 1 /\ Len(wire) \in Nat
    BY <2>1, <2>2, QueueGrows
  <2> QED BY <2>1, <2>2, <2>3
<1>4. CASE ReadFrame
  <2>1. /\ ch' = Append(ch, Head(wire)) /\ wire' = Tail(wire)
        /\ UNCHANGED <<link, sub, pings, drops, breaks>>
        /\ wire # <<>> /\ Len(ch) < Channel
    BY <1>4 DEF ReadFrame
  <2>2. /\ Head(wire) \in Event
        /\ wire' \in Seq(Event)
        /\ Len(wire') = Len(wire) - 1
        /\ Len(wire) \in Nat
    BY <2>1, QueueMoves
  <2>3. ch' \in Seq(Event) /\ Len(ch') = Len(ch) + 1 /\ Len(ch) \in Nat
    BY <2>1, <2>2, QueueGrows
  <2> QED BY <2>1, <2>2, <2>3
<1>5. CASE Drop /\ breaks' \in 0 .. MaxBreaks
  BY <1>5, EmptyQueue DEF Drop, NoSub, Pinged
<1>6. CASE ReadEnd
  BY <1>5, <1>6 DEF ReadEnd
<1>7. CASE Break
  BY <1>5, <1>7 DEF Break
<1> QED BY <1>1, <1>2, <1>3, <1>4, <1>6, <1>7 DEF StreamStep

RunOK ==
  /\ pc \in {"start", "sent", "looping", "replying", "checking", "settling", "done"}
  /\ left \in {"none", "idle", "timeout"}
  /\ code \in {0, 1, 130}
  /\ {timed, settled, turnErr, missed, mute} \subseteq BOOLEAN
TurnOK ==
  /\ turn \in [owner : {"none", "run", "other"},
               at : {"free", "busy", "asking", "ending", "idle"}, begun : BOOLEAN,
               content : 0 .. MaxContent, asks : 0 .. MaxAsks]
  /\ wrong \subseteq {"run", "other"}
  /\ fate \in Fates

\* A turn that is on has an owner.
OwnedInv == turn.owner = "none" <=> turn.at = "free"

LEMMA TypeParts == TypeOK <=> StreamOK /\ RunOK /\ TurnOK
BY DEF TypeOK, StreamOK, RunOK, TurnOK

LEMMA TypePartsNext == TypeOK' <=> StreamOK' /\ RunOK' /\ TurnOK'
BY TypeParts, PTL

LEMMA NewTurns ==
  ASSUME NEW o \in {"run", "other"}
  PROVE  /\ NewTurn(o) \in [owner : {"none", "run", "other"},
                            at : {"free", "busy", "asking", "ending", "idle"},
                            begun : BOOLEAN,
                            content : 0 .. MaxContent, asks : 0 .. MaxAsks]
         /\ NewTurn(o).owner = o
         /\ NewTurn(o).at = "busy"
<1>1. NoTurn \in [owner : {"none", "run", "other"},
                  at : {"free", "busy", "asking", "ending", "idle"}, begun : BOOLEAN,
                  content : 0 .. MaxContent, asks : 0 .. MaxAsks]
  BY RunAssumption DEF NoTurn
<1> HIDE DEF NoTurn
<1> QED BY <1>1 DEF NewTurn

LEMMA TypeInit == Init => TypeOK
<1> SUFFICES ASSUME Init PROVE StreamOK /\ RunOK /\ TurnOK BY TypeParts
<1>1. StreamOK
  BY StreamAssumption, EmptyQueue
  DEF Init, StreamInit, StreamOK, StreamTypeOK, NoSub, Links
<1>2. RunOK
  BY DEF Init, RunOK
<1>3. TurnOK
  BY RunAssumption DEF Init, TurnOK, NoTurn, Fates
<1> QED BY <1>1, <1>2, <1>3

\* How a turn ends.
TurnCloses == TurnEnds \/ TurnAborted
LEMMA Closing ==
  ASSUME TurnCloses
  PROVE  /\ turn.at \in {"busy", "asking"}
         /\ turn' = [turn EXCEPT !.at = "ending"]
         /\ \/ wrong' = wrong /\ fate' \in Fates \cup {fate} /\ (fate' = "stored" => fate = "stored")
            \/ /\ wrong' = wrong \cup {turn.owner}
               /\ fate' = IF turn.owner = "run" THEN "stored" ELSE fate
         /\ UNCHANGED sub \/ Publish("error")
         /\ UNCHANGED <<link, wire, ch, pings, drops, breaks, runVars, mute, missed>>
<1> USE DEF Closes, ClosesQuietly, TurnGoto, Fates
<1>1. CASE \E f \in {"clean", "limit", "early"} : ClosesQuietly(f)
  <2>1. /\ turn' = [turn EXCEPT !.at = "ending"]
        /\ wrong' = wrong /\ fate' \in Fates \cup {fate} /\ (fate' = "stored" => fate = "stored")
        /\ UNCHANGED sub
    BY <1>1
  <2> QED BY <2>1 DEF TurnCloses, TurnEnds, TurnAborted
<1>2. CASE Surfaces
  <2>1. /\ turn' = [turn EXCEPT !.at = "ending"]
        /\ \/ wrong' = wrong /\ fate' \in Fates \cup {fate} /\ (fate' = "stored" => fate = "stored")
           \/ /\ wrong' = wrong \cup {turn.owner}
              /\ fate' = IF turn.owner = "run" THEN "stored" ELSE fate
        /\ UNCHANGED sub \/ Publish("error")
    BY <1>2 DEF Surfaces
  <2> QED BY <2>1 DEF TurnCloses, TurnEnds, TurnAborted
<1> QED BY <1>1, <1>2 DEF TurnCloses, TurnEnds, TurnAborted, Fails

TurnMoves == TurnStep \/ TurnAborted \/ OtherSends \/ GoMute
LEMMA TypeTurn ==
  ASSUME TypeOK, OwnedInv, TurnMoves, UNCHANGED timed
  PROVE  TypeOK'
<1> USE DEF streamVars, runVars
<1>0. StreamOK /\ RunOK /\ TurnOK
  BY TypeParts
<1>1. TurnOK'
  <2> USE <1>0 DEF TurnOK
  <2>1. CASE TurnContent
    <3>1. /\ turn' = [turn EXCEPT !.content = turn.content + 1, !.begun = TRUE]
          /\ turn.content + 1 \in 0 .. MaxContent
          /\ wrong' = wrong /\ fate' = fate
      BY <2>1, RunAssumption DEF TurnContent
    <3> QED BY <3>1
  <2>2. CASE TurnAsk
    <3>1. /\ turn' = [turn EXCEPT !.asks = turn.asks + 1, !.at = "asking"]
          /\ turn.asks + 1 \in 0 .. MaxAsks
          /\ wrong' = wrong /\ fate' = fate
      BY <2>2, RunAssumption DEF TurnAsk
    <3> QED BY <3>1
  <2>3. CASE TurnCloses
    <3>1. turn.owner \in {"run", "other"}
      BY <2>3, Closing DEF OwnedInv
    <3>2. turn' = [turn EXCEPT !.at = "ending"]
      BY <2>3, Closing
    <3>3. wrong' \subseteq wrong \cup {turn.owner} /\ fate' \in Fates
      BY <2>3, Closing DEF Fates
    <3> QED BY <3>1, <3>2, <3>3
  <2>4. CASE TurnIdle
    BY <2>4 DEF TurnIdle, TurnGoto
  <2>5. CASE TurnRelease
    BY <2>5, RunAssumption DEF TurnRelease, NoTurn
  <2>6. CASE OtherAnswers
    BY <2>6 DEF OtherAnswers, TurnGoto
  <2>7. CASE OtherSends
    BY <2>7, NewTurns DEF OtherSends
  <2>8. CASE GoMute
    BY <2>8 DEF GoMute
  <2> QED BY <2>1, <2>2, <2>3, <2>4, <2>5, <2>6, <2>7, <2>8 DEF TurnMoves, TurnStep, TurnCloses
<1>10. CASE TurnCloses
  <2>1. RunOK' BY <1>0, <1>10, Closing DEF RunOK
  <2>2. UNCHANGED <<link, wire, ch, pings, drops, breaks>> BY <1>10, Closing
  <2>3. UNCHANGED sub \/ \E e \in Event : Publish(e) BY <1>10, Closing DEF Event
  <2>4. StreamOK'
    BY <1>0, <2>2, <2>3, Published DEF StreamOK, StreamTypeOK
  <2> QED BY <1>1, <2>1, <2>4, TypePartsNext
<1>11. CASE TurnContent \/ TurnAsk \/ TurnIdle \/ TurnRelease \/ OtherAnswers \/ OtherSends \/ GoMute
  <2> USE <1>11
  <2>1. UNCHANGED runVars
    BY DEF TurnContent, TurnAsk, TurnIdle, TurnRelease, OtherAnswers, OtherSends, GoMute
  <2>2. missed' \in BOOLEAN /\ mute' \in BOOLEAN
    BY <1>0 DEF TurnContent, TurnAsk, TurnIdle, TurnRelease, OtherAnswers, OtherSends, GoMute,
       RunOK
  <2>3. RunOK' BY <1>0, <2>1, <2>2 DEF RunOK
  <2>4. UNCHANGED <<link, wire, ch, pings, drops, breaks>>
    BY DEF TurnContent, TurnAsk, TurnIdle, TurnRelease, OtherAnswers, OtherSends, GoMute
  <2>5. UNCHANGED sub \/ \E e \in Event : Publish(e)
    BY DEF TurnContent, TurnAsk, TurnIdle, TurnRelease, OtherAnswers, OtherSends, GoMute, Event
  <2>6. StreamOK'
    BY <1>0, <2>4, <2>5, Published DEF StreamOK, StreamTypeOK
  <2> QED BY <1>1, <2>3, <2>6, TypePartsNext
<1> QED BY <1>10, <1>11 DEF TurnMoves, TurnStep, TurnCloses

LEMMA TypeRun ==
  ASSUME TypeOK, Send \/ RunStep \/ Timeout \/ Interrupt, UNCHANGED timed
  PROVE  TypeOK'
<1> USE DEF streamVars, runVars, turnVars
<1>0. StreamOK /\ RunOK /\ TurnOK
  BY TypeParts
<1>1. CASE Send
  <2>1. StreamOK' BY <1>0, <1>1 DEF Send, StreamOK, StreamTypeOK
  <2>2. RunOK' BY <1>0, <1>1 DEF Send, RunOK, Exit
  <2>3. TurnOK' BY <1>0, <1>1, NewTurns DEF Send, TurnOK
  <2> QED BY <2>1, <2>2, <2>3, TypePartsNext
<1>2. CASE Follow
  <2>1. StreamOK' BY <1>2, StreamTyped DEF Follow
  <2>2. RunOK' /\ TurnOK' BY <1>0, <1>2 DEF Follow, RunOK, TurnOK
  <2> QED BY <2>1, <2>2, TypePartsNext
<1>3. CASE TakeEvent
  <2>1. /\ ch # <<>> /\ ch' = Tail(ch)
        /\ UNCHANGED <<link, sub, wire, pings, drops, breaks>>
    BY <1>3 DEF TakeEvent
  <2>2. StreamOK'
    <3>1. ch \in Seq(Event) BY <1>0 DEF StreamOK, StreamTypeOK
    <3>2. ch' \in Seq(Event) /\ Len(ch') = Len(ch) - 1 /\ Len(ch) \in Nat
      BY <2>1, <3>1, QueueMoves
    <3> QED BY <1>0, <2>1, <3>2, StreamAssumption DEF StreamOK, StreamTypeOK
  <2>3. turnErr' \in BOOLEAN
    BY <1>0, <1>3 DEF TakeEvent, RunOK
  <2>4. RunOK'
    BY <1>0, <1>3, <2>3 DEF TakeEvent, RunOK, Leave, Waits
  <2>5. TurnOK'
    BY <1>0, <1>3 DEF TakeEvent, TurnOK
  <2> QED BY <2>2, <2>4, <2>5, TypePartsNext
<1>4. CASE TakePing
  <2>1. StreamOK'
    BY <1>0, <1>4, StreamAssumption DEF TakePing, StreamOK, StreamTypeOK
  <2>2. RunOK' /\ TurnOK'
    BY <1>0, <1>4 DEF TakePing, RunOK, TurnOK, Waits
  <2> QED BY <2>1, <2>2, TypePartsNext
<1>6. CASE Replied \/ Checked
  <2>1. StreamOK'
    BY <1>0, <1>6 DEF Replied, Checked, StreamOK, StreamTypeOK
  <2>2. RunOK'
    BY <1>0, <1>6 DEF Replied, Checked, RunOK, Leave, Waits
  <2>3. TurnOK'
    BY <1>0, <1>6 DEF Replied, Checked, TurnOK, TurnGoto
  <2> QED BY <2>1, <2>2, <2>3, TypePartsNext
<1>5. CASE Timeout \/ Settle \/ Interrupt
  <2>1. StreamOK' /\ TurnOK'
    BY <1>0, <1>5 DEF Timeout, Settle, Interrupt, StreamOK, StreamTypeOK, TurnOK
  <2>2. RunOK'
    BY <1>0, <1>5 DEF Timeout, Settle, Interrupt, RunOK, Leave, Exit
  <2> QED BY <2>1, <2>2, TypePartsNext
<1> QED BY <1>1, <1>2, <1>3, <1>4, <1>5, <1>6 DEF RunStep

LEMMA TypeStream ==
  ASSUME TypeOK, Stream \/ Network, UNCHANGED timed PROVE TypeOK'
<1> USE DEF runVars, turnVars
<1>0. RunOK /\ TurnOK
  BY TypeParts
<1>1. StreamOK'
  BY StreamTyped DEF Stream, Network
<1>2. missed' \in BOOLEAN
  BY <1>0 DEF Stream, Network, RunOK
<1>4. UNCHANGED <<pc, turnErr, left, code, settled, turn, wrong, mute, fate>>
  BY DEF Stream, Network
<1>3. RunOK' /\ TurnOK'
  BY <1>0, <1>2, <1>4 DEF RunOK, TurnOK
<1> QED BY <1>1, <1>3, TypePartsNext

-----------------------------------------------------------------------------
(***************************************************************************)
(* The end of the turn.  The subscription begins after the send, on a      *)
(* fresh connection, so the only idle that can reach the loop is the one   *)
(* the run's own turn publishes when it is over.                           *)
(***************************************************************************)
NoIdleIn(q) == Without(q, "idle")

FollowInv ==
  /\ pc \in {"start", "sent"} => link = "none"
  /\ pc = "start" => turn.owner # "run"
  /\ link = "none" => sub = NoSub /\ wire = <<>> /\ ch = <<>>
  /\ pc \in {"start", "sent", "looping", "replying", "checking"} => left = "none"

OwnTurnInv ==
  turn.owner = "run" /\ turn.at # "idle" =>
    NoIdleIn(sub.buffer) /\ NoIdleIn(wire) /\ NoIdleIn(ch) /\ left # "idle"

\* What the exit code rests on.
CodeInv ==
  /\ settled => pc = "done" /\ left # "none"
  /\ pc = "settling" => left # "none"
  /\ left = "timeout" => turnErr
  /\ settled /\ (turnErr \/ "run" \in wrong) => code = 1
  /\ fate = "stored" => "run" \in wrong

RunInv == TypeOK /\ OwnedInv /\ FollowInv /\ OwnTurnInv /\ CodeInv

LEMMA RunInit == Init => RunInv
<1> SUFFICES ASSUME Init PROVE RunInv OBVIOUS
<1>1. TypeOK BY TypeInit
<1>2. OwnedInv /\ FollowInv /\ OwnTurnInv /\ CodeInv
  BY DEF Init, StreamInit, NoTurn, OwnedInv, FollowInv, OwnTurnInv, CodeInv
<1> QED BY <1>1, <1>2 DEF RunInv

QueuesWithoutIdle == NoIdleIn(sub.buffer) /\ NoIdleIn(wire) /\ NoIdleIn(ch)

\* The stream brings an idle from nowhere.
LEMMA StreamWithoutIdle ==
  ASSUME TypeOK, StreamStep \/ Break \/ Connect, QueuesWithoutIdle
  PROVE  QueuesWithoutIdle'
<1> USE DEF QueuesWithoutIdle, NoIdleIn
<1>0. sub.buffer \in Seq(Event) /\ wire \in Seq(Event) /\ ch \in Seq(Event)
  BY DEF TypeOK, StreamTypeOK
<1>1. CASE Accept \/ Redial \/ HangUp \/ Connect
  BY <1>1 DEF Accept, Redial, HangUp, Connect
<1>2. CASE Subscribe
  BY <1>2, EmptyQueue DEF Subscribe
<1>3. CASE WriteFrame
  <2>1. /\ sub.buffer # <<>> /\ sub'.buffer = Tail(sub.buffer)
        /\ wire' = Append(wire, Head(sub.buffer)) /\ ch' = ch
    BY <1>3 DEF WriteFrame, TypeOK, StreamTypeOK
  <2>2. Head(sub.buffer) # "idle" /\ Without(sub'.buffer, "idle")
    BY <1>0, <2>1, TailWithout
  <2>3. Head(sub.buffer) \in Event
    BY <1>0, <2>1, QueueMoves
  <2>4. Without(wire', "idle")
    BY <1>0, <2>1, <2>2, <2>3, AppendWithout
  <2> QED BY <2>1, <2>2, <2>4
<1>4. CASE ReadFrame
  <2>1. /\ wire # <<>> /\ wire' = Tail(wire)
        /\ ch' = Append(ch, Head(wire)) /\ sub' = sub
    BY <1>4 DEF ReadFrame
  <2>2. Head(wire) # "idle" /\ Without(wire', "idle")
    BY <1>0, <2>1, TailWithout
  <2>3. Head(wire) \in Event
    BY <1>0, <2>1, QueueMoves
  <2>4. Without(ch', "idle")
    BY <1>0, <2>1, <2>2, <2>3, AppendWithout
  <2> QED BY <2>1, <2>2, <2>4
<1>5. CASE Drop
  BY <1>5, EmptyQueue DEF Drop, NoSub
<1> QED
  BY <1>1, <1>2, <1>3, <1>4, <1>5 DEF StreamStep, ReadEnd, Break

RunParts == OwnedInv /\ FollowInv /\ OwnTurnInv /\ CodeInv

LEMMA RunStream ==
  ASSUME RunInv, Stream \/ Network, UNCHANGED timed PROVE RunParts'
<1> USE DEF RunInv, RunParts, runVars, turnVars
<1>1. /\ UNCHANGED <<pc, turnErr, left, code, settled, turn, wrong, fate>>
      /\ StreamStep \/ Break
  BY DEF Stream, Network
<1>2. OwnedInv' /\ CodeInv'
  BY <1>1 DEF OwnedInv, CodeInv
<1>3. link # "none" /\ link' # "none"
  BY <1>1 DEF StreamStep, Accept, Subscribe, WriteFrame, HangUp, ReadFrame, ReadEnd,
     Redial, Break, Drop
<1>4. FollowInv'
  BY <1>1, <1>3 DEF FollowInv
<1>5. OwnTurnInv'
  BY <1>1, StreamWithoutIdle DEF OwnTurnInv, QueuesWithoutIdle
<1> QED BY <1>2, <1>4, <1>5

LEMMA RunTurn ==
  ASSUME RunInv, TurnMoves, UNCHANGED timed
  PROVE  RunParts'
<1> USE DEF RunInv, RunParts, runVars, streamVars
<1>0. turn.owner \in {"none", "run", "other"}
  BY DEF TypeOK
<1>1. UNCHANGED <<pc, turnErr, left, code, settled, link, wire, ch>>
  <2>1. CASE TurnCloses BY <2>1, Closing
  <2>2. CASE ~TurnCloses
    BY <2>2 DEF TurnMoves, TurnStep, TurnContent, TurnAsk, TurnIdle, TurnRelease,
       OtherAnswers, OtherSends, GoMute, TurnCloses
  <2> QED BY <2>1, <2>2
<1>2. /\ turn'.owner = "run" => /\ turn.owner = "run"
                                /\ turn'.at # "idle" => turn.at # "idle"
      /\ OwnedInv'
  <2>1. CASE OtherSends
    BY <2>1, NewTurns DEF OtherSends, OwnedInv
  <2>2. CASE TurnRelease
    BY <2>2 DEF TurnRelease, NoTurn, OwnedInv
  <2>3. CASE TurnContent \/ TurnAsk \/ TurnCloses \/ TurnIdle \/ OtherAnswers
    <3>1. turn'.owner = turn.owner /\ turn.at # "free" /\ turn'.at # "free"
      <4>1. CASE TurnContent
        BY <4>1 DEF TurnContent, TypeOK
      <4>2. CASE TurnAsk
        BY <4>2 DEF TurnAsk, TypeOK
      <4>3. CASE TurnIdle \/ OtherAnswers
        BY <4>3 DEF TurnIdle, OtherAnswers, TurnGoto, TypeOK
      <4>4. CASE TurnCloses
        BY <4>4, Closing DEF TypeOK
      <4> QED BY <2>3, <4>1, <4>2, <4>3, <4>4
    <3>2. turn.at # "idle"
      BY <2>3, Closing DEF TurnContent, TurnAsk, TurnIdle, OtherAnswers
    <3> QED BY <3>1, <3>2 DEF OwnedInv
  <2>4. CASE GoMute
    BY <2>4 DEF GoMute, OwnedInv
  <2> QED BY <2>1, <2>2, <2>3, <2>4 DEF TurnMoves, TurnStep, TurnCloses
<1>3. \/ UNCHANGED sub
      \/ \E e \in Event : Publish(e) /\ (e = "idle" => turn'.at = "idle")
  <2>1. CASE TurnCloses BY <2>1, Closing DEF Event
  <2>2. CASE ~TurnCloses
    BY <2>2 DEF TurnMoves, TurnStep, TurnContent, TurnAsk, TurnIdle, TurnRelease,
       OtherAnswers, OtherSends, GoMute, TurnCloses, TurnGoto, Event, TypeOK
  <2> QED BY <2>1, <2>2
<1>4. FollowInv'
  BY <1>1, <1>2, <1>3, Published DEF FollowInv, NoSub
<1>5. OwnTurnInv'
  BY <1>1, <1>2, <1>3, Published DEF OwnTurnInv, NoIdleIn
<1>6. CodeInv'
  <2>1. CASE TurnCloses
    <3>1. settled /\ turn.owner = "run" => turnErr
      BY <2>1, Closing DEF CodeInv, OwnTurnInv, TypeOK
    <3>2. /\ "run" \in wrong' => "run" \in wrong \/ turn.owner = "run"
          /\ fate' = "stored" => "run" \in wrong'
      BY <2>1, Closing DEF CodeInv
    <3> QED BY <1>1, <3>1, <3>2 DEF CodeInv
  <2>2. CASE ~TurnCloses
    <3>1. wrong' = wrong /\ fate' = fate
      BY <2>2 DEF TurnMoves, TurnStep, TurnContent, TurnAsk, TurnIdle, TurnRelease,
         OtherAnswers, OtherSends, GoMute, TurnCloses
    <3> QED BY <1>1, <3>1 DEF CodeInv
  <2> QED BY <2>1, <2>2
<1> QED BY <1>2, <1>4, <1>5, <1>6

LEMMA RunRun ==
  ASSUME RunInv, Send \/ RunStep \/ Timeout \/ Interrupt, UNCHANGED timed
  PROVE  RunParts'
<1> USE DEF RunInv, RunParts, runVars, turnVars, streamVars
<1>0. sub.buffer \in Seq(Event) /\ wire \in Seq(Event) /\ ch \in Seq(Event)
  BY DEF TypeOK, StreamTypeOK
<1>1. CASE Send
  <2>1. UNCHANGED <<link, sub, wire, ch, left, settled, turnErr, wrong, fate>> /\ pc = "start"
    BY <1>1 DEF Send
  <2>2. NoIdleIn(sub.buffer) /\ NoIdleIn(wire) /\ NoIdleIn(ch) /\ left = "none"
    BY <2>1, EmptyQueue DEF FollowInv, NoSub, NoIdleIn
  <2>3. pc' \in {"sent", "done"} /\ OwnedInv'
    BY <1>1, NewTurns DEF Send, Exit, OwnedInv
  <2>4. FollowInv' BY <2>1, <2>3 DEF FollowInv
  <2>5. OwnTurnInv' BY <2>1, <2>2 DEF OwnTurnInv
  <2>6. CodeInv' BY <2>1, <2>2, <2>3 DEF CodeInv
  <2> QED BY <2>3, <2>4, <2>5, <2>6
<1>2. CASE Follow
  <2>1. /\ UNCHANGED <<turnErr, left, code, settled, turn, wrong, fate, sub, wire, ch>>
        /\ pc = "sent" /\ pc' = "looping" /\ link' = "dialling"
    BY <1>2 DEF Follow, Connect
  <2> QED BY <2>1 DEF OwnedInv, FollowInv, OwnTurnInv, CodeInv
<1>3. CASE TakeEvent
  <2>1. /\ UNCHANGED <<link, sub, wire, code, settled, wrong, turn, fate>>
        /\ pc = "looping" /\ ch # <<>> /\ ch' = Tail(ch)
        /\ turnErr => turnErr'
        /\ \/ pc' = "settling" /\ left' = "idle" /\ Head(ch) = "idle"
           \/ pc' \in {"looping", "replying"} /\ UNCHANGED left
    BY <1>3 DEF TakeEvent, Leave, Waits
  <2>2. OwnedInv'
    BY <2>1 DEF OwnedInv
  <2>3. FollowInv'
    BY <2>1 DEF FollowInv
  <2>4. OwnTurnInv'
    BY <1>0, <2>1, <2>2, TailWithout DEF OwnTurnInv, NoIdleIn
  <2>5. CodeInv'
    BY <2>1 DEF CodeInv
  <2> QED BY <2>2, <2>3, <2>4, <2>5
<1>4. CASE TakePing
  <2>1. /\ UNCHANGED <<link, sub, wire, ch, code, settled, turnErr, turn, wrong, fate, left>>
        /\ pc = "looping" /\ pc' = "checking"
    BY <1>4 DEF TakePing, Waits
  <2> QED BY <2>1 DEF OwnedInv, FollowInv, OwnTurnInv, CodeInv
<1>8. CASE Checked
  <2>1. /\ UNCHANGED <<link, sub, wire, ch, code, settled, turnErr, turn, wrong, fate>>
        /\ pc = "checking"
        /\ \/ pc' = "settling" /\ left' = "idle" /\ turn.at = "free"
           \/ pc' = "looping" /\ UNCHANGED left
    BY <1>8 DEF Checked, Leave, Waits, ReportsIdle
  <2> QED BY <2>1 DEF OwnedInv, FollowInv, OwnTurnInv, CodeInv
<1>9. CASE Replied
  <2>1. /\ UNCHANGED <<link, sub, wire, ch, code, settled, turnErr, wrong, fate, left>>
        /\ pc = "replying" /\ pc' = "looping"
    BY <1>9 DEF Replied, Waits
  <2>2. /\ turn'.owner = turn.owner
        /\ turn'.at = "idle" <=> turn.at = "idle"
        /\ OwnedInv'
    BY <1>9 DEF Replied, TurnGoto, TypeOK, OwnedInv
  <2> QED BY <2>1, <2>2 DEF FollowInv, OwnTurnInv, CodeInv
<1>5. CASE Timeout
  <2>1. /\ UNCHANGED <<link, sub, wire, ch, code, settled, turn, wrong, fate>>
        /\ pc = "looping" /\ pc' = "settling" /\ left' = "timeout" /\ turnErr' = TRUE
    BY <1>5 DEF Timeout, Leave
  <2> QED BY <2>1 DEF OwnedInv, FollowInv, OwnTurnInv, CodeInv
<1>6. CASE Settle
  <2>1. /\ UNCHANGED <<link, sub, wire, ch, left, turnErr, turn, wrong, fate>>
        /\ pc = "settling" /\ pc' = "done"
        /\ \/ settled' = settled
           \/ turnErr \/ wrong # {} => code' = 1
    BY <1>6 DEF Settle, Exit
  <2> QED BY <2>1 DEF OwnedInv, FollowInv, OwnTurnInv, CodeInv
<1>7. CASE Interrupt
  <2>1. /\ UNCHANGED <<link, sub, wire, ch, left, turnErr, settled, turn, wrong, fate>>
        /\ pc # "done" /\ pc' = "done"
    BY <1>7 DEF Interrupt, Exit
  <2> QED BY <2>1 DEF OwnedInv, FollowInv, OwnTurnInv, CodeInv
<1> QED BY <1>1, <1>2, <1>3, <1>4, <1>5, <1>6, <1>7, <1>8, <1>9 DEF RunStep

LEMMA RunNext == RunInv /\ [Next]_vars => RunInv'
<1> SUFFICES ASSUME RunInv, [Next]_vars PROVE TypeOK' /\ RunParts'
  BY DEF RunInv, RunParts
<1>1. CASE UNCHANGED vars
  <2>1. TypeOK'
    BY <1>1 DEF vars, streamVars, runVars, turnVars, RunInv, TypeOK, StreamTypeOK
  <2>2. RunParts'
    BY <1>1 DEF vars, streamVars, runVars, turnVars, RunInv, RunParts, OwnedInv,
       FollowInv, OwnTurnInv, CodeInv
  <2> QED BY <2>1, <2>2
<1>2. CASE (Stream \/ Network) /\ UNCHANGED timed
  BY <1>2, TypeStream, RunStream DEF RunInv
<1>3. CASE TurnMoves /\ UNCHANGED timed
  BY <1>3, TypeTurn, RunTurn DEF RunInv
<1>4. CASE (Send \/ RunStep \/ Timeout \/ Interrupt) /\ UNCHANGED timed
  BY <1>4, TypeRun, RunRun DEF RunInv
<1> QED BY <1>1, <1>2, <1>3, <1>4 DEF Next, TurnMoves

LEMMA RunSafety == Spec => []RunInv
BY RunInit, RunNext, PTL DEF Spec

\* The variables keep their types: no queue outgrows its buffer, whatever the
\* network does (bus.go, sse.go, client/event.go).
THEOREM TypeSafety == Spec => []TypeOK
<1>1. RunInv => TypeOK BY DEF RunInv
<1> QED BY <1>1, RunSafety, PTL

\* The run leaves on idle only when its own turn is over: neither the idle of a
\* turn another client ran before, nor a status read after a lost connection,
\* ends it early (run.go, the event loop).
THEOREM LeavesAfterTurnSafety == Spec => []LeavesAfterTurn
<1>1. RunInv => LeavesAfterTurn
  BY DEF RunInv, OwnTurnInv, LeavesAfterTurn
<1> QED BY <1>1, RunSafety, PTL

\* A turn of the run whose error was stored, because it failed or was aborted in
\* one of its rounds, never ends in exit code 0 once the settle read worked,
\* whichever events were lost on the way (run.go, the settle read).
THEOREM ErrorReportedSafety == Spec => []ErrorReported
<1>1. RunInv => ErrorReported
  BY DEF RunInv, CodeInv, ErrorReported
<1> QED BY <1>1, RunSafety, PTL
===============================================================================
