---------------------------- MODULE EngineProofs ----------------------------
(***************************************************************************)
(* Safety of the turn lifecycle for any number of sessions, sends, aborts  *)
(* and deletes, with or without a Shutdown, failing statements included.   *)
(***************************************************************************)
EXTENDS Engine, TLAPS

-----------------------------------------------------------------------------
(* Types.                                                                  *)

Pcs == {"new", "checked", "claimed", "saved", "published", "filed", "spawned",
        "loading", "running", "streaming", "ending", "surfaced", "idling", "done",
        "refused", "failed"}
AbortRecord == [at : {"none", "aborted", "waiting", "settled", "late"},
                session : Session \cup {NoTurn}, target : Turn \cup {NoTurn},
                channel : Turn \cup {NoTurn}]
StopRecord == [at : {"up", "cancelling", "draining", "waiting", "titles", "down"},
               turns : SUBSET Turn, titles : SUBSET Turn, left : SUBSET Session,
               channel : Turn \cup {NoTurn}, expired : BOOLEAN]

LEMMA TypeInit == Init => TypeOK
BY EngineAssumption DEF Init, TypeOK, NoEvent, NoAbort, NoStop, Results, Events

LEMMA TypeSend ==
  ASSUME TypeOK, NEW t \in Turn, UNCHANGED scenario,
         SendLookup(t) \/ SendClaim(t) \/ SendPersist(t) \/ SendPublish(t)
         \/ SendFiles(t) \/ SendTitle(t)
  PROVE  TypeOK'
<1> USE EngineAssumption DEF Of, Goto, EndTurn, Offer, Events, turnVars, titleVars,
        storeVars, wireVars, closeVars
<1>1. CASE SendLookup(t) BY <1>1 DEF SendLookup, TypeOK
<1>2. CASE SendClaim(t)
  <2>1. busy' \in [Session -> Turn \cup {NoTurn}] BY <1>2 DEF SendClaim, TypeOK
  <2>2. pc' \in [Turn -> Pcs] BY <1>2 DEF SendClaim, TypeOK, Pcs
  <2> QED BY <1>2, <2>1, <2>2 DEF SendClaim, TypeOK, Pcs
<1>3. CASE SendPersist(t) BY <1>3 DEF SendPersist, TypeOK
<1>4. CASE SendPublish(t) BY <1>4 DEF SendPublish, TypeOK
<1>5. CASE SendFiles(t) BY <1>5 DEF SendFiles, TypeOK
<1>6. CASE SendTitle(t) BY <1>6 DEF SendTitle, TypeOK
<1> QED BY <1>1, <1>2, <1>3, <1>4, <1>5, <1>6

LEMMA TypeTurn ==
  ASSUME TypeOK, NEW t \in Turn, UNCHANGED scenario,
         TurnBusy(t) \/ TurnLoad(t) \/ RoundBegin(t) \/ RoundContent(t) \/ RoundEnd(t)
         \/ RoundAborted(t) \/ TurnSurface(t) \/ TurnIdle(t) \/ TurnRelease(t) \/ Emit(t)
  PROVE  TypeOK'
<1> USE EngineAssumption DEF Of, Goto, EndTurn, Offer, Events, Results, Finish, Failure,
        NoEvent, turnVars, titleVars, storeVars, wireVars, closeVars
<1>1. CASE TurnBusy(t) BY <1>1 DEF TurnBusy, TypeOK
<1>2. CASE TurnLoad(t)
  <2>1. pc' \in [Turn -> Pcs] BY <1>2 DEF TurnLoad, TypeOK, Pcs
  <2>2. result' \in [Turn -> Results] BY <1>2 DEF TurnLoad, TypeOK
  <2> QED BY <1>2, <2>1, <2>2 DEF TurnLoad, TypeOK, Pcs
<1>3. CASE RoundBegin(t) BY <1>3 DEF RoundBegin, TypeOK
<1>4. CASE RoundContent(t) BY <1>4 DEF RoundContent, TypeOK
<1>5. CASE RoundEnd(t) BY <1>5 DEF RoundEnd, TypeOK
<1>6. CASE RoundAborted(t) BY <1>6 DEF RoundAborted, TypeOK
<1>7. CASE TurnSurface(t) BY <1>7 DEF TurnSurface, TypeOK
<1>8. CASE TurnIdle(t) BY <1>8 DEF TurnIdle, TypeOK
<1>9. CASE TurnRelease(t) BY <1>9 DEF TurnRelease, TypeOK
<1>10. CASE Emit(t) BY <1>10 DEF Emit, TypeOK
<1> QED BY <1>1, <1>2, <1>3, <1>4, <1>5, <1>6, <1>7, <1>8, <1>9, <1>10

LEMMA TypeTitle ==
  ASSUME TypeOK, NEW t \in Turn, UNCHANGED scenario, TitleStep(t) PROVE TypeOK'
<1> USE EngineAssumption DEF Of, TitleGoto, Dropped, turnVars, storeVars, wireVars,
        closeVars
<1>1. CASE TitleStream(t) BY <1>1 DEF TitleStream, TypeOK
<1>2. CASE TitleWrite(t) BY <1>2 DEF TitleWrite, TypeOK
<1>3. CASE TitleOffer(t) BY <1>3 DEF TitleOffer, TypeOK
<1>4. CASE TitleEmit(t) BY <1>4 DEF TitleEmit, TypeOK
<1>5. CASE TitleLeave(t) BY <1>5 DEF TitleLeave, TypeOK
<1> QED BY <1>1, <1>2, <1>3, <1>4, <1>5 DEF TitleStep

LEMMA CancelTypes ==
  ASSUME TypeOK, NEW s \in Session, CancelOwner(s)
  PROVE  cancelled' \subseteq Turn /\ titleStop' \subseteq Turn
BY DEF TypeOK, CancelOwner

LEMMA TypeAbort ==
  ASSUME TypeOK, NEW a \in Aborter, UNCHANGED scenario,
         AbortStep(a) \/ \E s \in Session : AbortCall(a, s)
  PROVE  TypeOK'
<1> USE DEF turnVars, titleVars, storeVars, wireVars, closeVars, NoAbort
<1>1. ASSUME NEW s \in Session, AbortCall(a, s) PROVE TypeOK'
  BY <1>1, CancelTypes DEF AbortCall, TypeOK
<1>2. CASE AbortCapture(a)
  <2>1. abort[a] \in AbortRecord BY DEF TypeOK, AbortRecord
  <2>2. busy[abort[a].session] \in Turn \cup {NoTurn}
    BY <1>2, <2>1 DEF AbortCapture, TypeOK, AbortRecord
  <2> DEFINE r == abort[a]
             c == busy[r.session]
             at == IF c = NoTurn THEN "settled" ELSE "waiting"
             new == [r EXCEPT !.at = at, !.channel = c]
  <2>3. abort' = [abort EXCEPT ![a] = new] /\ abort \in [Aborter -> AbortRecord]
    BY <1>2 DEF AbortCapture, TypeOK, AbortRecord
  <2>4. at \in {"settled", "waiting"} /\ c \in Turn \cup {NoTurn} /\ r \in AbortRecord
    BY <2>1, <2>2
  <2>5. new \in AbortRecord
    <3> HIDE DEF r, c, at
    <3> QED BY <2>4 DEF AbortRecord
  <2>6. abort' \in [Aborter -> AbortRecord]
    <3> HIDE DEF new
    <3> QED BY <2>3, <2>5
  <2> QED BY <1>2, <2>6 DEF AbortCapture, TypeOK, AbortRecord
<1>3. CASE AbortSettled(a) BY <1>3 DEF AbortSettled, TypeOK
<1>4. CASE AbortTimeout(a)
  <2>1. abort[a] \in AbortRecord BY DEF TypeOK, AbortRecord
  <2>3. abort' \in [Aborter -> AbortRecord]
    BY <1>4, <2>1 DEF AbortTimeout, TypeOK, AbortRecord
  <2> QED BY <1>4, <2>3 DEF AbortTimeout, TypeOK, AbortRecord
<1>5. CASE AbortReturn(a) BY <1>5 DEF AbortReturn, TypeOK
<1> QED BY <1>1, <1>2, <1>3, <1>4, <1>5 DEF AbortStep

LEMMA TypeDelete ==
  ASSUME TypeOK, NEW s \in Session, UNCHANGED scenario,
         DeleteRow(s) \/ CloseStep(s) \/ Rename(s)
  PROVE  TypeOK'
<1> USE DEF DelGoto, turnVars, titleVars, storeVars, wireVars, closeVars
<1>1. CASE DeleteRow(s) BY <1>1 DEF DeleteRow, TypeOK
<1>2. CASE CloseAbort(s) BY <1>2, CancelTypes DEF CloseAbort, TypeOK
<1>3. CASE CloseMark(s) BY <1>3 DEF CloseMark, TypeOK
<1>4. CASE CloseCheck(s) BY <1>4 DEF CloseCheck, TypeOK
<1>5. CASE CloseCapture(s) BY <1>5 DEF CloseCapture, TypeOK
<1>6. CASE CloseWait(s) BY <1>6 DEF CloseWait, TypeOK
<1>7. CASE CloseTimeout(s) BY <1>7 DEF CloseTimeout, TypeOK
<1>8. CASE DeleteEmit(s) BY <1>8 DEF DeleteEmit, TypeOK
<1>9. CASE Rename(s) BY <1>9 DEF Rename, TypeOK
<1> QED BY <1>1, <1>2, <1>3, <1>4, <1>5, <1>6, <1>7, <1>8, <1>9 DEF CloseStep

LEMMA TypeStop ==
  ASSUME TypeOK, UNCHANGED scenario, StopStep PROVE TypeOK'
<1> USE DEF Stop, Owners, turnVars, titleVars, storeVars, wireVars, closeVars
<1>1. CASE StopCollect
  <2>1. stop \in StopRecord BY DEF TypeOK, StopRecord
  <2>2. /\ {busy[s] : s \in Session} \ {NoTurn} \in SUBSET Turn
        /\ {titleCtx[s] : s \in Session} \ {NoTurn} \in SUBSET Turn
    BY DEF TypeOK
  <2>3. stop' \in StopRecord BY <1>1, <2>1, <2>2 DEF StopCollect, StopRecord
  <2> QED BY <1>1, <2>3 DEF StopCollect, TypeOK, StopRecord
<1>2. CASE StopCancel BY <1>2 DEF StopCancel, TypeOK
<1>3. CASE StopScan BY <1>3 DEF StopScan, TypeOK
<1>4. CASE StopCapture
  <2>1. stop \in StopRecord BY DEF TypeOK, StopRecord
  <2>2. ASSUME NEW s \in stop.left, stop' = [stop EXCEPT !.left = @ \ {s}, !.channel = busy[s]]
        PROVE  stop' \in StopRecord
    <3>1. s \in Session BY <2>1 DEF StopRecord
    <3>2. busy[s] \in Turn \cup {NoTurn} BY <3>1 DEF TypeOK
    <3>3. stop.left \ {s} \in SUBSET Session BY <2>1 DEF StopRecord
    <3> QED BY <2>1, <2>2, <3>2, <3>3 DEF StopRecord
  <2>3. ASSUME Stop("draining") PROVE stop' \in StopRecord
    BY <2>1, <2>3 DEF StopRecord
  <2>4. stop' \in StopRecord BY <1>4, <2>2, <2>3 DEF StopCapture
  <2> QED BY <1>4, <2>4 DEF StopCapture, TypeOK, StopRecord
<1>5. CASE StopWaited BY <1>5 DEF StopWaited, TypeOK
<1>6. CASE StopTitles BY <1>6 DEF StopTitles, TypeOK
<1>7. CASE StopDeadline BY <1>7 DEF StopDeadline, TypeOK
<1> QED BY <1>1, <1>2, <1>3, <1>4, <1>5, <1>6, <1>7 DEF StopStep

LEMMA TypeNext == TypeOK /\ [Next]_vars => TypeOK'
<1> SUFFICES ASSUME TypeOK, [Next]_vars PROVE TypeOK' OBVIOUS
<1>1. CASE UNCHANGED vars
  BY <1>1 DEF vars, turnVars, titleVars, storeVars, wireVars, closeVars, TypeOK
<1>2. ASSUME NEW t \in Turn, TurnStep(t) \/ ModelStep(t), UNCHANGED scenario PROVE TypeOK'
  BY <1>2, TypeSend, TypeTurn DEF TurnStep, ModelStep
<1> QED BY <1>1, <1>2, TypeTitle, TypeAbort, TypeDelete, TypeStop DEF Next

\* Every variable keeps its type.
THEOREM EngineTypeSafety == Spec => []TypeOK
BY TypeInit, TypeNext, PTL DEF Spec

-----------------------------------------------------------------------------
(***************************************************************************)
(* One turn per session.  The flag is claimed under the lock by a turn     *)
(* that finds none, and given back in the same step as the done channel;   *)
(* what has to be known besides is that a closed channel belongs to a turn *)
(* that is over, for a claim would reopen it.                              *)
(***************************************************************************)
HoldingAt == {"claimed", "saved", "published", "filed", "spawned", "loading",
              "running", "streaming", "ending", "surfaced", "idling"}
OverAt == {"done", "failed"}
Over(t) == pc[t] \in OverAt
Started(t) == Holding(t) \/ Over(t)

ClosedInv == \A t \in closed : Over(t)
OwnerInv == \A s \in Session : busy[s] # NoTurn => Of(busy[s]) = s
FlagInv == FlagMatchesTurn /\ ClosedInv /\ OwnerInv

LEMMA FlagInit == Init => FlagInv
BY EngineAssumption DEF Init, FlagInv, FlagMatchesTurn, ClosedInv, OwnerInv, Holding, Of

\* A step that moves no turn and leaves the flag alone.
LEMMA FlagFrame ==
  ASSUME FlagInv, UNCHANGED <<pc, busy, closed>> PROVE FlagInv'
BY DEF FlagInv, FlagMatchesTurn, ClosedInv, OwnerInv, Holding, Over, Of

\* A turn that goes on.
LEMMA FlagMoves ==
  ASSUME TypeOK, FlagInv, NEW t \in Turn, Holding(t), NEW where \in HoldingAt,
         Goto(t, where), UNCHANGED <<busy, closed>>
  PROVE  FlagInv'
BY DEF TypeOK, FlagInv, FlagMatchesTurn, ClosedInv, OwnerInv, Holding, HoldingAt, Over, OverAt,
   Of, Goto

\* A turn that is over gives the flag back.
LEMMA FlagEnds ==
  ASSUME TypeOK, FlagInv, NEW t \in Turn, Holding(t), NEW where \in OverAt,
         Goto(t, where), EndTurn(t)
  PROVE  FlagInv'
<1> USE EngineAssumption DEF Of, Goto, EndTurn, TypeOK
<1>1. \A u \in Turn : pc'[u] = IF u = t THEN where ELSE pc[u] OBVIOUS
<1>2. ~(Holding(t))' BY <1>1 DEF Holding, OverAt
<1>3. \A u \in Turn : Of(u) = Of(t) /\ u # t => ~Holding(u)
  BY DEF FlagInv, FlagMatchesTurn
<1>4. \A u \in Turn : u # t => (Holding(u)' <=> Holding(u))
  BY <1>1 DEF Holding
<1>5. \A u \in Turn : busy'[Of(u)] = IF Of(u) = Of(t) THEN NoTurn ELSE busy[Of(u)]
  OBVIOUS
<1>6. FlagMatchesTurn'
  BY <1>2, <1>3, <1>4, <1>5 DEF FlagInv, FlagMatchesTurn
<1>7. ClosedInv'
  BY <1>1 DEF FlagInv, ClosedInv, Over
<1>8. OwnerInv'
  BY DEF FlagInv, OwnerInv
<1> QED BY <1>6, <1>7, <1>8 DEF FlagInv

LEMMA FlagSend ==
  ASSUME TypeOK, FlagInv, NEW t \in Turn,
         SendLookup(t) \/ SendClaim(t) \/ SendPersist(t) \/ SendPublish(t)
         \/ SendFiles(t) \/ SendTitle(t)
  PROVE  FlagInv'
<1> USE DEF At
<1>1. CASE SendLookup(t)
  <2>1. pc[t] = "new" /\ UNCHANGED <<busy, closed>> BY <1>1 DEF SendLookup
  <2>2. PICK where \in {"checked", "refused"} : Goto(t, where) BY <1>1 DEF SendLookup
  <2> QED BY <2>1, <2>2 DEF TypeOK, FlagInv, FlagMatchesTurn, ClosedInv, OwnerInv, Holding, Over,
        OverAt, Of, Goto
<1>2. CASE SendClaim(t)
  <2>1. pc[t] = "checked" /\ UNCHANGED closed BY <1>2 DEF SendClaim
  <2>2. CASE Free(t)
    <3>1. busy' = [busy EXCEPT ![Of(t)] = t] /\ Goto(t, "claimed") BY <1>2, <2>2 DEF SendClaim
    <3>2. \A u \in Turn : Of(u) = Of(t) => ~Holding(u)
      BY <2>2, EngineAssumption DEF Free, FlagInv, FlagMatchesTurn, Of
    <3>3. \A u \in Turn : pc'[u] = IF u = t THEN "claimed" ELSE pc[u]
      BY <3>1 DEF Goto, TypeOK
    <3>4. \A s \in Session : busy'[s] = IF s = Of(t) THEN t ELSE busy[s]
      BY <3>1 DEF TypeOK
    <3>5. \A u \in Turn : Holding(u)' <=> (u = t \/ Holding(u))
      BY <3>3 DEF Holding
    <3>6. \A u \in Turn : Of(u) \in Session BY EngineAssumption DEF Of
    <3>7. \A u \in Turn : Holding(u)' <=> busy'[Of(u)] = u
      BY <3>2, <3>4, <3>5, <3>6 DEF FlagInv, FlagMatchesTurn
    <3>8. t \notin closed
      BY <2>1 DEF FlagInv, ClosedInv, Over, OverAt
    <3>9. FlagMatchesTurn'
      BY <2>1, <3>5, <3>7, <3>8 DEF FlagInv, FlagMatchesTurn, Of
    <3>10. ClosedInv'
      BY <2>1, <3>3, <3>8 DEF FlagInv, ClosedInv, Over, TypeOK
    <3>11. OwnerInv'
      BY <3>4 DEF FlagInv, OwnerInv, Of
    <3> QED BY <3>9, <3>10, <3>11 DEF FlagInv
  <2>3. CASE ~Free(t)
    <3>1. UNCHANGED busy /\ Goto(t, "refused") BY <1>2, <2>3 DEF SendClaim
    <3> QED BY <2>1, <3>1 DEF TypeOK, FlagInv, FlagMatchesTurn, ClosedInv, OwnerInv, Holding, Over,
          OverAt, Of, Goto
  <2> QED BY <2>2, <2>3
<1>3. CASE SendPersist(t)
  BY <1>3, FlagMoves, FlagEnds DEF SendPersist, Holding, HoldingAt, OverAt
<1>4. CASE SendPublish(t)
  BY <1>4, FlagMoves DEF SendPublish, Holding, HoldingAt
<1>5. CASE SendFiles(t)
  BY <1>5, FlagMoves, FlagEnds DEF SendFiles, Holding, HoldingAt, OverAt
<1>6. CASE SendTitle(t)
  BY <1>6, FlagMoves DEF SendTitle, Holding, HoldingAt
<1> QED BY <1>1, <1>2, <1>3, <1>4, <1>5, <1>6

LEMMA FlagTurn ==
  ASSUME TypeOK, FlagInv, NEW t \in Turn,
         TurnBusy(t) \/ TurnLoad(t) \/ RoundBegin(t) \/ RoundContent(t) \/ RoundEnd(t)
         \/ RoundAborted(t) \/ TurnSurface(t) \/ TurnIdle(t) \/ TurnRelease(t) \/ Emit(t)
  PROVE  FlagInv'
<1> USE DEF At, Holding, HoldingAt, Finish
<1>1. CASE TurnBusy(t) BY <1>1, FlagMoves DEF TurnBusy
<1>2. CASE TurnLoad(t) BY <1>2, FlagMoves DEF TurnLoad
<1>3. CASE RoundBegin(t) BY <1>3, FlagMoves DEF RoundBegin
<1>4. CASE RoundContent(t) BY <1>4, FlagFrame DEF RoundContent
<1>5. CASE RoundEnd(t) BY <1>5, FlagMoves DEF RoundEnd
<1>6. CASE RoundAborted(t) BY <1>6, FlagMoves DEF RoundAborted
<1>7. CASE TurnSurface(t) BY <1>7, FlagMoves DEF TurnSurface
<1>8. CASE TurnIdle(t) BY <1>8, FlagMoves DEF TurnIdle
<1>9. CASE TurnRelease(t) BY <1>9, FlagEnds DEF TurnRelease, OverAt
<1>10. CASE Emit(t) BY <1>10, FlagFrame DEF Emit
<1> QED BY <1>1, <1>2, <1>3, <1>4, <1>5, <1>6, <1>7, <1>8, <1>9, <1>10

\* Nobody else moves a turn or touches the flag.
LEMMA OthersLeaveTurns ==
  ASSUME \/ \E t \in Turn : TitleStep(t)
         \/ \E a \in Aborter : AbortStep(a) \/ \E s \in Session : AbortCall(a, s)
         \/ \E s \in Session : DeleteRow(s) \/ CloseStep(s) \/ Rename(s)
         \/ StopStep
  PROVE  UNCHANGED <<turnVars, busy, closed>>
<1>1. ASSUME NEW t \in Turn, TitleStep(t) PROVE UNCHANGED <<turnVars, busy, closed>>
  BY <1>1 DEF TitleStep, TitleStream, TitleWrite, TitleOffer, TitleEmit, TitleLeave
<1>2. ASSUME NEW a \in Aborter, AbortStep(a) \/ \E s \in Session : AbortCall(a, s)
      PROVE  UNCHANGED <<turnVars, busy, closed>>
  BY <1>2 DEF AbortStep, AbortCall, AbortCapture, AbortSettled, AbortTimeout, AbortReturn
<1>3. ASSUME NEW s \in Session, DeleteRow(s) \/ CloseStep(s) \/ Rename(s)
      PROVE  UNCHANGED <<turnVars, busy, closed>>
  BY <1>3 DEF DeleteRow, CloseStep, CloseAbort, CloseMark, CloseCheck, CloseCapture,
     CloseWait, CloseTimeout, DeleteEmit, Rename
<1>4. ASSUME StopStep PROVE UNCHANGED <<turnVars, busy, closed>>
  BY <1>4 DEF StopStep, StopCollect, StopCancel, StopScan, StopCapture, StopWaited,
     StopTitles, StopDeadline
<1> QED BY <1>1, <1>2, <1>3, <1>4

LEMMA FlagNext == TypeOK /\ FlagInv /\ [Next]_vars => FlagInv'
<1> SUFFICES ASSUME TypeOK, FlagInv, [Next]_vars PROVE FlagInv' OBVIOUS
<1>1. CASE UNCHANGED vars BY <1>1, FlagFrame DEF vars, turnVars
<1>2. ASSUME NEW t \in Turn, TurnStep(t) \/ ModelStep(t) PROVE FlagInv'
  BY <1>2, FlagSend, FlagTurn DEF TurnStep, ModelStep
<1>3. CASE UNCHANGED <<turnVars, busy, closed>> BY <1>3, FlagFrame DEF turnVars
<1> QED BY <1>1, <1>2, <1>3, OthersLeaveTurns DEF Next

LEMMA FlagSafety == Spec => [](TypeOK /\ FlagInv)
BY TypeInit, TypeNext, FlagInit, FlagNext, PTL DEF Spec

\* The busy flag of a session names the one turn in flight, from Send's claim
\* to the release, on every path; two turns of a session never run at once.
THEOREM FlagMatchesTurnSafety == Spec => []FlagMatchesTurn
<1>1. FlagInv => FlagMatchesTurn BY DEF FlagInv
<1> QED BY <1>1, FlagSafety, PTL

-----------------------------------------------------------------------------
(***************************************************************************)
(* A turn that has begun stays begun, one that is over stays over: what    *)
(* whoever waits for a turn relies on.                                     *)
(***************************************************************************)
\* What a step of a turn does to it.
LEMMA TurnForm ==
  ASSUME NEW t \in Turn, TurnStep(t) \/ ModelStep(t)
  PROVE  \/ UNCHANGED pc
         \/ /\ pc[t] \notin OverAt \cup {"refused"}
            /\ \E where : /\ Goto(t, where)
                          /\ Holding(t) => where \in HoldingAt \cup OverAt
<1> USE DEF At, Holding, HoldingAt, OverAt, Finish, Goto
<1>1. CASE SendLookup(t) \/ SendClaim(t)
  BY <1>1 DEF SendLookup, SendClaim
<1>2. CASE SendPersist(t) \/ SendPublish(t) \/ SendFiles(t) \/ SendTitle(t)
  BY <1>2 DEF SendPersist, SendPublish, SendFiles, SendTitle
<1>3. CASE TurnBusy(t) \/ TurnLoad(t) \/ RoundBegin(t)
  BY <1>3 DEF TurnBusy, TurnLoad, RoundBegin
<1>4. CASE RoundContent(t) \/ RoundEnd(t) \/ RoundAborted(t)
  BY <1>4 DEF RoundContent, RoundEnd, RoundAborted
<1>5. CASE TurnSurface(t) \/ TurnIdle(t) \/ TurnRelease(t) \/ Emit(t)
  BY <1>5 DEF TurnSurface, TurnIdle, TurnRelease, Emit
<1> QED BY <1>1, <1>2, <1>3, <1>4, <1>5 DEF TurnStep, ModelStep

LEMMA TurnsGoOn ==
  ASSUME TypeOK, [Next]_vars, NEW u \in Turn
  PROVE  (Started(u) => Started(u)') /\ (Over(u) => Over(u)')
<1> USE DEF Started, Over, Holding
<1>1. CASE UNCHANGED pc BY <1>1
<1>2. ASSUME NEW t \in Turn, TurnStep(t) \/ ModelStep(t)
      PROVE  (Started(u) => Started(u)') /\ (Over(u) => Over(u)')
  <2>1. PICK where : /\ Goto(t, where)
                     /\ Holding(t) => where \in HoldingAt \cup OverAt
                     /\ pc[t] \notin OverAt \cup {"refused"}
        \/ UNCHANGED pc
    BY <1>2, TurnForm
  <2>2. CASE UNCHANGED pc BY <2>2
  <2>3. CASE ~UNCHANGED pc
    <3>1. \A v \in Turn : pc'[v] = IF v = t THEN where ELSE pc[v]
      BY <2>1, <2>3 DEF Goto, TypeOK
    <3> QED BY <2>1, <2>3, <3>1 DEF HoldingAt, OverAt
  <2> QED BY <2>2, <2>3
<1> QED BY <1>1, <1>2, OthersLeaveTurns DEF Next, vars, turnVars

\* A turn that has begun and does not own its session is over.
LEMMA StartedOwnsOrIsOver ==
  ASSUME FlagInv, NEW t \in Turn, Started(t) PROVE busy[Of(t)] = t \/ Over(t)
BY DEF FlagInv, FlagMatchesTurn, Started

LEMMA OwnersHaveStarted ==
  ASSUME TypeOK, FlagInv, NEW s \in Session, busy[s] # NoTurn
  PROVE  busy[s] \in Turn /\ Of(busy[s]) = s /\ Started(busy[s])
BY DEF TypeOK, FlagInv, FlagMatchesTurn, OwnerInv, Started

LEMMA OverIsNotHolding == ASSUME NEW t, Over(t) PROVE ~Holding(t)
BY DEF Over, OverAt, Holding

-----------------------------------------------------------------------------
(***************************************************************************)
(* An abort that settled.  The handler waits on the channel of whichever   *)
(* turn owns the session when it comes to look: its own target, or a later *)
(* one, and then the target is over already.                               *)
(***************************************************************************)
AbortInvOf(a) ==
  abort[a].at # "none" =>
    /\ abort[a].target \in Turn
    /\ abort[a].session = Of(abort[a].target)
    /\ Started(abort[a].target)
    /\ abort[a].at = "waiting" =>
         abort[a].channel = abort[a].target \/ Over(abort[a].target)
    /\ abort[a].at = "settled" => Over(abort[a].target)
AbortInv == \A a \in Aborter : AbortInvOf(a)

LEMMA AbortInit == Init => AbortInv
BY DEF Init, AbortInv, AbortInvOf, NoAbort

\* A handler that does not move.
LEMMA AbortStays ==
  ASSUME TypeOK, [Next]_vars, NEW a \in Aborter, AbortInvOf(a), abort'[a] = abort[a]
  PROVE  AbortInvOf(a)'
BY TurnsGoOn DEF AbortInvOf, Of

LEMMA AbortMoves ==
  ASSUME TypeOK, FlagInv, [Next]_vars, NEW a \in Aborter, AbortInvOf(a),
         AbortStep(a) \/ \E s \in Session : AbortCall(a, s)
  PROVE  AbortInvOf(a)'
<1> DEFINE t == abort[a].target
<1>a. \A u : (Started(u)' <=> Started(u)) /\ (Over(u)' <=> Over(u))
  BY OthersLeaveTurns DEF turnVars, Started, Over, Holding
<1>b. abort[a] \in AbortRecord BY DEF TypeOK, AbortRecord
<1>1. ASSUME NEW s \in Session, AbortCall(a, s) PROVE AbortInvOf(a)'
  <2>1. CASE busy[s] = NoTurn
    BY <1>1, <2>1 DEF AbortCall, AbortInvOf, NoAbort, TypeOK
  <2>2. CASE busy[s] # NoTurn
    <3>1. abort'[a] = [at |-> "aborted", session |-> s, target |-> busy[s], channel |-> NoTurn]
      BY <1>1, <2>2 DEF AbortCall, TypeOK
    <3>2. busy[s] \in Turn /\ Of(busy[s]) = s /\ Started(busy[s])
      BY <2>2, OwnersHaveStarted
    <3> QED BY <1>a, <3>1, <3>2 DEF AbortInvOf, Of
  <2> QED BY <2>1, <2>2
<1>2. CASE AbortCapture(a)
  <2>1. /\ abort'[a].target = t /\ abort'[a].session = abort[a].session
        /\ abort'[a].channel = busy[abort[a].session]
        /\ abort'[a].at = IF busy[abort[a].session] = NoTurn THEN "settled" ELSE "waiting"
    BY <1>2, <1>b DEF AbortCapture, TypeOK, AbortRecord
  <2>2. abort[a].at = "aborted" BY <1>2 DEF AbortCapture
  <2>3. t \in Turn /\ Started(t) /\ abort[a].session = Of(t)
    BY <2>2 DEF AbortInvOf
  <2>4. busy[Of(t)] = t \/ Over(t) BY <2>3, StartedOwnsOrIsOver
  <2>5. t # NoTurn BY <2>3, EngineAssumption
  <2> QED BY <1>a, <2>1, <2>2, <2>3, <2>4, <2>5 DEF AbortInvOf, Of
<1>3. CASE AbortSettled(a)
  <2>1. /\ abort'[a].target = t /\ abort'[a].session = abort[a].session
        /\ abort'[a].at = "settled"
    BY <1>3, <1>b DEF AbortSettled, TypeOK, AbortRecord
  <2>2. abort[a].at = "waiting" /\ abort[a].channel \in closed
    BY <1>3 DEF AbortSettled
  <2>3. Over(t) BY <2>2 DEF AbortInvOf, FlagInv, ClosedInv
  <2> QED BY <1>a, <2>1, <2>2, <2>3 DEF AbortInvOf, Of
<1>4. CASE AbortTimeout(a)
  <2>1. /\ abort'[a].target = t /\ abort'[a].session = abort[a].session
        /\ abort'[a].at = "late"
    BY <1>4, <1>b DEF AbortTimeout, TypeOK, AbortRecord
  <2>2. abort[a].at = "waiting" BY <1>4 DEF AbortTimeout
  <2> QED BY <1>a, <2>1, <2>2 DEF AbortInvOf, Of
<1>5. CASE AbortReturn(a)
  BY <1>5 DEF AbortReturn, AbortInvOf, NoAbort, TypeOK
<1> QED BY <1>1, <1>2, <1>3, <1>4, <1>5 DEF AbortStep

\* Nobody but the handler itself moves an abort.
LEMMA OthersLeaveAborts ==
  ASSUME [Next]_vars, TypeOK, NEW b \in Aborter,
         ~(AbortStep(b) \/ \E s \in Session : AbortCall(b, s))
  PROVE  abort'[b] = abort[b]
<1>1. CASE UNCHANGED vars BY <1>1 DEF vars
<1>2. ASSUME NEW t \in Turn, TurnStep(t) \/ ModelStep(t) \/ TitleStep(t)
      PROVE  abort' = abort
  BY <1>2 DEF TurnStep, ModelStep, TitleStep, SendLookup, SendClaim, SendPersist,
     SendPublish, SendFiles, SendTitle, TurnBusy, TurnLoad, RoundBegin, RoundContent,
     RoundEnd, RoundAborted, TurnSurface, TurnIdle, TurnRelease, Emit, TitleStream,
     TitleWrite, TitleOffer, TitleEmit, TitleLeave
<1>3. ASSUME NEW a \in Aborter, AbortStep(a) \/ \E s \in Session : AbortCall(a, s)
      PROVE  abort'[b] = abort[b]
  <2>1. a # b BY <1>3
  <2>2. \E x : abort' = [abort EXCEPT ![a] = x]
    BY <1>3 DEF AbortStep, AbortCall, AbortCapture, AbortSettled, AbortTimeout, AbortReturn
  <2> QED BY <2>1, <2>2 DEF TypeOK
<1>4. ASSUME NEW s \in Session, DeleteRow(s) \/ CloseStep(s) \/ Rename(s)
      PROVE  abort' = abort
  BY <1>4 DEF DeleteRow, CloseStep, CloseAbort, CloseMark, CloseCheck, CloseCapture,
     CloseWait, CloseTimeout, DeleteEmit, Rename
<1>5. ASSUME StopStep PROVE abort' = abort
  BY <1>5 DEF StopStep, StopCollect, StopCancel, StopScan, StopCapture, StopWaited,
     StopTitles, StopDeadline
<1> QED BY <1>1, <1>2, <1>3, <1>4, <1>5 DEF Next

LEMMA AbortNext == TypeOK /\ FlagInv /\ AbortInv /\ [Next]_vars => AbortInv'
<1> SUFFICES ASSUME TypeOK, FlagInv, AbortInv, [Next]_vars, NEW a \in Aborter
             PROVE  AbortInvOf(a)'
  BY DEF AbortInv
<1>1. AbortInvOf(a) BY DEF AbortInv
<1>2. CASE AbortStep(a) \/ \E s \in Session : AbortCall(a, s)
  BY <1>1, <1>2, AbortMoves
<1>3. CASE ~(AbortStep(a) \/ \E s \in Session : AbortCall(a, s))
  BY <1>1, <1>3, AbortStays, OthersLeaveAborts
<1> QED BY <1>2, <1>3

\* POST abort that answers without its timeout has really ended the turn it
\* aborted, whichever turns came after.
THEOREM AbortSettlesSafety == Spec => []AbortSettles
<1>1. TypeOK /\ FlagInv /\ AbortInv => AbortSettles
  <2> SUFFICES ASSUME FlagInv, AbortInv, NEW a \in Aborter, abort[a].at = "settled"
               PROVE  busy[abort[a].session] # abort[a].target
    BY DEF AbortSettles
  <2>1. /\ abort[a].target \in Turn /\ Over(abort[a].target)
        /\ abort[a].session = Of(abort[a].target)
    BY DEF AbortInv, AbortInvOf
  <2> QED BY <2>1, OverIsNotHolding DEF FlagInv, FlagMatchesTurn
<1>2. Spec => []AbortInv
  BY AbortInit, AbortNext, FlagSafety, PTL DEF Spec
<1> QED BY <1>1, <1>2, FlagSafety, PTL

-----------------------------------------------------------------------------
(***************************************************************************)
(* A Shutdown that drained.  A scan that finds no owner finds every turn   *)
(* Shutdown collected over, since they had all begun; a turn that is over  *)
(* starts no title, so the wait for the titles is the last one needed.     *)
(***************************************************************************)
StopInv ==
  \A t \in stop.turns :
    /\ Started(t)
    /\ stop.at = "titles" => Over(t)
    /\ stop.at = "down" /\ ~stop.expired => Over(t) /\ ~TitleRuns(t)

LEMMA StopInit == Init => StopInv
BY DEF Init, StopInv, NoStop

\* Only its SendTitle starts a title.
LEMMA TitlesOfTheOver ==
  ASSUME TypeOK, [Next]_vars, NEW u \in Turn, Over(u), ~TitleRuns(u)
  PROVE  ~TitleRuns(u)'
<1>1. CASE UNCHANGED title BY <1>1 DEF TitleRuns
<1>2. ASSUME NEW t \in Turn, SendTitle(t) PROVE ~TitleRuns(u)'
  <2>1. u # t BY <1>2 DEF SendTitle, At, Over, OverAt
  <2> QED BY <1>2, <2>1 DEF SendTitle, TitleRuns, TypeOK
<1>3. ASSUME NEW t \in Turn, TurnStep(t) \/ ModelStep(t), ~SendTitle(t)
      PROVE  UNCHANGED title
  BY <1>3 DEF TurnStep, ModelStep, SendLookup, SendClaim, SendPersist, SendPublish,
     SendFiles, TurnBusy, TurnLoad, RoundBegin, RoundContent, RoundEnd, RoundAborted,
     TurnSurface, TurnIdle, TurnRelease, Emit, titleVars
<1>4. ASSUME NEW t \in Turn, TitleStep(t) PROVE ~TitleRuns(u)'
  <2>1. TitleRuns(t) /\ \E x : TitleGoto(t, x)
    BY <1>4 DEF TitleStep, TitleStream, TitleWrite, TitleOffer, TitleEmit, TitleLeave,
       TitleRuns
  <2>2. u # t BY <2>1
  <2> QED BY <2>1, <2>2 DEF TitleGoto, TitleRuns, TypeOK
<1>5. ASSUME NEW a \in Aborter, AbortStep(a) \/ \E s \in Session : AbortCall(a, s)
      PROVE  UNCHANGED title
  BY <1>5 DEF AbortStep, AbortCall, AbortCapture, AbortSettled, AbortTimeout,
     AbortReturn, titleVars
<1>6. ASSUME NEW s \in Session, DeleteRow(s) \/ CloseStep(s) \/ Rename(s)
      PROVE  UNCHANGED title
  BY <1>6 DEF DeleteRow, CloseStep, CloseAbort, CloseMark, CloseCheck, CloseCapture,
     CloseWait, CloseTimeout, DeleteEmit, Rename, titleVars
<1>7. ASSUME StopStep PROVE UNCHANGED title
  BY <1>7 DEF StopStep, StopCollect, StopCancel, StopScan, StopCapture, StopWaited,
     StopTitles, StopDeadline, titleVars
<1> QED BY <1>1, <1>2, <1>3, <1>4, <1>5, <1>6, <1>7 DEF Next, vars, titleVars

LEMMA StopFrame ==
  ASSUME TypeOK, [Next]_vars, StopInv, stop' = stop PROVE StopInv'
BY TurnsGoOn, TitlesOfTheOver DEF StopInv, TypeOK

LEMMA StopMoves ==
  ASSUME TypeOK, FlagInv, StopInv, [Next]_vars, StopStep PROVE StopInv'
<1>a. \A u : (Started(u)' <=> Started(u)) /\ (Over(u)' <=> Over(u))
  BY OthersLeaveTurns DEF turnVars, Started, Over, Holding
<1>b. stop \in StopRecord BY DEF TypeOK, StopRecord
<1> USE DEF StopInv, StopRecord, Stop
<1>1. CASE StopCollect
  <2>1. stop'.turns = Owners /\ stop'.at = "cancelling"
    BY <1>1, <1>b DEF StopCollect
  <2>2. \A t \in Owners : Started(t) BY OwnersHaveStarted DEF Owners
  <2> QED BY <1>a, <2>1, <2>2
<1>2. CASE StopCancel
  <2>1. stop'.turns = stop.turns /\ stop'.at = "draining" BY <1>2, <1>b DEF StopCancel
  <2> QED BY <1>a, <2>1
<1>3. CASE StopScan
  <2>1. /\ stop'.turns = stop.turns
        /\ stop'.at = IF Owners = {} THEN "titles" ELSE "waiting"
    BY <1>3, <1>b DEF StopScan
  <2>2. ASSUME Owners = {}, NEW t \in stop.turns PROVE Over(t)
    <3>1. t \in Turn /\ t # NoTurn /\ Of(t) \in Session
      BY <1>b, EngineAssumption DEF Of
    <3>2. busy[Of(t)] # t BY <2>2, <3>1 DEF Owners
    <3> QED BY <2>2, <3>1, <3>2, StartedOwnsOrIsOver
  <2> QED BY <1>a, <2>1, <2>2
<1>4. CASE StopCapture
  <2>1. stop'.turns = stop.turns /\ stop'.at \in {"waiting", "draining"}
    BY <1>4, <1>b DEF StopCapture
  <2> QED BY <1>a, <2>1
<1>5. CASE StopWaited
  <2>1. stop'.turns = stop.turns /\ stop'.at = "waiting" BY <1>5, <1>b DEF StopWaited
  <2> QED BY <1>a, <2>1
<1>6. CASE StopTitles
  <2>1. stop'.turns = stop.turns /\ stop.at = "titles" BY <1>6, <1>b DEF StopTitles
  <2>2. \A t \in stop.turns : ~TitleRuns(t)'
    BY <1>6, <1>b DEF StopTitles, TitleRuns, titleVars
  <2>3. stop'.at = "down" BY <1>6, <1>b DEF StopTitles
  <2> QED BY <1>a, <2>1, <2>2, <2>3
<1>7. CASE StopDeadline
  <2>1. stop'.turns = stop.turns /\ stop'.at = "down" /\ stop'.expired
    BY <1>7, <1>b DEF StopDeadline
  <2> QED BY <1>a, <2>1
<1> QED BY <1>1, <1>2, <1>3, <1>4, <1>5, <1>6, <1>7 DEF StopStep

LEMMA OthersLeaveStop == ASSUME [Next]_vars, ~StopStep PROVE stop' = stop
<1>1. CASE UNCHANGED vars BY <1>1 DEF vars
<1>2. ASSUME NEW t \in Turn, TurnStep(t) \/ ModelStep(t) \/ TitleStep(t)
      PROVE  stop' = stop
  BY <1>2 DEF TurnStep, ModelStep, TitleStep, SendLookup, SendClaim, SendPersist,
     SendPublish, SendFiles, SendTitle, TurnBusy, TurnLoad, RoundBegin, RoundContent,
     RoundEnd, RoundAborted, TurnSurface, TurnIdle, TurnRelease, Emit, TitleStream,
     TitleWrite, TitleOffer, TitleEmit, TitleLeave
<1>3. ASSUME NEW a \in Aborter, AbortStep(a) \/ \E s \in Session : AbortCall(a, s)
      PROVE  stop' = stop
  BY <1>3 DEF AbortStep, AbortCall, AbortCapture, AbortSettled, AbortTimeout, AbortReturn
<1>4. ASSUME NEW s \in Session, DeleteRow(s) \/ CloseStep(s) \/ Rename(s)
      PROVE  stop' = stop
  BY <1>4 DEF DeleteRow, CloseStep, CloseAbort, CloseMark, CloseCheck, CloseCapture,
     CloseWait, CloseTimeout, DeleteEmit, Rename
<1> QED BY <1>1, <1>2, <1>3, <1>4 DEF Next

LEMMA StopNext == TypeOK /\ FlagInv /\ StopInv /\ [Next]_vars => StopInv'
BY StopFrame, StopMoves, OthersLeaveStop

\* A Shutdown that returned before its deadline has drained every turn it
\* cancelled, and the titles of these.
THEOREM ShutdownDrainsSafety == Spec => []ShutdownDrains
<1>1. StopInv => ShutdownDrains
  BY OverIsNotHolding DEF StopInv, ShutdownDrains
<1>2. Spec => []StopInv
  BY StopInit, StopNext, FlagSafety, PTL DEF Spec
<1> QED BY <1>1, <1>2, PTL

-----------------------------------------------------------------------------
(***************************************************************************)
(* What clients see of the flag.  The owner of a session carries the       *)
(* status: it is idle until the owner's busy is out, busy until its idle   *)
(* is, and idle whenever nobody owns the session.  A deleted session's     *)
(* events are suppressed, so nothing is claimed for it.                    *)
(***************************************************************************)
EarlyAt == {"claimed", "saved", "published", "filed", "spawned"}
MidAt == {"running", "streaming", "ending", "surfaced"}
Shows(s, status) == s \in deleted \/ shown[s] = status

StatusOf(t) ==
  /\ ~Holding(t) => out[t] = NoEvent
  /\ pc[t] \in EarlyAt => out[t] \notin {"busy", "idle"} /\ Shows(Of(t), "idle")
  /\ pc[t] = "loading" => \/ out[t] = "busy" /\ shown[Of(t)] = "idle"
                          \/ out[t] = NoEvent /\ Shows(Of(t), "busy")
  /\ pc[t] \in MidAt => out[t] \notin {"busy", "idle"} /\ Shows(Of(t), "busy")
  /\ pc[t] = "idling" => \/ out[t] = "idle" /\ shown[Of(t)] = "busy"
                         \/ out[t] = NoEvent /\ Shows(Of(t), "idle")
FreeShowsIdle == \A s \in Session : busy[s] = NoTurn => Shows(s, "idle")
StatusInv == (\A t \in Turn : StatusOf(t)) /\ FreeShowsIdle

LEMMA StatusInit == Init => StatusInv
BY DEF Init, StatusInv, StatusOf, FreeShowsIdle, Shows, Holding, EarlyAt, MidAt, Of,
   EngineAssumption

\* A step of a turn that publishes nothing yet.
LEMMA StatusMoves ==
  ASSUME TypeOK, StatusInv, NEW t \in Turn, UNCHANGED <<shown, deleted>>,
         \A u \in Turn \ {t} : pc'[u] = pc[u] /\ out'[u] = out[u],
         \A s \in Session : busy'[s] = NoTurn => busy[s] = NoTurn \/ Shows(s, "idle"),
         StatusOf(t)'
  PROVE  StatusInv'
<1>1. ASSUME NEW u \in Turn PROVE StatusOf(u)'
  BY DEF StatusInv, StatusOf, Shows, Holding, Of
<1>2. FreeShowsIdle'
  BY DEF StatusInv, FreeShowsIdle, Shows
<1> QED BY <1>1, <1>2 DEF StatusInv

\* Such a step that does not give the flag back, in terms of its own variables.
LEMMA StatusSteps ==
  ASSUME TypeOK, StatusInv, NEW t \in Turn, NEW where, NEW event,
         UNCHANGED <<shown, deleted, busy>>,
         pc' = [pc EXCEPT ![t] = where], out' = [out EXCEPT ![t] = event],
         \/ /\ pc[t] \in EarlyAt /\ where \in EarlyAt
            /\ event \notin {"busy", "idle"}
         \/ pc[t] \in MidAt /\ where \in MidAt /\ event \notin {"busy", "idle"}
         \/ /\ pc[t] = "loading" /\ out[t] = NoEvent
            /\ where \in MidAt /\ event = NoEvent
  PROVE  StatusInv'
<1>1. pc'[t] = where /\ out'[t] = event BY DEF TypeOK
<1>2. StatusOf(t) BY DEF StatusInv
<1>3. StatusOf(t)'
  BY <1>1, <1>2 DEF StatusOf, Shows, Holding, Of, EarlyAt, MidAt, NoEvent
<1>4. \A u \in Turn \ {t} : pc'[u] = pc[u] /\ out'[u] = out[u] BY DEF TypeOK
<1> QED BY <1>3, <1>4, StatusMoves

\* Such a step that gives the flag back: the session shows idle by then.
LEMMA StatusEnds ==
  ASSUME TypeOK, StatusInv, NEW t \in Turn, NEW where \in OverAt,
         UNCHANGED <<shown, deleted, out>>, EndTurn(t), Goto(t, where),
         out[t] = NoEvent, pc[t] \in EarlyAt \cup {"idling"}
  PROVE  StatusInv'
<1> USE DEF TypeOK, Goto
<1>1. pc'[t] = where OBVIOUS
<1>2. Shows(Of(t), "idle")
  BY DEF StatusInv, StatusOf, NoEvent
<1>3. StatusOf(t)'
  BY <1>1 DEF StatusOf, Holding, EarlyAt, MidAt, OverAt
<1>4. \A s \in Session : busy'[s] = NoTurn => busy[s] = NoTurn \/ Shows(s, "idle")
  BY <1>2 DEF EndTurn
<1>5. \A u \in Turn \ {t} : pc'[u] = pc[u] /\ out'[u] = out[u] OBVIOUS
<1> QED BY <1>3, <1>4, <1>5, StatusMoves

LEMMA StatusSend ==
  ASSUME TypeOK, FlagInv, StatusInv, NEW t \in Turn,
         SendLookup(t) \/ SendClaim(t) \/ SendPersist(t) \/ SendPublish(t)
         \/ SendFiles(t) \/ SendTitle(t)
  PROVE  StatusInv'
<1> USE DEF At, Goto, wireVars, closeVars
<1>0. out = [out EXCEPT ![t] = out[t]] BY DEF TypeOK
<1>1. CASE SendLookup(t)
  <2>1. PICK where \in {"checked", "refused"} : Goto(t, where) BY <1>1 DEF SendLookup
  <2>2. pc'[t] = where /\ \A u \in Turn \ {t} : pc'[u] = pc[u] BY <2>1 DEF TypeOK
  <2>3. UNCHANGED <<out, busy, shown, deleted>> /\ out[t] = NoEvent BY <1>1 DEF SendLookup
  <2>4. StatusOf(t)' BY <2>2, <2>3 DEF StatusOf, Holding, EarlyAt, MidAt
  <2> QED BY <2>2, <2>3, <2>4, StatusMoves
<1>2. CASE SendClaim(t)
  <2>1. /\ UNCHANGED <<out, shown, deleted>> /\ out[t] = NoEvent
        /\ Of(t) \in Session
    BY <1>2, EngineAssumption DEF SendClaim, Of
  <2>2. CASE Free(t)
    <3>1. /\ pc'[t] = "claimed" /\ \A u \in Turn \ {t} : pc'[u] = pc[u]
          /\ \A s \in Session : busy'[s] = IF s = Of(t) THEN t ELSE busy[s]
      BY <1>2, <2>2 DEF SendClaim, TypeOK
    <3>2. Shows(Of(t), "idle") BY <2>1, <2>2 DEF Free, StatusInv, FreeShowsIdle
    <3>3. StatusOf(t)'
      BY <2>1, <3>1, <3>2 DEF StatusOf, Holding, EarlyAt, MidAt, Shows, Of, NoEvent
    <3> QED BY <2>1, <3>1, <3>3, StatusMoves, EngineAssumption
  <2>3. CASE ~Free(t)
    <3>1. /\ pc'[t] = "refused" /\ \A u \in Turn \ {t} : pc'[u] = pc[u]
          /\ UNCHANGED busy
      BY <1>2, <2>3 DEF SendClaim, TypeOK
    <3>2. StatusOf(t)' BY <2>1, <3>1 DEF StatusOf, Holding, EarlyAt, MidAt
    <3> QED BY <2>1, <3>1, <3>2, StatusMoves
  <2> QED BY <2>2, <2>3
<1>3. CASE SendPersist(t)
  BY <1>0, <1>3, StatusSteps, StatusEnds DEF SendPersist, EarlyAt, OverAt, NoEvent
<1>4. CASE SendPublish(t)
  BY <1>4, StatusSteps DEF SendPublish, Offer, EarlyAt, NoEvent
<1>5. CASE SendFiles(t)
  BY <1>0, <1>5, StatusSteps, StatusEnds DEF SendFiles, EarlyAt, OverAt, NoEvent
<1>6. CASE SendTitle(t)
  BY <1>0, <1>6, StatusSteps DEF SendTitle, EarlyAt, NoEvent
<1> QED BY <1>1, <1>2, <1>3, <1>4, <1>5, <1>6

LEMMA StatusTurn ==
  ASSUME TypeOK, FlagInv, StatusInv, NEW t \in Turn,
         TurnBusy(t) \/ TurnLoad(t) \/ RoundBegin(t) \/ RoundContent(t) \/ RoundEnd(t)
         \/ RoundAborted(t) \/ TurnSurface(t) \/ TurnIdle(t) \/ TurnRelease(t)
  PROVE  StatusInv'
<1> USE DEF At, Goto, wireVars, closeVars
<1>0. /\ out = [out EXCEPT ![t] = out[t]] /\ pc = [pc EXCEPT ![t] = pc[t]]
      /\ StatusOf(t)
  BY DEF TypeOK, StatusInv
<1>1. CASE TurnBusy(t)
  <2>1. /\ pc'[t] = "loading" /\ out'[t] = IF Suppressed(t) THEN NoEvent ELSE "busy"
        /\ \A u \in Turn \ {t} : pc'[u] = pc[u] /\ out'[u] = out[u]
        /\ UNCHANGED <<shown, deleted, busy>>
    BY <1>1 DEF TurnBusy, Offer, TypeOK
  <2>2. Shows(Of(t), "idle") BY <1>0, <1>1 DEF TurnBusy, StatusOf, EarlyAt
  <2>3. /\ Suppressed(t) => out'[t] = NoEvent /\ Of(t) \in deleted'
        /\ ~Suppressed(t) => out'[t] = "busy" /\ shown'[Of(t)] = "idle"
    BY <2>1, <2>2 DEF Suppressed, Shows
  <2>4. StatusOf(t)'
    BY <2>1, <2>3 DEF StatusOf, Shows, Holding, EarlyAt, MidAt, Of
  <2> QED BY <2>1, <2>4, StatusMoves
<1>2. CASE TurnLoad(t)
  BY <1>0, <1>2, StatusSteps DEF TurnLoad, Finish, MidAt, NoEvent
<1>3. CASE RoundBegin(t)
  BY <1>0, <1>3, StatusSteps DEF RoundBegin, Finish, Offer, MidAt, NoEvent
<1>4. CASE RoundContent(t)
  BY <1>0, <1>4, StatusSteps DEF RoundContent, Offer, MidAt, NoEvent
<1>5. CASE RoundEnd(t)
  BY <1>0, <1>5, StatusSteps DEF RoundEnd, Finish, MidAt, NoEvent
<1>6. CASE RoundAborted(t)
  BY <1>0, <1>6, StatusSteps DEF RoundAborted, Finish, MidAt, NoEvent
<1>7. CASE TurnSurface(t)
  BY <1>0, <1>7, StatusSteps DEF TurnSurface, Offer, MidAt, NoEvent
<1>8. CASE TurnIdle(t)
  <2>1. /\ pc'[t] = "idling" /\ out'[t] = IF Suppressed(t) THEN NoEvent ELSE "idle"
        /\ \A u \in Turn \ {t} : pc'[u] = pc[u] /\ out'[u] = out[u]
        /\ UNCHANGED <<shown, deleted, busy>>
    BY <1>8 DEF TurnIdle, Offer, TypeOK
  <2>2. Shows(Of(t), "busy") BY <1>0, <1>8 DEF TurnIdle, StatusOf, MidAt
  <2>3. /\ Suppressed(t) => out'[t] = NoEvent /\ Of(t) \in deleted'
        /\ ~Suppressed(t) => out'[t] = "idle" /\ shown'[Of(t)] = "busy"
    BY <2>1, <2>2 DEF Suppressed, Shows
  <2>4. StatusOf(t)'
    BY <2>1, <2>3 DEF StatusOf, Shows, Holding, EarlyAt, MidAt, Of
  <2> QED BY <2>1, <2>4, StatusMoves
<1>9. CASE TurnRelease(t)
  BY <1>9, StatusEnds DEF TurnRelease, OverAt
<1> QED BY <1>1, <1>2, <1>3, <1>4, <1>5, <1>6, <1>7, <1>8, <1>9

\* The one step that changes what is shown: it is the owner's.
LEMMA StatusEmit ==
  ASSUME TypeOK, FlagInv, StatusInv, NEW t \in Turn, Emit(t) PROVE StatusInv'
<1> USE EngineAssumption DEF Of
<1>1. /\ out[t] # NoEvent /\ UNCHANGED <<pc, busy, deleted>>
      /\ out'[t] = NoEvent /\ \A u \in Turn \ {t} : out'[u] = out[u]
      /\ \A s \in Session : shown'[s] = IF s = Of(t) /\ out[t] \in {"busy", "idle"}
                                       THEN out[t] ELSE shown[s]
  BY DEF Emit, TypeOK, turnVars, closeVars
<1>2. Holding(t) /\ StatusOf(t) BY <1>1 DEF StatusInv, StatusOf
<1>3. \A u \in Turn : Holding(u) /\ u # t => Of(u) # Of(t)
  BY <1>2 DEF FlagInv, FlagMatchesTurn
<1>4. ASSUME NEW u \in Turn PROVE StatusOf(u)'
  <2>1. CASE u = t
    <3>1. pc[t] \in EarlyAt \cup MidAt \cup {"loading", "idling"}
      BY <1>2 DEF Holding, EarlyAt, MidAt
    <3> QED BY <1>1, <1>2, <2>1, <3>1
          DEF StatusOf, Shows, Holding, EarlyAt, MidAt, NoEvent
  <2>2. CASE u # t
    <3>1. StatusOf(u) BY DEF StatusInv
    <3> QED BY <1>1, <1>3, <2>2, <3>1 DEF StatusOf, Shows, Holding, EarlyAt, MidAt
  <2> QED BY <2>1, <2>2
<1>5. FreeShowsIdle'
  <2>1. busy[Of(t)] = t BY <1>2 DEF FlagInv, FlagMatchesTurn
  <2> QED BY <1>1, <2>1 DEF StatusInv, FreeShowsIdle, Shows
<1> QED BY <1>4, <1>5 DEF StatusInv

\* Deleted sessions stay deleted; nobody else shows anything.
LEMMA OthersShowNothing ==
  ASSUME \/ \E t \in Turn : TitleStep(t)
         \/ \E a \in Aborter : AbortStep(a) \/ \E s \in Session : AbortCall(a, s)
         \/ \E s \in Session : DeleteRow(s) \/ CloseStep(s) \/ Rename(s)
         \/ StopStep
  PROVE  shown' = shown /\ deleted \subseteq deleted'
<1> USE DEF wireVars, closeVars
<1>1. ASSUME NEW t \in Turn, TitleStep(t) PROVE shown' = shown /\ deleted' = deleted
  BY <1>1 DEF TitleStep, TitleStream, TitleWrite, TitleOffer, TitleEmit, TitleLeave
<1>2. ASSUME NEW a \in Aborter, AbortStep(a) \/ \E s \in Session : AbortCall(a, s)
      PROVE  shown' = shown /\ deleted' = deleted
  BY <1>2 DEF AbortStep, AbortCall, AbortCapture, AbortSettled, AbortTimeout, AbortReturn
<1>3. ASSUME NEW s \in Session, DeleteRow(s) \/ CloseStep(s) \/ Rename(s)
      PROVE  shown' = shown /\ deleted \subseteq deleted'
  BY <1>3 DEF DeleteRow, CloseStep, CloseAbort, CloseMark, CloseCheck, CloseCapture,
     CloseWait, CloseTimeout, DeleteEmit, Rename
<1>4. ASSUME StopStep PROVE shown' = shown /\ deleted' = deleted
  BY <1>4 DEF StopStep, StopCollect, StopCancel, StopScan, StopCapture, StopWaited,
     StopTitles, StopDeadline
<1> QED BY <1>1, <1>2, <1>3, <1>4

LEMMA StatusFrame ==
  ASSUME StatusInv, UNCHANGED <<pc, out, busy, shown>>, deleted \subseteq deleted'
  PROVE  StatusInv'
BY DEF StatusInv, StatusOf, FreeShowsIdle, Shows, Holding, Of

LEMMA StatusNext == TypeOK /\ FlagInv /\ StatusInv /\ [Next]_vars => StatusInv'
<1> SUFFICES ASSUME TypeOK, FlagInv, StatusInv, [Next]_vars PROVE StatusInv' OBVIOUS
<1>1. CASE UNCHANGED vars
  BY <1>1, StatusFrame DEF vars, turnVars, wireVars, closeVars
<1>2. ASSUME NEW t \in Turn, TurnStep(t) \/ ModelStep(t) PROVE StatusInv'
  BY <1>2, StatusSend, StatusTurn, StatusEmit DEF TurnStep, ModelStep
<1>3. CASE ~(\E t \in Turn : TurnStep(t) \/ ModelStep(t)) /\ ~UNCHANGED vars
  BY <1>3, StatusFrame, OthersLeaveTurns, OthersShowNothing DEF Next, turnVars
<1> QED BY <1>1, <1>2, <1>3

LEMMA StatusSafety == Spec => []StatusInv
BY StatusInit, StatusNext, FlagSafety, PTL DEF Spec

\* Every status event is news: busy follows idle and idle follows busy.
THEOREM StatusAlternatesSafety == Spec => []StatusAlternates
<1>1. TypeOK /\ StatusInv => StatusAlternates
  <2> SUFFICES ASSUME StatusInv, NEW t \in Turn, out[t] \in {"busy", "idle"}
               PROVE  shown[Of(t)] # out[t]
    BY DEF StatusAlternates
  <2>1. StatusOf(t) BY DEF StatusInv
  <2> QED BY <2>1 DEF StatusOf, Holding, EarlyAt, MidAt, NoEvent
<1> QED BY <1>1, StatusSafety, FlagSafety, PTL

\* No client is left looking at a busy session that nobody owns.
THEOREM NoStuckBusySafety == Spec => []NoStuckBusy
<1>1. StatusInv => NoStuckBusy
  BY DEF StatusInv, FreeShowsIdle, Shows, NoStuckBusy
<1> QED BY <1>1, StatusSafety, PTL

-----------------------------------------------------------------------------
(***************************************************************************)
(* Errors surface.  The error event is offered before idle is, and only    *)
(* suppressed for a session whose row is gone: its row goes before it is   *)
(* marked deleted.                                                         *)
(***************************************************************************)
RowGone == \A s \in Session : s \in deleted \/ del[s] # "none" => s \notin rows

Unlucky(t) ==
  /\ result[t] \in {"failed", "aborted"}
  /\ t \in begun
  /\ Of(t) \in rows
  /\ ~DbMayFail
SurfaceOf(t) ==
  /\ pc[t] = "surfaced" /\ Unlucky(t) => t \in surfaced \/ out[t] = "error"
  /\ pc[t] \in {"idling", "done"} /\ Unlucky(t) => t \in surfaced
SurfaceInv == RowGone /\ \A t \in Turn : SurfaceOf(t)

LEMMA SurfaceInit == Init => SurfaceInv
BY DEF Init, SurfaceInv, RowGone, SurfaceOf

\* A step that brings no turn nearer to its end.
LEMMA SurfaceFrame ==
  ASSUME SurfaceInv, UNCHANGED <<scenario, pc, result, begun, out>>,
         rows' \subseteq rows, surfaced \subseteq surfaced', RowGone'
  PROVE  SurfaceInv'
BY DEF SurfaceInv, SurfaceOf, Unlucky, DbMayFail, Of

LEMMA SurfaceMoves ==
  ASSUME TypeOK, SurfaceInv, NEW t \in Turn,
         UNCHANGED <<scenario, rows, deleted, del>>, surfaced \subseteq surfaced',
         \A u \in Turn \ {t} : /\ pc'[u] = pc[u] /\ result'[u] = result[u]
                              /\ out'[u] = out[u] /\ (u \in begun' <=> u \in begun),
         SurfaceOf(t)'
  PROVE  SurfaceInv'
<1>1. ASSUME NEW u \in Turn, u # t PROVE SurfaceOf(u)'
  BY <1>1 DEF SurfaceInv, SurfaceOf, Unlucky, DbMayFail, Of
<1>2. RowGone' BY DEF SurfaceInv, RowGone
<1> QED BY <1>1, <1>2 DEF SurfaceInv

LEMMA SurfaceSend ==
  ASSUME TypeOK, SurfaceInv, NEW t \in Turn, UNCHANGED scenario,
         SendLookup(t) \/ SendClaim(t) \/ SendPersist(t) \/ SendPublish(t)
         \/ SendFiles(t) \/ SendTitle(t)
  PROVE  SurfaceInv'
<1>1. /\ UNCHANGED <<result, begun, surfaced, rows, deleted, del>>
      /\ \E where \in {"checked", "refused", "claimed", "saved", "failed", "published",
                        "filed", "spawned"} : Goto(t, where)
      /\ out' = out \/ \E event : out' = [out EXCEPT ![t] = event]
  BY DEF SendLookup, SendClaim, SendPersist, SendPublish, SendFiles, SendTitle, Offer,
     storeVars, wireVars, closeVars
<1>2. pc'[t] \notin {"surfaced", "idling", "done"} BY <1>1 DEF Goto, TypeOK
<1>3. \A u \in Turn \ {t} : pc'[u] = pc[u] /\ out'[u] = out[u] BY <1>1 DEF Goto, TypeOK
<1>4. SurfaceOf(t)' BY <1>2 DEF SurfaceOf
<1> QED BY <1>1, <1>3, <1>4, SurfaceMoves

LEMMA SurfaceRound ==
  ASSUME TypeOK, SurfaceInv, NEW t \in Turn, UNCHANGED scenario,
         TurnBusy(t) \/ TurnLoad(t) \/ RoundBegin(t) \/ RoundContent(t) \/ RoundEnd(t)
         \/ RoundAborted(t)
  PROVE  SurfaceInv'
<1>1. /\ UNCHANGED <<surfaced, rows, deleted, del>>
      /\ begun' \in {begun, begun \cup {t}}
      /\ pc[t] \notin {"surfaced", "idling", "done"}
      /\ pc' = pc \/ \E where \in {"loading", "running", "streaming", "ending"} : Goto(t, where)
      /\ result' = result \/ \E r : result' = [result EXCEPT ![t] = r]
      /\ out' = out \/ \E event : out' = [out EXCEPT ![t] = event]
  BY DEF At, TurnBusy, TurnLoad, RoundBegin, RoundContent, RoundEnd, RoundAborted, Finish,
     Offer, storeVars, wireVars, closeVars
<1>2. pc'[t] \notin {"surfaced", "idling", "done"} BY <1>1 DEF Goto, TypeOK
<1>3. \A u \in Turn \ {t} : /\ pc'[u] = pc[u] /\ result'[u] = result[u]
                           /\ out'[u] = out[u]
  BY <1>1 DEF Goto, TypeOK
<1>4. SurfaceOf(t)' BY <1>2 DEF SurfaceOf
<1> QED BY <1>1, <1>3, <1>4, SurfaceMoves

LEMMA SurfaceEnd ==
  ASSUME TypeOK, SurfaceInv, NEW t \in Turn, UNCHANGED scenario,
         TurnSurface(t) \/ TurnIdle(t) \/ TurnRelease(t) \/ Emit(t)
  PROVE  SurfaceInv'
<1> USE DEF At, Goto, storeVars, wireVars, closeVars
<1>0. SurfaceOf(t) BY DEF SurfaceInv
<1>1. CASE TurnSurface(t)
  <2>1. /\ pc'[t] = "surfaced" /\ UNCHANGED <<result, begun, surfaced, rows, deleted, del>>
        /\ \A u \in Turn \ {t} : pc'[u] = pc[u] /\ out'[u] = out[u]
    BY <1>1 DEF TurnSurface, Offer, TypeOK
  <2>2. ASSUME Unlucky(t) PROVE out'[t] = "error"
    <3>1. Offer(t, "error") BY <1>1, <2>2 DEF TurnSurface, Unlucky
    <3>2. ~Suppressed(t)
      BY <2>2, EngineAssumption DEF SurfaceInv, RowGone, Unlucky, Suppressed, Of
    <3> QED BY <3>1, <3>2 DEF Offer, TypeOK
  <2>3. Unlucky(t)' <=> Unlucky(t) BY <2>1 DEF Unlucky, DbMayFail, Of
  <2>4. SurfaceOf(t)' BY <2>1, <2>2, <2>3 DEF SurfaceOf
  <2> QED BY <2>1, <2>4, SurfaceMoves
<1>2. CASE TurnIdle(t)
  <2>1. /\ pc'[t] = "idling" /\ UNCHANGED <<result, begun, surfaced, rows, deleted, del>>
        /\ \A u \in Turn \ {t} : pc'[u] = pc[u] /\ out'[u] = out[u]
        /\ pc[t] = "surfaced" /\ out[t] = NoEvent
    BY <1>2 DEF TurnIdle, Offer, TypeOK
  <2>2. SurfaceOf(t)'
    BY <1>0, <2>1 DEF SurfaceOf, Unlucky, DbMayFail, Of, NoEvent
  <2> QED BY <2>1, <2>2, SurfaceMoves
<1>3. CASE TurnRelease(t)
  <2>1. /\ pc'[t] = "done" /\ pc[t] = "idling"
        /\ UNCHANGED <<result, begun, out, surfaced, rows, deleted, del>>
        /\ \A u \in Turn \ {t} : pc'[u] = pc[u]
    BY <1>3 DEF TurnRelease, TypeOK
  <2>2. SurfaceOf(t)' BY <1>0, <2>1 DEF SurfaceOf, Unlucky, DbMayFail, Of
  <2> QED BY <2>1, <2>2, SurfaceMoves
<1>4. CASE Emit(t)
  <2>1. /\ UNCHANGED <<pc, result, begun, rows, deleted, del>>
        /\ surfaced' = IF out[t] = "error" THEN surfaced \cup {t} ELSE surfaced
        /\ \A u \in Turn \ {t} : out'[u] = out[u]
    BY <1>4 DEF Emit, TypeOK
  <2>2. SurfaceOf(t)' BY <1>0, <2>1 DEF SurfaceOf, Unlucky, DbMayFail, Of
  <2> QED BY <2>1, <2>2, SurfaceMoves
<1> QED BY <1>1, <1>2, <1>3, <1>4

\* The others leave the turns and what surfaced alone; a DELETE takes the row
\* before anything else.
LEMMA SurfaceOthers ==
  ASSUME TypeOK, SurfaceInv, UNCHANGED scenario,
         \/ \E t \in Turn : TitleStep(t)
         \/ \E a \in Aborter : AbortStep(a) \/ \E s \in Session : AbortCall(a, s)
         \/ \E s \in Session : DeleteRow(s) \/ CloseStep(s) \/ Rename(s)
         \/ StopStep
  PROVE  SurfaceInv'
<1> USE DEF storeVars, wireVars, closeVars
<1>0. UNCHANGED turnVars BY OthersLeaveTurns
<1>1. ASSUME NEW t \in Turn, TitleStep(t)
      PROVE  UNCHANGED <<rows, surfaced, deleted, del>>
  BY <1>1 DEF TitleStep, TitleStream, TitleWrite, TitleOffer, TitleEmit, TitleLeave
<1>2. ASSUME NEW a \in Aborter, AbortStep(a) \/ \E s \in Session : AbortCall(a, s)
      PROVE  UNCHANGED <<rows, surfaced, deleted, del>>
  BY <1>2 DEF AbortStep, AbortCall, AbortCapture, AbortSettled, AbortTimeout, AbortReturn
<1>3. ASSUME NEW s \in Session, DeleteRow(s) \/ CloseStep(s) \/ Rename(s)
      PROVE  rows' \subseteq rows /\ surfaced' = surfaced /\ RowGone'
  <2>1. CASE DeleteRow(s)
    BY <2>1 DEF DeleteRow, DelGoto, SurfaceInv, RowGone, TypeOK
  <2>2. CASE CloseStep(s)
    <3>1. /\ UNCHANGED <<rows, surfaced>>
          /\ del[s] # "none"
          /\ deleted' \in {deleted, deleted \cup {s}}
          /\ \E where : DelGoto(s, where)
      BY <2>2 DEF CloseStep, CloseAbort, CloseMark, CloseCheck, CloseCapture, CloseWait,
         CloseTimeout, DeleteEmit
    <3> QED BY <3>1 DEF SurfaceInv, RowGone, DelGoto, TypeOK
  <2>3. CASE Rename(s)
    BY <2>3 DEF Rename, SurfaceInv, RowGone
  <2> QED BY <1>3, <2>1, <2>2, <2>3
<1>4. ASSUME StopStep PROVE UNCHANGED <<rows, surfaced, deleted, del>>
  BY <1>4 DEF StopStep, StopCollect, StopCancel, StopScan, StopCapture, StopWaited,
     StopTitles, StopDeadline
<1>5. ASSUME UNCHANGED <<rows, deleted, del>> PROVE RowGone'
  BY <1>5 DEF SurfaceInv, RowGone
<1>6. rows' \subseteq rows /\ surfaced' = surfaced /\ RowGone'
  BY <1>1, <1>2, <1>3, <1>4, <1>5
<1> QED BY <1>0, <1>6, SurfaceFrame DEF turnVars

LEMMA SurfaceNext == TypeOK /\ SurfaceInv /\ [Next]_vars => SurfaceInv'
<1> SUFFICES ASSUME TypeOK, SurfaceInv, [Next]_vars PROVE SurfaceInv' OBVIOUS
<1>1. CASE UNCHANGED vars
  <2>1. RowGone' BY <1>1 DEF vars, storeVars, closeVars, SurfaceInv, RowGone
  <2> QED BY <1>1, <2>1, SurfaceFrame DEF vars, turnVars, storeVars, wireVars
<1>2. ASSUME NEW t \in Turn, TurnStep(t) \/ ModelStep(t), UNCHANGED scenario
      PROVE  SurfaceInv'
  BY <1>2, SurfaceSend, SurfaceRound, SurfaceEnd DEF TurnStep, ModelStep
<1> QED BY <1>1, <1>2, SurfaceOthers DEF Next

\* A failed or aborted turn with a round has shown its error before it shows
\* idle, unless statements fail or its session is deleted.
THEOREM ErrorsSurfaceSafety == Spec => []ErrorsSurface
<1>1. SurfaceInv => ErrorsSurface
  BY DEF SurfaceInv, SurfaceOf, Unlucky, ErrorsSurface
<1> QED BY <1>1, SurfaceInit, SurfaceNext, TypeInit, TypeNext, PTL DEF Spec

-----------------------------------------------------------------------------
\* A running title that no later one replaced is the one whose cancel is tracked,
\* whichever titles of earlier turns of its session end meanwhile.
THEOREM TitleStaysCancellableSafety == Spec => []TitleStaysCancellable
<1>1. Init => TitleStaysCancellable BY DEF Init, TitleStaysCancellable, TitleRuns
<1>2. ASSUME TypeOK, TitleStaysCancellable, [Next]_vars PROVE TitleStaysCancellable'
  <2>1. CASE UNCHANGED titleVars
    BY <1>2, <2>1 DEF TitleStaysCancellable, TitleRuns, titleVars
  <2>2. ASSUME NEW t \in Turn, SendTitle(t) PROVE TitleStaysCancellable'
    <3>1. CASE UNCHANGED <<title, titleCtx, replaced>>
      BY <1>2, <3>1 DEF TitleStaysCancellable, TitleRuns
    <3>2. CASE /\ title' = [title EXCEPT ![t] = "streaming"]
               /\ titleCtx' = [titleCtx EXCEPT ![Of(t)] = t]
               /\ replaced' = replaced \cup ({titleCtx[Of(t)]} \ {NoTurn})
      <4> SUFFICES ASSUME NEW u \in Turn, TitleRuns(u)', u \notin replaced'
                   PROVE  titleCtx'[Of(u)] = u
        BY DEF TitleStaysCancellable, Of
      <4>1. CASE u = t BY <1>2, <3>2, <4>1, EngineAssumption DEF TypeOK, Of
      <4>2. CASE u # t
        <5>1. titleCtx[Of(u)] = u
          BY <1>2, <3>2, <4>2 DEF TitleStaysCancellable, TitleRuns, TypeOK
        <5>2. Of(u) # Of(t) BY <3>2, <5>1, EngineAssumption
        <5> QED BY <1>2, <3>2, <5>1, <5>2, EngineAssumption DEF TypeOK, Of
      <4> QED BY <4>1, <4>2
    <3> QED BY <2>2, <3>1, <3>2 DEF SendTitle
  <2>3. ASSUME NEW t \in Turn, TitleStep(t) PROVE TitleStaysCancellable'
    <3>1. TitleRuns(t) /\ UNCHANGED replaced /\ \E x : TitleGoto(t, x)
      BY <2>3 DEF TitleStep, TitleStream, TitleWrite, TitleOffer, TitleEmit, TitleLeave,
         TitleRuns
    <3>2. \A u \in Turn \ {t} : title'[u] = title[u]
      BY <3>1 DEF TitleGoto, TypeOK
    <3>3. CASE TitleLeave(t)
      <4>1. /\ titleCtx' = [titleCtx EXCEPT ![Of(t)] = Dropped(t)]
            /\ title' = [title EXCEPT ![t] = "done"]
        BY <3>3 DEF TitleLeave, TitleGoto
      <4>2. ~TitleRuns(t)' BY <1>2, <4>1 DEF TitleRuns, TypeOK
      <4>3. ASSUME NEW u \in Turn \ {t}, titleCtx[Of(u)] = u PROVE titleCtx'[Of(u)] = u
        BY <1>2, <4>1, <4>3, EngineAssumption DEF Dropped, TypeOK, Of
      <4> QED BY <1>2, <3>1, <3>2, <4>2, <4>3 DEF TitleStaysCancellable, TitleRuns, Of
    <3>4. CASE ~TitleLeave(t)
      <4>1. UNCHANGED titleCtx
        BY <2>3, <3>4 DEF TitleStep, TitleStream, TitleWrite, TitleOffer, TitleEmit
      <4> QED BY <1>2, <3>1, <3>2, <4>1 DEF TitleStaysCancellable, TitleRuns
    <3> QED BY <3>3, <3>4
  <2>4. ASSUME NEW t \in Turn, TurnStep(t) \/ ModelStep(t), ~SendTitle(t)
        PROVE  UNCHANGED titleVars
    BY <2>4 DEF TurnStep, ModelStep, SendLookup, SendClaim, SendPersist, SendPublish,
       SendFiles, TurnBusy, TurnLoad, RoundBegin, RoundContent, RoundEnd, RoundAborted,
       TurnSurface, TurnIdle, TurnRelease, Emit, titleVars
  <2>5. ASSUME UNCHANGED <<title, titleCtx, replaced>> PROVE TitleStaysCancellable'
    BY <1>2, <2>5 DEF TitleStaysCancellable, TitleRuns
  <2>6. ASSUME NEW a \in Aborter, AbortStep(a) \/ \E x \in Session : AbortCall(a, x)
        PROVE  UNCHANGED <<title, titleCtx, replaced>>
    BY <2>6 DEF AbortStep, AbortCall, AbortCapture, AbortSettled, AbortTimeout,
       AbortReturn, titleVars
  <2>7. ASSUME NEW x \in Session, DeleteRow(x) \/ CloseStep(x) \/ Rename(x)
        PROVE  UNCHANGED <<title, titleCtx, replaced>>
    BY <2>7 DEF DeleteRow, CloseStep, CloseAbort, CloseMark, CloseCheck, CloseCapture,
       CloseWait, CloseTimeout, DeleteEmit, Rename, titleVars
  <2>8. ASSUME StopStep PROVE UNCHANGED <<title, titleCtx, replaced>>
    BY <2>8 DEF StopStep, StopCollect, StopCancel, StopScan, StopCapture, StopWaited,
       StopTitles, StopDeadline, titleVars
  <2>9. CASE UNCHANGED vars BY <2>1, <2>9 DEF vars
  <2> QED BY <1>2, <2>1, <2>2, <2>3, <2>4, <2>5, <2>6, <2>7, <2>8, <2>9 DEF Next
<1> QED BY <1>1, <1>2, TypeInit, TypeNext, PTL DEF Spec

=============================================================================
