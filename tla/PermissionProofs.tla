-------------------------- MODULE PermissionProofs --------------------------
(***************************************************************************)
(* Safety of the permission service for any number of requests, turns,     *)
(* sessions and concurrent repliers, and any rules.                        *)
(***************************************************************************)
EXTENDS Permission, TLAPS

(***************************************************************************)
(* The jobs an action starts are jobs.                                     *)
(***************************************************************************)
LEMMA JobsAreJobs ==
  ASSUME NEW r \in Req, NEW response
  PROVE  /\ AbortJob(r) \in Job
         /\ AnswerJob(r, response) \in Job
         /\ SweepJob(r, response) \in Job
<1>1. AbortJob(r) \in Job
  BY DEF AbortJob, Resolve, Job, Decision, Stored, Response
<1>2. AnswerJob(r, response) \in Job
  BY DEF AnswerJob, Resolve, Job, Decision, Stored, Response
<1>3. SweepJob(r, response) \in Job
  BY DEF SweepJob, Resolve, Job, Decision, Stored, Response
<1> QED BY <1>1, <1>2, <1>3

(***************************************************************************)
(* A sweep only takes parked requests of the same session; after "always", *)
(* only those whose permission and resources the answered request covers.  *)
(***************************************************************************)
LEMMA SweepsAreParked ==
  ASSUME NEW r, NEW response
  PROVE  /\ SweepSet(r, response) \subseteq pending
         /\ response = "always" =>
              \A e \in SweepSet(r, response) :
                /\ Session(e) = Session(r)
                /\ PermOf[e] = PermOf[r]
                /\ Covered(e, r)
BY DEF SweepSet, SessionPending

LEMMA DecisionsAreVerdicts ==
  ASSUME NEW r, NEW always
  PROVE  Evaluate(r) \in Verdict /\ DecisionFor(r, always) \in Verdict
BY DEF Evaluate, DecisionFor, Combine, Verdict

-----------------------------------------------------------------------------
LEMMA TypeInit == Init => TypeOK
BY DEF Init, TypeOK, Proc, NoJob, NoneRep, NoCall, None

LEMMA TypeResolve ==
  ASSUME TypeOK, NEW x \in Proc, ResolveStep(x) PROVE TypeOK'
<1> USE DEF askVars, replyVars
<1>0. job[x].stage # "none" => job[x] \in Job
  BY DEF TypeOK, NoJob
<1>1. CASE Claim(x)
  <2>1. job[x] \in Job BY <1>0, <1>1 DEF Claim
  <2>2. [job[x] EXCEPT !.stage = "store"] \in Job BY <2>1 DEF Job
  <2>3. job' \in [Proc -> {NoJob} \cup Job] BY <1>1, <2>2 DEF Claim, TypeOK
  <2>4. pending' \subseteq Req BY <1>1 DEF Claim, TypeOK
  <2> QED BY <1>1, <2>3, <2>4 DEF Claim, TypeOK
<1>2. CASE Store(x)
  <2>1. job[x] \in Job BY <1>0, <1>2 DEF Store
  <2>2. job' \in [Proc -> {NoJob} \cup Job]
    BY <1>2, <2>1 DEF Store, TypeOK, Job
  <2>3. row' \in [Req -> Stored \cup {"absent", "null"}]
    BY <1>2, <2>1 DEF Store, TypeOK, Job
  <2> QED BY <1>2, <2>2, <2>3 DEF Store, TypeOK
<1>3. CASE Publish(x)
  <2>1. job[x] \in Job BY <1>0, <1>3 DEF Publish
  <2>2. job' \in [Proc -> {NoJob} \cup Job]
    BY <1>3, <2>1 DEF Publish, TypeOK, Job
  <2>3. replied' \in [Req -> {NoneRep} \cup [reply : Response, auto : BOOLEAN]]
    BY <1>3, <2>1 DEF Publish, TypeOK, Job
  <2> QED BY <1>3, <2>2, <2>3 DEF Publish, TypeOK
<1>4. CASE Deliver(x)
  <2>1. job[x] \in Job BY <1>0, <1>4 DEF Deliver
  <2>2. job' \in [Proc -> {NoJob} \cup Job] BY <1>4 DEF Deliver, TypeOK
  <2>3. chan' \in [Req -> Decision \cup {None}]
    BY <1>4, <2>1 DEF Deliver, Sent, TypeOK, Job
  <2> QED BY <1>4, <2>2, <2>3 DEF Deliver, TypeOK
<1> QED BY <1>1, <1>2, <1>3, <1>4 DEF ResolveStep

LEMMA TypeAsk ==
  ASSUME TypeOK, NEW r \in Req, AskStep(r) PROVE TypeOK'
<1> USE DEF replyVars, None
<1>1. CASE Decide(r)
  <2>1. decision' \in [Req -> Verdict \cup {None}]
    BY <1>1, DecisionsAreVerdicts, SMTT(30) DEF Decide, TypeOK
  <2> QED BY <1>1, <2>1 DEF Decide, TypeOK
<1>2. CASE PersistDecided(r)
  <2>1. decision[r] \in Decision \cup {None}
    BY <1>2 DEF PersistDecided, TypeOK, Verdict, Decision
  <2> QED BY <1>2, <2>1 DEF PersistDecided, Return, StoredResponse, TypeOK, Stored, Decision
<1>3. CASE Register(r)
  BY <1>3 DEF Register, TypeOK
<1>4. CASE PersistPending(r)
  BY <1>4 DEF PersistPending, TypeOK
<1>5. CASE PersistPendingFails(r)
  BY <1>5 DEF PersistPendingFails, Return, Sent, TypeOK, Decision
<1>6. CASE PublishAsked(r)
  BY <1>6 DEF PublishAsked, TypeOK
<1>7. CASE Receive(r)
  BY <1>7 DEF Receive, Return, TypeOK
<1>8. CASE CtxDone(r)
  <2>1. job' \in [Proc -> {NoJob} \cup Job]
    BY <1>8, JobsAreJobs DEF CtxDone, TypeOK, Proc
  <2> QED BY <1>8, <2>1 DEF CtxDone, TypeOK
<1>9. CASE AbortReturn(r)
  BY <1>9 DEF AbortReturn, Return, TypeOK, Decision
<1> QED BY <1>1, <1>2, <1>3, <1>4, <1>5, <1>6, <1>7, <1>8, <1>9 DEF AskStep

LEMMA TypeReply ==
  ASSUME TypeOK, NEW p \in Replier, ReplyStep(p) PROVE TypeOK'
<1> USE DEF askVars
<1>1. CASE Snapshot(p)
  <2>1. SweepSet(call[p].req, call[p].response) \subseteq Req
    BY SweepsAreParked DEF TypeOK
  <2> QED BY <1>1, <2>1 DEF Snapshot, TypeOK
<1>2. CASE Sweep(p)
  <2>1. PICK r \in todo[p] : /\ todo' = [todo EXCEPT ![p] = @ \ {r}]
                             /\ job' = [job EXCEPT ![p] = SweepJob(r, call[p].response)]
    BY <1>2 DEF Sweep
  <2>2. r \in Req BY <2>1 DEF TypeOK
  <2>3. job' \in [Proc -> {NoJob} \cup Job]
    BY <2>1, <2>2, JobsAreJobs DEF TypeOK, Proc
  <2>4. todo' \in [Replier -> SUBSET Req] BY <2>1 DEF TypeOK
  <2> QED BY <1>2, <2>3, <2>4 DEF Sweep, TypeOK
<1>3. CASE ReplyReturn(p)
  BY <1>3 DEF ReplyReturn, TypeOK
<1> QED BY <1>1, <1>2, <1>3 DEF ReplyStep

LEMMA TypeLookup ==
  ASSUME TypeOK, NEW p \in Replier, NEW r \in Req, NEW response \in Response,
         ReplyLookup(p, r, response)
  PROVE  TypeOK'
<1>1. job' \in [Proc -> {NoJob} \cup Job]
  BY JobsAreJobs DEF ReplyLookup, TypeOK, Proc
<1>2. call' \in [Replier -> {NoCall} \cup Call]
  BY DEF ReplyLookup, TypeOK, Call
<1>3. said' \subseteq Req \X Response
  BY DEF ReplyLookup, TypeOK
<1>4. owed' \in [Replier -> SUBSET Req]
  BY SweepsAreParked DEF ReplyLookup, TypeOK
<1> QED BY <1>1, <1>2, <1>3, <1>4 DEF ReplyLookup, TypeOK, askVars

LEMMA TypeNext == TypeOK /\ [Next]_vars => TypeOK'
<1> SUFFICES ASSUME TypeOK, [Next]_vars PROVE TypeOK' OBVIOUS
<1>1. CASE UNCHANGED vars
  BY <1>1 DEF vars, askVars, replyVars, TypeOK
<1>2. ASSUME NEW t \in Thread, CancelTurn(t) PROVE TypeOK'
  BY <1>2 DEF CancelTurn, TypeOK, replyVars
<1> QED BY <1>1, <1>2, TypeResolve, TypeAsk, TypeReply, TypeLookup DEF Next

\* Every variable keeps its type; the stored and published responses are the
\* ones the schema and the wire know (permission/service.go).
THEOREM TypeSafety == Spec => []TypeOK
BY TypeInit, TypeNext, PTL DEF Spec

-----------------------------------------------------------------------------
(***************************************************************************)
(* One settler per request.  The claim in resolve is what makes it so: a   *)
(* request leaves the map once, and only Register puts it there, before    *)
(* anything was stored or published for it.                                *)
(***************************************************************************)
Unanswered == {"absent", "null"}

\* A parked request has been registered, and nothing has answered it.
ParkedInv ==
  \A r \in pending : /\ pc[r] \notin {"new", "decided"}
                     /\ row[r] \in Unanswered
                     /\ replied[r] = NoneRep

\* Before it is registered, and until its pending row is written, there is no
\* trace of a request.
FreshInv ==
  \A r \in Req : /\ pc[r] \in {"new", "decided"} => replied[r] = NoneRep
                 /\ pc[r] \in {"new", "decided", "registered"} => row[r] = "absent"

\* Whoever settles a request is alone and has not answered it yet.
SettlerInv ==
  \A r \in Req, x \in Proc : Settling(x, r) =>
    /\ r \notin pending
    /\ pc[r] \notin {"new", "decided"}
    /\ \A y \in Proc : Settling(y, r) => y = x
    /\ job[x].stage = "store" => row[r] \in Unanswered
    /\ job[x].stage # "deliver" => replied[r] = NoneRep

SettleInv == TypeOK /\ ParkedInv /\ FreshInv /\ SettlerInv

LEMMA SettleInit == Init => SettleInv
<1> SUFFICES ASSUME Init PROVE SettleInv OBVIOUS
<1>1. TypeOK BY TypeInit
<1>2. ParkedInv /\ FreshInv
  BY DEF Init, ParkedInv, FreshInv
<1>3. SettlerInv
  BY DEF Init, SettlerInv, Settling, NoJob
<1> QED BY <1>1, <1>2, <1>3 DEF SettleInv

\* A step that leaves jobs, claims and answers alone keeps the settlers.
LEMMA SettlersFrame ==
  ASSUME SettlerInv, UNCHANGED <<job, row, replied>>,
         pending' \subseteq pending,
         \A r \in Req : pc'[r] \in {"new", "decided"} => pc[r] \in {"new", "decided"}
  PROVE  SettlerInv'
BY DEF SettlerInv, Settling

\* Starting or dropping a job adds no settler: a job claims first.
LEMMA StartFrame ==
  ASSUME SettlerInv, TypeOK, NEW z \in Proc, NEW j,
         job' = [job EXCEPT ![z] = j], j.stage \in {"claim", "none"},
         UNCHANGED <<row, replied, pending>>,
         \A r \in Req : pc'[r] \in {"new", "decided"} => pc[r] \in {"new", "decided"}
  PROVE  SettlerInv'
<1> SUFFICES ASSUME NEW r \in Req, NEW x \in Proc, Settling(x, r)'
             PROVE  /\ r \notin pending
                    /\ pc'[r] \notin {"new", "decided"}
                    /\ \A y \in Proc : Settling(y, r)' => y = x
                    /\ job'[x].stage = "store" => row[r] \in Unanswered
                    /\ job'[x].stage # "deliver" => replied[r] = NoneRep
  BY DEF SettlerInv
<1>1. \A y \in Proc : Settling(y, r)' => y # z /\ job'[y] = job[y] /\ Settling(y, r)
  BY DEF Settling, TypeOK
<1> QED BY <1>1 DEF SettlerInv

LEMMA SettleResolve ==
  ASSUME SettleInv, NEW z \in Proc, ResolveStep(z)
  PROVE  ParkedInv' /\ FreshInv' /\ SettlerInv'
<1> USE DEF SettleInv, askVars, replyVars
<1> DEFINE q == job[z].req
<1>0. job[z].stage # "none" => job[z] \in Job /\ q \in Req
  BY DEF TypeOK, NoJob, Job
<1>1. CASE Claim(z)
  <2>1. job[z] \in Job /\ q \in Req /\ job[z].stage = "claim"
    BY <1>0, <1>1 DEF Claim
  <2>2. ParkedInv' /\ FreshInv'
    BY <1>1 DEF Claim, ParkedInv, FreshInv
  <2>3. CASE q \in pending
    <3>1. job' = [job EXCEPT ![z] = [job[z] EXCEPT !.stage = "store"]]
      BY <1>1, <2>3 DEF Claim, Claims
    <3>2. \A y \in Proc : ~Settling(y, q)
      BY <2>3, <2>1 DEF SettlerInv
    <3>3. \A r \in Req, y \in Proc :
            Settling(y, r)' => \/ y = z /\ r = q /\ job'[y].stage = "store"
                               \/ y # z /\ r # q /\ Settling(y, r) /\ job'[y] = job[y]
      BY <3>1, <3>2, <2>1 DEF Settling, TypeOK, Job
    <3>4. row[q] \in Unanswered /\ replied[q] = NoneRep /\ pc[q] \notin {"new", "decided"}
      BY <2>3 DEF ParkedInv
    <3> QED BY <1>1, <2>2, <3>3, <3>4 DEF SettlerInv, Claim
  <2>4. CASE q \notin pending
    <3>1. job' = [job EXCEPT ![z] = NoJob] /\ pending' = pending
      BY <1>1, <2>4, <2>1 DEF Claim, Claims, TypeOK
    <3>2. SettlerInv'
      BY <1>1, <3>1, StartFrame DEF NoJob, Claim
    <3> QED BY <2>2, <3>2
  <2> QED BY <2>3, <2>4
<1>2. CASE Store(z)
  <2>1. job[z] \in Job /\ q \in Req /\ Settling(z, q) /\ job[z].stage = "store"
    BY <1>0, <1>2 DEF Store, Settling
  <2>2. /\ q \notin pending
        /\ pc[q] \notin {"new", "decided"}
        /\ row[q] \in Unanswered
        /\ replied[q] = NoneRep
        /\ \A y \in Proc : Settling(y, q) => y = z
    BY <2>1 DEF SettlerInv
  <2>3. \A r \in Req : r # q \/ row[r] = "absent" => row'[r] = row[r]
    BY <1>2 DEF Store, TypeOK
  <2>4. ParkedInv'
    BY <1>2, <2>2, <2>3 DEF Store, ParkedInv, TypeOK
  <2>5. FreshInv'
    BY <1>2, <2>2, <2>3 DEF Store, FreshInv
  <2>6. job' = [job EXCEPT ![z] = [job[z] EXCEPT !.stage = "publish"]]
    BY <1>2 DEF Store
  <2>7. \A r \in Req, y \in Proc :
          Settling(y, r)' => /\ Settling(y, r)
                             /\ \/ y = z /\ r = q /\ job'[y].stage = "publish"
                                \/ y # z /\ r # q /\ job'[y] = job[y]
    BY <2>1, <2>2, <2>6 DEF Settling, TypeOK, Job
  <2>8. SettlerInv'
    BY <1>2, <2>2, <2>3, <2>7 DEF SettlerInv, Store
  <2> QED BY <2>4, <2>5, <2>8
<1>3. CASE Publish(z)
  <2>1. job[z] \in Job /\ q \in Req /\ Settling(z, q) /\ job[z].stage = "publish"
    BY <1>0, <1>3 DEF Publish, Settling
  <2>2. /\ q \notin pending
        /\ pc[q] \notin {"new", "decided"}
        /\ \A y \in Proc : Settling(y, q) => y = z
    BY <2>1 DEF SettlerInv
  <2>3. \A r \in Req : r # q => replied'[r] = replied[r]
    BY <1>3 DEF Publish, TypeOK
  <2>4. ParkedInv'
    BY <1>3, <2>2, <2>3 DEF Publish, ParkedInv, TypeOK
  <2>5. FreshInv'
    BY <1>3, <2>2, <2>3 DEF Publish, FreshInv
  <2>6. job' = [job EXCEPT ![z] = [job[z] EXCEPT !.stage = "deliver"]]
    BY <1>3 DEF Publish
  <2>7. \A r \in Req, y \in Proc :
          Settling(y, r)' => /\ Settling(y, r)
                             /\ \/ y = z /\ r = q /\ job'[y].stage = "deliver"
                                \/ y # z /\ r # q /\ job'[y] = job[y]
    BY <2>1, <2>2, <2>6 DEF Settling, TypeOK, Job
  <2>8. SettlerInv'
    BY <1>3, <2>2, <2>3, <2>7 DEF SettlerInv, Publish
  <2> QED BY <2>4, <2>5, <2>8
<1>4. CASE Deliver(z)
  <2>1. ParkedInv' /\ FreshInv'
    BY <1>4 DEF Deliver, ParkedInv, FreshInv
  <2>2. SettlerInv'
    BY <1>4, StartFrame DEF Deliver, NoJob
  <2> QED BY <2>1, <2>2
<1> QED BY <1>1, <1>2, <1>3, <1>4 DEF ResolveStep

LEMMA SettleAsk ==
  ASSUME SettleInv, NEW q \in Req, AskStep(q)
  PROVE  ParkedInv' /\ FreshInv' /\ SettlerInv'
<1> USE DEF SettleInv, replyVars
<1>1. CASE Decide(q)
  <2>1. ParkedInv' /\ FreshInv'
    BY <1>1 DEF Decide, ParkedInv, FreshInv, TypeOK
  <2> QED BY <1>1, <2>1, SettlersFrame DEF Decide, TypeOK
<1>2. CASE PersistDecided(q)
  <2>1. q \notin pending /\ \A x \in Proc : ~Settling(x, q)
    BY <1>2 DEF PersistDecided, ParkedInv, SettlerInv
  <2>2. \A r \in Req : r # q => row'[r] = row[r] /\ pc'[r] = pc[r]
    BY <1>2 DEF PersistDecided, Return, TypeOK
  <2>3. pc'[q] = "done" /\ UNCHANGED <<pending, replied, job>>
    BY <1>2 DEF PersistDecided, Return, TypeOK
  <2>4. ParkedInv'
    BY <2>1, <2>2, <2>3 DEF ParkedInv, TypeOK
  <2>5. FreshInv'
    BY <2>2, <2>3 DEF FreshInv
  <2>6. SettlerInv'
    BY <2>1, <2>2, <2>3 DEF SettlerInv, Settling
  <2> QED BY <2>4, <2>5, <2>6
<1>3. CASE Register(q)
  <2>1. replied[q] = NoneRep /\ row[q] = "absent" /\ \A x \in Proc : ~Settling(x, q)
    BY <1>3 DEF Register, FreshInv, SettlerInv
  <2>2. ParkedInv'
    BY <1>3, <2>1 DEF Register, ParkedInv, TypeOK, Unanswered
  <2>3. FreshInv'
    BY <1>3, <2>1 DEF Register, FreshInv, TypeOK
  <2>4. SettlerInv'
    BY <1>3, <2>1 DEF Register, SettlerInv, Settling, TypeOK
  <2> QED BY <2>2, <2>3, <2>4
<1>4. CASE PersistPending(q)
  <2>1. \A r \in Req : r # q => row'[r] = row[r] /\ pc'[r] = pc[r]
    BY <1>4 DEF PersistPending, TypeOK
  <2>2. /\ row'[q] = "null" /\ pc[q] = "registered" /\ pc'[q] = "stored"
        /\ UNCHANGED <<pending, replied, job>>
    BY <1>4 DEF PersistPending, TypeOK
  <2>3. ParkedInv'
    BY <2>1, <2>2 DEF ParkedInv, TypeOK, Unanswered
  <2>4. FreshInv'
    BY <2>1, <2>2 DEF FreshInv
  <2>5. SettlerInv'
    BY <2>1, <2>2 DEF SettlerInv, Settling, Unanswered
  <2> QED BY <2>3, <2>4, <2>5
<1>5. CASE PersistPendingFails(q)
  <2>1. ParkedInv' /\ FreshInv'
    BY <1>5 DEF PersistPendingFails, Return, ParkedInv, FreshInv, TypeOK
  <2> QED BY <1>5, <2>1, SettlersFrame DEF PersistPendingFails, Return, TypeOK
<1>6. CASE PublishAsked(q)
  <2>1. ParkedInv' /\ FreshInv'
    BY <1>6 DEF PublishAsked, ParkedInv, FreshInv, TypeOK
  <2> QED BY <1>6, <2>1, SettlersFrame DEF PublishAsked, TypeOK
<1>7. CASE Receive(q)
  <2>1. ParkedInv' /\ FreshInv'
    BY <1>7 DEF Receive, Return, ParkedInv, FreshInv, TypeOK
  <2> QED BY <1>7, <2>1, SettlersFrame DEF Receive, Return, TypeOK
<1>8. CASE CtxDone(q)
  <2>1. ParkedInv' /\ FreshInv'
    BY <1>8 DEF CtxDone, ParkedInv, FreshInv, TypeOK
  <2>2. AbortJob(q).stage = "claim"
    BY DEF AbortJob, Resolve
  <2> QED BY <1>8, <2>1, <2>2, StartFrame DEF CtxDone, TypeOK, Proc
<1>9. CASE AbortReturn(q)
  <2>1. ParkedInv' /\ FreshInv'
    BY <1>9 DEF AbortReturn, Return, ParkedInv, FreshInv, TypeOK
  <2> QED BY <1>9, <2>1, SettlersFrame DEF AbortReturn, Return, TypeOK
<1> QED BY <1>1, <1>2, <1>3, <1>4, <1>5, <1>6, <1>7, <1>8, <1>9 DEF AskStep

\* Repliers and aborted turns only start jobs.
LEMMA SettleReply ==
  ASSUME SettleInv, NEW p \in Replier,
         \/ ReplyStep(p)
         \/ \E r \in Req, response \in Response : ReplyLookup(p, r, response)
  PROVE  ParkedInv' /\ FreshInv' /\ SettlerInv'
<1> USE DEF SettleInv, askVars
<1>1. UNCHANGED <<pc, row, replied, pending>>
  BY DEF ReplyStep, Snapshot, Sweep, ReplyReturn, ReplyLookup
<1>2. ParkedInv' /\ FreshInv'
  BY <1>1 DEF ParkedInv, FreshInv
<1>3. CASE Snapshot(p) \/ ReplyReturn(p)
  BY <1>1, <1>2, <1>3, SettlersFrame DEF Snapshot, ReplyReturn
<1>4. CASE Sweep(p)
  <2>1. PICK r \in todo[p] : job' = [job EXCEPT ![p] = SweepJob(r, call[p].response)]
    BY <1>4 DEF Sweep
  <2>2. SweepJob(r, call[p].response).stage = "claim"
    BY DEF SweepJob, Resolve
  <2> QED BY <1>1, <1>2, <2>1, <2>2, StartFrame DEF Proc
<1>5. ASSUME NEW r \in Req, NEW response \in Response, ReplyLookup(p, r, response)
      PROVE  SettlerInv'
  <2>1. AnswerJob(r, response).stage = "claim"
    BY DEF AnswerJob, Resolve
  <2> QED BY <1>1, <1>5, <2>1, StartFrame DEF ReplyLookup, Proc
<1> QED BY <1>2, <1>3, <1>4, <1>5 DEF ReplyStep

LEMMA SettleNext == SettleInv /\ [Next]_vars => SettleInv'
<1> SUFFICES ASSUME SettleInv, [Next]_vars PROVE SettleInv' OBVIOUS
<1>1. TypeOK' BY TypeNext DEF SettleInv
<1>2. ParkedInv' /\ FreshInv' /\ SettlerInv'
  <2>1. CASE UNCHANGED vars
    BY <2>1 DEF vars, askVars, replyVars, SettleInv, ParkedInv, FreshInv,
       SettlerInv, Settling
  <2>2. ASSUME NEW t \in Thread, CancelTurn(t)
        PROVE  ParkedInv' /\ FreshInv' /\ SettlerInv'
    BY <2>2 DEF CancelTurn, replyVars, SettleInv, ParkedInv, FreshInv,
       SettlerInv, Settling
  <2> QED BY <2>1, <2>2, SettleResolve, SettleAsk, SettleReply DEF Next
<1> QED BY <1>1, <1>2 DEF SettleInv

LEMMA SettleSafety == Spec => []SettleInv
BY SettleInit, SettleNext, PTL DEF Spec

\* However many replies, sweeps and aborts race for a request, one process
\* settles it, and not while it is parked (resolve, "only the remover
\* settles").
THEOREM OneSettlerSafety == Spec => []OneSettler
<1>1. SettleInv => OneSettler
  BY DEF SettleInv, SettlerInv, OneSettler
<1> QED BY <1>1, SettleSafety, PTL

\* No row flips once it holds an answer, and no permission.replied is followed
\* by another for the same request.
THEOREM SettledOnceSafety == Spec => SettledOnce
<1> DEFINE Kept == \A r \in Req : /\ replied[r] # NoneRep => replied'[r] = replied[r]
                                  /\ row[r] \in Stored => row'[r] = row[r]
<1>1. SettleInv /\ [Next]_vars => Kept \/ UNCHANGED vars
  <2> SUFFICES ASSUME SettleInv, Next PROVE Kept
    OBVIOUS
  <2> USE DEF SettleInv, askVars, replyVars
  <2>1. ASSUME NEW z \in Proc, ResolveStep(z) PROVE Kept
    <3>0. job[z].stage # "none" => job[z] \in Job
      BY DEF TypeOK, NoJob
    <3>1. CASE Claim(z) \/ Deliver(z)
      BY <3>1 DEF Claim, Deliver
    <3>2. CASE Store(z)
      <4>1. job[z].req \in Req /\ row[job[z].req] \notin Stored
        BY <3>0, <3>2 DEF Store, SettlerInv, Settling, Job, Unanswered, Stored
      <4> QED BY <3>2, <4>1 DEF Store, TypeOK
    <3>3. CASE Publish(z)
      <4>1. job[z].req \in Req /\ replied[job[z].req] = NoneRep
        BY <3>0, <3>3 DEF Publish, SettlerInv, Settling, Job
      <4> QED BY <3>3, <4>1 DEF Publish, TypeOK
    <3> QED BY <2>1, <3>1, <3>2, <3>3 DEF ResolveStep
  <2>2. ASSUME NEW q \in Req, AskStep(q) PROVE Kept
    <3>1. CASE PersistDecided(q) \/ PersistPending(q)
      BY <3>1 DEF PersistDecided, PersistPending, FreshInv, Stored, TypeOK
    <3>2. CASE Decide(q) \/ Register(q) \/ PersistPendingFails(q) \/ PublishAsked(q)
               \/ Receive(q) \/ CtxDone(q) \/ AbortReturn(q)
      BY <3>2 DEF Decide, Register, PersistPendingFails, PublishAsked, Receive,
         CtxDone, AbortReturn
    <3> QED BY <2>2, <3>1, <3>2 DEF AskStep
  <2>3. ASSUME NEW p \in Replier,
               \/ ReplyStep(p)
               \/ \E r \in Req, response \in Response : ReplyLookup(p, r, response)
        PROVE  Kept
    BY <2>3 DEF ReplyStep, Snapshot, Sweep, ReplyReturn, ReplyLookup
  <2>4. ASSUME NEW t \in Thread, CancelTurn(t) PROVE Kept
    BY <2>4 DEF CancelTurn
  <2> QED BY <2>1, <2>2, <2>3, <2>4 DEF Next
<1>2. SettleInv /\ [Next]_vars => [Kept]_vars
  BY <1>1
<1> QED BY <1>2, SettleSafety, PTL DEF Spec, SettledOnce

-----------------------------------------------------------------------------
(***************************************************************************)
(* Every grant is traceable: the places where an allow is in flight (the   *)
(* asker's local verdict, a resolve job, the entry's channel, a sweep's    *)
(* worklist) only ever hold traceable ones.                                *)
(***************************************************************************)
Recorded(r) == <<r, "always">> \in said

LocalInv ==
  \A r \in Req : "allow" \in {decision[r], chan[r], verdict[r]} => Traceable(r)

JobInv ==
  \A x \in Proc : job[x].stage # "none" =>
    /\ job[x].stored = "always" => Recorded(job[x].req)
    /\ job[x].decision = "allow" => Traceable(job[x].req)

\* An always reply stays on record while it sweeps, and its worklist holds
\* what its patterns cover; between calls the worklist is empty.
SweepInv ==
  \A p \in Replier :
    /\ rpc[p] # "sweeping" => todo[p] = {}
    /\ call[p].response = "always" =>
         /\ call[p].req \in Req
         /\ Recorded(call[p].req)
         /\ \A e \in todo[p] : /\ Session(e) = Session(call[p].req)
                               /\ PermOf[e] = PermOf[call[p].req]
                               /\ Covered(e, call[p].req)

GrantInv == TypeOK /\ AlwaysIsExplicit /\ LocalInv /\ JobInv /\ SweepInv

\* What was said stays said, so a traceable grant stays traceable.
LEMMA TraceableIsStable ==
  ASSUME said \subseteq said', NEW r \in Req
  PROVE  /\ Recorded(r) => Recorded(r)'
         /\ Traceable(r) => Traceable(r)'
BY DEF Recorded, Traceable

\* A verdict of the rules, the session's always rules included, is traceable.
LEMMA RulesAreTraceable ==
  ASSUME TypeOK, AlwaysIsExplicit, NEW r \in Req,
         NEW always \in {AlwaysRules(r), {}}
  PROVE  /\ Evaluate(r) = "allow" => Traceable(r)
         /\ DecisionFor(r, always) = "allow" => Traceable(r)
<1>1. \A x \in ResourcesOf[r] : RuleFor[r][x] \in Verdict
  BY PermissionAssumption
<1>2. ASSUME Evaluate(r) = "allow" PROVE Traceable(r)
  <2>1. \A x \in ResourcesOf[r] : RuleFor[r][x] = "allow"
    BY <1>1, <1>2 DEF Evaluate, Combine, Verdict
  <2> QED BY <2>1 DEF Traceable
<1>3. ASSUME DecisionFor(r, always) = "allow" PROVE Traceable(r)
  <2>1. \A x \in ResourcesOf[r] : x \in always \/ RuleFor[r][x] = "allow"
    BY <1>1, <1>3 DEF DecisionFor, Combine, Verdict
  <2>2. \A x \in always : \E a \in Req : /\ Recorded(a)
                                         /\ Session(a) = Session(r)
                                         /\ PermOf[a] = PermOf[r]
                                         /\ x \in AlwaysOf[a]
    BY DEF AlwaysRules, AlwaysIsExplicit, Recorded
  <2> QED BY <2>1, <2>2 DEF Traceable, Recorded
<1> QED BY <1>2, <1>3

LEMMA GrantInit == Init => GrantInv
<1> SUFFICES ASSUME Init PROVE GrantInv OBVIOUS
<1>1. TypeOK BY TypeInit
<1>2. AlwaysIsExplicit BY DEF Init, AlwaysIsExplicit
<1>3. LocalInv BY DEF Init, LocalInv, None
<1>4. JobInv BY DEF Init, JobInv, NoJob
<1>5. SweepInv BY DEF Init, SweepInv, NoCall, None
<1> QED BY <1>1, <1>2, <1>3, <1>4, <1>5 DEF GrantInv

LEMMA GrantResolve ==
  ASSUME GrantInv, NEW z \in Proc, ResolveStep(z)
  PROVE  AlwaysIsExplicit' /\ LocalInv' /\ JobInv' /\ SweepInv'
<1> USE DEF GrantInv, askVars, replyVars
<1> DEFINE q == job[z].req
<1>1. said \subseteq said'
  BY DEF ResolveStep, Claim, Store, Publish, Deliver
<1>2. job[z].stage # "none" => job[z] \in Job /\ q \in Req
  BY DEF TypeOK, NoJob, Job
<1>3. job[z].stage # "none" /\
        (job'[z].stage = "none" \/ (/\ job'[z].req = q
                                     /\ job'[z].stored = job[z].stored
                                     /\ job'[z].decision = job[z].decision))
  BY <1>2 DEF ResolveStep, Claim, Store, Publish, Deliver, TypeOK, NoJob, Job
<1>4. \A y \in Proc : y # z => job'[y] = job[y]
  BY DEF ResolveStep, Claim, Store, Publish, Deliver, TypeOK
<1>5. JobInv'
  <2> SUFFICES ASSUME NEW y \in Proc, job'[y].stage # "none"
               PROVE  /\ job'[y].stored = "always" => <<job'[y].req, "always">> \in said'
                      /\ (job[y].decision = "allow" => Traceable(job[y].req))'
    BY DEF JobInv, Recorded
  <2>1. /\ job[y].stage # "none"
        /\ job'[y].req = job[y].req
        /\ job'[y].stored = job[y].stored
        /\ job'[y].decision = job[y].decision
    BY <1>3, <1>4
  <2>2. PICK r \in Req : r = job[y].req
    BY <2>1 DEF TypeOK, Job, NoJob
  <2>3. /\ job[y].stored = "always" => Recorded(r)
        /\ job[y].decision = "allow" => Traceable(r)
    BY <2>1, <2>2 DEF JobInv
  <2>4. job'[y].stored = "always" => <<r, "always">> \in said'
    BY <1>1, <2>1, <2>3 DEF Recorded
  <2>5. job'[y].decision = "allow" => Traceable(r)'
    BY <1>1, <2>1, <2>3, TraceableIsStable
  <2> QED BY <2>1, <2>2, <2>4, <2>5 DEF Traceable
<1>6. SweepInv'
  BY DEF ResolveStep, Claim, Store, Publish, Deliver, SweepInv, Covered, Recorded
<1>7. AlwaysIsExplicit'
  BY <1>2 DEF ResolveStep, Claim, Store, Publish, Deliver, AlwaysIsExplicit,
     JobInv, Recorded, TypeOK
<1>8. \A r \in Req : "allow" \in {decision'[r], chan'[r], verdict'[r]} => Traceable(r)
  BY <1>2 DEF ResolveStep, Claim, Store, Publish, Deliver, Sent, LocalInv, JobInv,
     TypeOK
<1> QED BY <1>1, <1>5, <1>6, <1>7, <1>8, TraceableIsStable DEF LocalInv

LEMMA GrantAsk ==
  ASSUME GrantInv, NEW q \in Req, AskStep(q)
  PROVE  AlwaysIsExplicit' /\ LocalInv' /\ JobInv' /\ SweepInv'
<1> USE DEF GrantInv, replyVars
<1>1. said' = said /\ UNCHANGED <<rpc, call, todo>>
  BY DEF AskStep, Decide, PersistDecided, Register, PersistPending,
     PersistPendingFails, PublishAsked, Receive, CtxDone, AbortReturn
<1>2. \A r \in Req : Traceable(r)' = Traceable(r)
  BY <1>1 DEF Traceable
<1>3. SweepInv'
  BY <1>1 DEF SweepInv, Recorded, Covered
<1>4. JobInv'
  <2>1. CASE CtxDone(q)
    BY <1>1, <1>2, <2>1 DEF CtxDone, JobInv, AbortJob, Resolve, Recorded, TypeOK,
       Proc, Job, NoJob
  <2>2. CASE job' = job
    BY <1>1, <1>2, <2>2 DEF JobInv, Recorded, TypeOK, Job, NoJob
  <2> QED
    BY <2>1, <2>2 DEF AskStep, Decide, PersistDecided, Register, PersistPending,
       PersistPendingFails, PublishAsked, Receive, AbortReturn
<1>5. AlwaysIsExplicit'
  BY <1>1 DEF AskStep, Decide, PersistDecided, Register, PersistPending,
     PersistPendingFails, PublishAsked, Receive, CtxDone, AbortReturn, Return,
     StoredResponse, AlwaysIsExplicit, TypeOK
<1>6. LocalInv'
  <2>1. CASE Decide(q)
    <3>1. decision'[q] = "allow" => Traceable(q)
      <4>1. PICK always \in {AlwaysRules(q), {}} :
              decision' = [decision EXCEPT ![q] = IF Evaluate(q) = "ask"
                                                  THEN DecisionFor(q, always)
                                                  ELSE Evaluate(q)]
        BY <2>1 DEF Decide
      <4>2. /\ Evaluate(q) = "allow" => Traceable(q)
            /\ DecisionFor(q, always) = "allow" => Traceable(q)
        BY RulesAreTraceable
      <4> QED BY <4>1, <4>2 DEF TypeOK
    <3>2. \A r \in Req : r # q => decision'[r] = decision[r]
      BY <2>1 DEF Decide, TypeOK
    <3>3. UNCHANGED <<chan, verdict>>
      BY <2>1 DEF Decide
    <3>4. \A r \in Req : "allow" \in {decision'[r], chan'[r], verdict'[r]} => Traceable(r)
      BY <3>1, <3>2, <3>3 DEF LocalInv
    <3> QED BY <1>2, <3>4 DEF LocalInv
  <2>2. CASE PersistDecided(q)
    BY <1>2, <2>2 DEF PersistDecided, Return, LocalInv, TypeOK
  <2>3. CASE PersistPendingFails(q)
    BY <1>2, <2>3 DEF PersistPendingFails, Return, Sent, LocalInv, TypeOK
  <2>4. CASE Receive(q)
    BY <1>2, <2>4 DEF Receive, Return, LocalInv, TypeOK
  <2>5. CASE AbortReturn(q)
    BY <1>2, <2>5 DEF AbortReturn, Return, LocalInv, TypeOK
  <2>6. CASE UNCHANGED <<decision, chan, verdict>>
    BY <1>2, <2>6 DEF LocalInv
  <2> QED
    BY <2>1, <2>2, <2>3, <2>4, <2>5, <2>6 DEF AskStep, Register, PersistPending,
       PublishAsked, CtxDone
<1> QED BY <1>3, <1>4, <1>5, <1>6

LEMMA GrantReply ==
  ASSUME GrantInv, NEW p \in Replier,
         \/ ReplyStep(p)
         \/ \E r \in Req, response \in Response : ReplyLookup(p, r, response)
  PROVE  AlwaysIsExplicit' /\ LocalInv' /\ JobInv' /\ SweepInv'
<1> USE DEF GrantInv, askVars
<1>1. said \subseteq said'
  BY DEF ReplyStep, Snapshot, Sweep, ReplyReturn, ReplyLookup
<1>2. UNCHANGED <<decision, chan, verdict, row>>
  BY DEF ReplyStep, Snapshot, Sweep, ReplyReturn, ReplyLookup
<1>3. AlwaysIsExplicit' /\ LocalInv'
  BY <1>1, <1>2, TraceableIsStable DEF AlwaysIsExplicit, LocalInv, Recorded
<1>4. CASE Snapshot(p)
  <2>1. JobInv'
    BY <1>4 DEF Snapshot, JobInv, Recorded, Traceable
  <2>2. SweepInv'
    BY <1>4, SweepsAreParked DEF Snapshot, SweepInv, TypeOK, Recorded, Covered, Session
  <2> QED BY <1>3, <2>1, <2>2
<1>5. CASE Sweep(p)
  <2>1. PICK r \in todo[p] : /\ todo' = [todo EXCEPT ![p] = @ \ {r}]
                             /\ job' = [job EXCEPT ![p] = SweepJob(r, call[p].response)]
    BY <1>5 DEF Sweep
  <2>2. r \in Req BY <2>1 DEF TypeOK
  <2>3. call[p].response = "always" => Traceable(r)
    <3>1. SUFFICES ASSUME call[p].response = "always" PROVE Traceable(r)
      OBVIOUS
    <3> DEFINE a == call[p].req
    <3>2. /\ a \in Req /\ <<a, "always">> \in said /\ Session(r) = Session(a)
          /\ PermOf[r] = PermOf[a] /\ ResourcesOf[r] \subseteq AlwaysOf[a]
      BY <2>1, <3>1 DEF SweepInv, Recorded, Covered
    <3> HIDE DEF a
    <3> QED BY <3>2 DEF Traceable
  <2>4. JobInv'
    BY <1>5, <2>1, <2>3 DEF Sweep, JobInv, SweepJob, Resolve, Recorded, Traceable,
       TypeOK, Proc
  <2>5. SweepInv'
    BY <1>5, <2>1 DEF Sweep, SweepInv, Recorded, Covered, TypeOK
  <2> QED BY <1>3, <2>4, <2>5
<1>6. CASE ReplyReturn(p)
  <2>1. JobInv'
    BY <1>6 DEF ReplyReturn, JobInv, Recorded, Traceable
  <2>2. SweepInv'
    BY <1>6 DEF ReplyReturn, SweepInv, Recorded, Covered, TypeOK, NoCall, None
  <2> QED BY <1>3, <2>1, <2>2
<1>7. ASSUME NEW r \in Req, NEW response \in Response, ReplyLookup(p, r, response)
      PROVE  JobInv' /\ SweepInv'
  <2>1. response # "reject" => <<r, response>> \in said'
    BY <1>7 DEF ReplyLookup
  <2>2. AnswerJob(r, response).stored = "always" => Recorded(r)'
    BY <2>1 DEF AnswerJob, Resolve, Recorded
  <2>3. AnswerJob(r, response).decision = "allow" => Traceable(r)'
    BY <2>1 DEF AnswerJob, Resolve, Traceable
  <2>4. AnswerJob(r, response).req = r
    BY DEF AnswerJob, Resolve
  <2>5. \A x \in Proc : job[x].stage # "none" => job[x].req \in Req
    BY DEF TypeOK, Job, NoJob
  <2>6. JobInv'
    BY <1>1, <1>7, <2>2, <2>3, <2>4, <2>5, TraceableIsStable
    DEF ReplyLookup, JobInv, TypeOK, Proc
  <2>7. SweepInv'
    <3>1. /\ rpc[p] = "idle" /\ todo' = todo /\ rpc'[p] = "answering"
          /\ call'[p] = [req |-> r, response |-> response]
          /\ \A h \in Replier : h # p => call'[h] = call[h] /\ rpc'[h] = rpc[h]
      BY <1>7 DEF ReplyLookup, TypeOK
    <3>2. todo[p] = {} BY <3>1 DEF SweepInv
    <3>3. response = "always" => <<r, "always">> \in said' BY <2>1
    <3>4. \A h \in Replier : h # p /\ call[h].response = "always" =>
             <<call[h].req, "always">> \in said'
      BY <1>1 DEF SweepInv, Recorded
    <3> QED BY <3>1, <3>2, <3>3, <3>4 DEF SweepInv, Covered, Recorded
  <2> QED BY <2>6, <2>7
<1> QED BY <1>3, <1>4, <1>5, <1>6, <1>7 DEF ReplyStep

LEMMA GrantNext == GrantInv /\ [Next]_vars => GrantInv'
<1> SUFFICES ASSUME GrantInv, [Next]_vars PROVE GrantInv' OBVIOUS
<1>1. TypeOK' BY TypeNext DEF GrantInv
<1>2. AlwaysIsExplicit' /\ LocalInv' /\ JobInv' /\ SweepInv'
  <2>1. ASSUME \/ UNCHANGED vars
               \/ \E t \in Thread : CancelTurn(t)
        PROVE  AlwaysIsExplicit' /\ LocalInv' /\ JobInv' /\ SweepInv'
    <3>1. UNCHANGED <<decision, chan, verdict, row, job, said, rpc, call, todo>>
      BY <2>1 DEF vars, askVars, replyVars, CancelTurn
    <3>2. AlwaysIsExplicit' /\ LocalInv'
      BY <3>1 DEF GrantInv, AlwaysIsExplicit, LocalInv, Traceable
    <3>3. JobInv'
      BY <3>1 DEF GrantInv, JobInv, Traceable, Recorded
    <3>4. SweepInv'
      BY <3>1 DEF GrantInv, SweepInv, Recorded, Covered
    <3> QED BY <3>2, <3>3, <3>4
  <2> QED BY <2>1, GrantResolve, GrantAsk, GrantReply DEF Next
<1> QED BY <1>1, <1>2 DEF GrantInv

LEMMA GrantSafety == Spec => []GrantInv
BY GrantInit, GrantNext, PTL DEF Spec

\* No tool runs on an allow nobody gave: whatever the interleaving of replies,
\* sweeps, aborts and failed statements, an allow returned by Ask comes from
\* the rules, from an answer to that request, or from an always answer of the
\* same session whose patterns match.
THEOREM GrantsAreTraceableSafety == Spec => []GrantsAreTraceable
<1>1. GrantInv => GrantsAreTraceable
  BY DEF GrantInv, LocalInv, GrantsAreTraceable
<1> QED BY <1>1, GrantSafety, PTL

\* The rows that mint always rules are exactly explicit always answers.
THEOREM AlwaysIsExplicitSafety == Spec => []AlwaysIsExplicit
<1>1. GrantInv => AlwaysIsExplicit
  BY DEF GrantInv
<1> QED BY <1>1, GrantSafety, PTL

-----------------------------------------------------------------------------
(***************************************************************************)
(* The table, the wire and the asker tell the same answer.  A settling     *)
(* process carries it from its claim to the row, then to the wire, then to *)
(* the channel the asker reads.                                            *)
(***************************************************************************)
GrantingRow(stored) == stored \in {"once", "always"}

\* A resolve job says the same thing to the row, the wire and the asker.
JobsCohere ==
  \A x \in Proc : job[x].stage # "none" =>
    /\ job[x].decision = "allow" <=> GrantingRow(job[x].stored)
    /\ job[x].decision = "allow" <=> Grants(job[x])

\* Only a request the rules leave open is ever settled or published.
UndecidedInv ==
  \A r \in Req :
    /\ decision[r] = None => pc[r] = "new"
    /\ decision[r] \in Decision => pc[r] \in {"decided", "done"}
    /\ replied[r] # NoneRep => decision[r] = "ask"
    /\ \A x \in Proc : Settling(x, r) => decision[r] = "ask"

\* What was stored and published is what the settler carries, and an answer in
\* the channel of a waiting asker has been published.
CarriedInv ==
  \A r \in Req :
    /\ \A x \in Proc : Settling(x, r) =>
         /\ job[x].stage # "store" /\ row[r] \in Stored =>
              (GrantingRow(row[r]) <=> job[x].decision = "allow")
         /\ job[x].stage = "deliver" =>
              /\ replied[r] # NoneRep
              /\ Grants(replied[r]) <=> job[x].decision = "allow"
    /\ replied[r] # NoneRep /\ row[r] \in Stored =>
         (Grants(replied[r]) <=> GrantingRow(row[r]))
    /\ chan[r] # None /\ pc[r] # "done" =>
         /\ replied[r] # NoneRep
         /\ Grants(replied[r]) <=> chan[r] = "allow"

\* What Ask returned: the rules' decision, the published answer, or the denial
\* of an aborted turn.
ReturnedInv ==
  \A r \in Req :
    /\ pc[r] = "aborting" => ThreadOf[r] \in cancelled
    /\ pc[r] # "done" => verdict[r] = None
    /\ verdict[r] \in Decision =>
         \/ decision[r] = verdict[r]
         \/ /\ replied[r] # NoneRep
            /\ Grants(replied[r]) <=> verdict[r] = "allow"
         \/ verdict[r] = "denied" /\ ThreadOf[r] \in cancelled

\* A registered request is parked, being settled or answered until its asker
\* returns; only an aborting asker resolves, its own request and to a denial.
WaitingInv ==
  \A r \in Req :
    /\ pc[r] = "done" => r \notin pending
    /\ pc[r] \in {"registered", "stored", "parked", "aborting"} =>
         \/ r \in pending
         \/ replied[r] # NoneRep
         \/ \E x \in Proc : Settling(x, r)
    /\ job[r].stage # "none" => job[r].req = r /\ pc[r] = "aborting"
    /\ pc[r] = "aborting" /\ job[r].stage # "claim" => r \notin pending

\* Between two calls a reply handler resolves nothing.
IdleInv == \A p \in Replier : rpc[p] = "idle" => Idle(p)

AgreeParts ==
  /\ JobsCohere /\ UndecidedInv /\ CarriedInv /\ ReturnedInv /\ WaitingInv
  /\ IdleInv
AgreeInv == SettleInv /\ AgreeParts

LEMMA StartedJobsCohere ==
  ASSUME NEW r, NEW response, NEW j,
         j \in {AbortJob(r), AnswerJob(r, response), SweepJob(r, response)}
  PROVE  /\ j.stage = "claim" /\ j.req = r
         /\ j.decision = "allow" <=> GrantingRow(j.stored)
         /\ j.decision = "allow" <=> Grants(j)
BY DEF AbortJob, AnswerJob, SweepJob, Resolve, GrantingRow, Grants, Response

LEMMA AgreeInit == Init => AgreeInv
<1> SUFFICES ASSUME Init PROVE AgreeParts BY SettleInit DEF AgreeInv
<1> USE DEF Init, NoJob, NoneRep, None, Decision, Stored, Settling, Proc
<1>1. JobsCohere BY DEF JobsCohere
<1>2. UndecidedInv BY DEF UndecidedInv
<1>3. CarriedInv BY DEF CarriedInv
<1>4. ReturnedInv BY DEF ReturnedInv
<1>5. WaitingInv BY DEF WaitingInv
<1>6. IdleInv BY DEF IdleInv, Idle
<1> QED BY <1>1, <1>2, <1>3, <1>4, <1>5, <1>6 DEF AgreeParts

\* What a step of a resolve does to the jobs.
LEMMA ResolveMoves ==
  ASSUME TypeOK, NEW z \in Proc, ResolveStep(z)
  PROVE  /\ job[z] \in Job /\ job[z].req \in Req
         /\ \A y \in Proc : y # z => job'[y] = job[y]
         /\ job'[z] \in {NoJob, [job[z] EXCEPT !.stage = "store"],
                         [job[z] EXCEPT !.stage = "publish"],
                         [job[z] EXCEPT !.stage = "deliver"]}
<1>1. job[z].stage # "none"
  BY DEF ResolveStep, Claim, Store, Publish, Deliver
<1>2. job[z] \in Job /\ job[z].req \in Req
  BY <1>1 DEF TypeOK, NoJob, Job
<1> QED BY <1>2 DEF ResolveStep, Claim, Store, Publish, Deliver, TypeOK

LEMMA AgreeResolve ==
  ASSUME AgreeInv, NEW z \in Proc, ResolveStep(z)
  PROVE  AgreeParts'
<1> USE DEF AgreeInv, AgreeParts, SettleInv, askVars, replyVars
<1> DEFINE q == job[z].req
<1>0. /\ job[z] \in Job /\ q \in Req
      /\ \A y \in Proc : y # z => job'[y] = job[y]
  BY ResolveMoves
<1>1. UNCHANGED <<pc, decision, verdict, cancelled>>
  BY DEF ResolveStep, Claim, Store, Publish, Deliver
<1>2. JobsCohere'
  BY <1>0, ResolveMoves DEF JobsCohere, Job, NoJob, Grants
<1>3. \A r \in Req : job'[r].stage # "none" => job'[r].req = r /\ pc[r] = "aborting"
  BY <1>0, ResolveMoves DEF WaitingInv, Job, NoJob, Proc
<1>8. IdleInv'
  BY <1>0, ResolveMoves DEF ResolveStep, Claim, Store, Publish, Deliver, IdleInv,
     Idle, NoJob, Job, Proc
<1>4. CASE Claim(z)
  <2>1. CASE q \in pending
    <3>1. job'[z] = [job[z] EXCEPT !.stage = "store"] /\ pending' = pending \ {q}
          /\ UNCHANGED <<chan, row, replied>>
      BY <1>4, <2>1 DEF Claim, Claims, TypeOK
    <3>2. decision[q] = "ask" /\ replied[q] = NoneRep /\ pc[q] # "done"
      BY <2>1 DEF ParkedInv, WaitingInv, UndecidedInv, TypeOK, Decision, Verdict
    <3>3. Settling(z, q)'
      BY <1>0, <3>1 DEF Settling, Job
    <3>4. \A r \in Req, y \in Proc :
            Settling(y, r)' => \/ y = z /\ r = q
                               \/ y # z /\ Settling(y, r)
      BY <1>0, <3>1 DEF Settling, Job
    <3>5. \A r \in Req, y \in Proc : Settling(y, r) => Settling(y, r)'
      BY <1>0, <1>4 DEF Settling, Claim
    <3>6. UndecidedInv'
      BY <1>1, <3>1, <3>2, <3>4 DEF UndecidedInv
    <3>7. CarriedInv'
      BY <1>0, <1>1, <3>1, <3>4 DEF CarriedInv, Job, Settling
    <3>8. ReturnedInv'
      BY <1>1, <3>1 DEF ReturnedInv
    <3>9. WaitingInv'
      <4>1. \A r \in Req : pc[r] \in {"registered", "stored", "parked", "aborting"} =>
              \/ r \in pending'
              \/ replied[r] # NoneRep
              \/ \E x \in Proc : Settling(x, r)'
        BY <3>1, <3>3, <3>5 DEF WaitingInv
      <4>2. \A r \in Req : pc[r] = "aborting" /\ job'[r].stage # "claim" => r \notin pending'
        BY <1>0, <3>1, <1>4 DEF WaitingInv, Claim, Proc, TypeOK
      <4> QED BY <1>1, <1>3, <3>1, <4>1, <4>2 DEF WaitingInv
    <3> QED BY <1>2, <1>8, <3>6, <3>7, <3>8, <3>9
  <2>2. CASE q \notin pending
    <3>1. job'[z] = NoJob /\ UNCHANGED <<pending, chan, row, replied>>
      BY <1>4, <2>2 DEF Claim, Claims, TypeOK
    <3>2. \A r \in Req, y \in Proc : Settling(y, r)' <=> Settling(y, r)
      BY <1>0, <1>4, <3>1 DEF Settling, NoJob, Claim
    <3>3. \A r \in Req, y \in Proc : Settling(y, r)' => job'[y] = job[y]
      BY <1>0, <3>1 DEF Settling, NoJob
    <3>4. UndecidedInv' /\ ReturnedInv'
      BY <1>1, <3>1, <3>2 DEF UndecidedInv, ReturnedInv
    <3>5. CarriedInv'
      BY <1>1, <3>1, <3>2, <3>3 DEF CarriedInv
    <3>6. \A r \in Req : pc[r] = "aborting" /\ job'[r].stage # "claim" => r \notin pending'
      BY <1>0, <2>2, <3>1 DEF WaitingInv, Proc
    <3>7. WaitingInv'
      BY <1>1, <1>3, <3>1, <3>2, <3>6 DEF WaitingInv
    <3> QED BY <1>2, <1>8, <3>4, <3>5, <3>7
  <2> QED BY <2>1, <2>2
<1>5. CASE Store(z)
  <2>1. /\ job'[z] = [job[z] EXCEPT !.stage = "publish"]
        /\ UNCHANGED <<pending, chan, replied>>
        /\ Settling(z, q) /\ job[z].stage = "store"
    BY <1>0, <1>5 DEF Store, Settling, TypeOK
  <2>2. /\ row[q] \notin Stored /\ replied[q] = NoneRep
        /\ \A y \in Proc : Settling(y, q) => y = z
    BY <1>0, <2>1 DEF SettlerInv, Unanswered, Stored
  <2>3. /\ \A r \in Req : r # q => row'[r] = row[r]
        /\ row'[q] \in {row[q], job[z].stored}
    BY <1>0, <1>5 DEF Store, TypeOK
  <2>4. \A r \in Req, y \in Proc : Settling(y, r)' <=> Settling(y, r)
    BY <1>0, <2>1 DEF Settling, Job
  <2>5. UndecidedInv' /\ ReturnedInv'
    BY <1>1, <2>1, <2>4 DEF UndecidedInv, ReturnedInv
  <2>6. row'[q] \in Stored => (GrantingRow(row'[q]) <=> job[z].decision = "allow")
    BY <2>2, <2>3, <2>1 DEF JobsCohere
  <2>7. CarriedInv'
    <3>1. \A r \in Req, x \in Proc : Settling(x, r)' =>
            \/ x = z /\ r = q /\ job'[x].decision = job[z].decision /\ job'[x].stage = "publish"
            \/ r # q /\ Settling(x, r) /\ job'[x] = job[x]
      BY <1>0, <2>1, <2>2, <2>4 DEF Settling, Job
    <3> QED BY <1>1, <2>1, <2>2, <2>3, <2>6, <3>1 DEF CarriedInv
  <2>8. WaitingInv'
    BY <1>0, <1>1, <1>3, <2>1, <2>4 DEF WaitingInv, Job, Proc
  <2> QED BY <1>2, <1>8, <2>5, <2>7, <2>8
<1>6. CASE Publish(z)
  <2>1. /\ job'[z] = [job[z] EXCEPT !.stage = "deliver"]
        /\ UNCHANGED <<pending, chan, row>>
        /\ Settling(z, q) /\ job[z].stage = "publish"
    BY <1>0, <1>6 DEF Publish, Settling, TypeOK
  <2>2. /\ replied[q] = NoneRep
        /\ \A y \in Proc : Settling(y, q) => y = z
        /\ decision[q] = "ask"
    BY <1>0, <2>1 DEF SettlerInv, UndecidedInv
  <2>3. /\ \A r \in Req : r # q => replied'[r] = replied[r]
        /\ replied'[q] = [reply |-> job[z].reply, auto |-> job[z].auto]
    BY <1>0, <1>6 DEF Publish, TypeOK
  <2>4. replied'[q] # NoneRep /\ (Grants(replied'[q]) <=> job[z].decision = "allow")
    BY <1>0, <2>1, <2>3 DEF JobsCohere, NoneRep, None, Job, Response, Grants
  <2>5. \A r \in Req, y \in Proc : Settling(y, r)' <=> Settling(y, r)
    BY <1>0, <2>1 DEF Settling, Job
  <2>6. UndecidedInv'
    BY <1>1, <2>2, <2>3, <2>5 DEF UndecidedInv
  <2>7. ReturnedInv'
    <3>1. verdict[q] \in Decision =>
            \/ decision[q] = verdict[q]
            \/ verdict[q] = "denied" /\ ThreadOf[q] \in cancelled
      BY <1>0, <2>2 DEF ReturnedInv
    <3>2. \A r \in Req : r # q /\ verdict[r] \in Decision =>
            \/ decision[r] = verdict[r]
            \/ /\ replied'[r] # NoneRep
               /\ Grants(replied'[r]) <=> verdict[r] = "allow"
            \/ verdict[r] = "denied" /\ ThreadOf[r] \in cancelled
      BY <2>3 DEF ReturnedInv
    <3>3. \A r \in Req : /\ pc[r] = "aborting" => ThreadOf[r] \in cancelled
                         /\ pc[r] # "done" => verdict[r] = None
      BY DEF ReturnedInv
    <3> QED BY <1>1, <3>1, <3>2, <3>3 DEF ReturnedInv
  <2>8. CarriedInv'
    <3>1. \A r \in Req, x \in Proc : Settling(x, r)' =>
            \/ x = z /\ r = q /\ job'[x].decision = job[z].decision
            \/ r # q /\ Settling(x, r) /\ job'[x] = job[x]
      BY <1>0, <2>1, <2>2, <2>5 DEF Job, Settling
    <3>2. row[q] \in Stored => (GrantingRow(row[q]) <=> job[z].decision = "allow")
      BY <1>0, <2>1 DEF CarriedInv
    <3>3. chan[q] # None => pc[q] = "done"
      BY <1>0, <2>2 DEF CarriedInv
    <3> QED BY <1>1, <2>1, <2>3, <2>4, <3>1, <3>2, <3>3 DEF CarriedInv
  <2>9. WaitingInv'
    BY <1>0, <1>1, <1>3, <2>1, <2>3, <2>4, <2>5 DEF WaitingInv, Job, Proc
  <2> QED BY <1>2, <1>8, <2>6, <2>7, <2>8, <2>9
<1>7. CASE Deliver(z)
  <2>1. /\ job'[z] = NoJob
        /\ UNCHANGED <<pending, row, replied>>
        /\ Settling(z, q) /\ job[z].stage = "deliver"
        /\ chan' = Sent(q, job[z].decision)
    BY <1>0, <1>7 DEF Deliver, Settling, TypeOK
  <2>2. replied[q] # NoneRep /\ (Grants(replied[q]) <=> job[z].decision = "allow")
    BY <1>0, <2>1 DEF CarriedInv
  <2>3. \A r \in Req, y \in Proc :
          /\ Settling(y, r)' => Settling(y, r) /\ job'[y] = job[y]
          /\ Settling(y, r) /\ r # q => Settling(y, r)'
    BY <1>0, <2>1 DEF Settling, NoJob
  <2>4. UndecidedInv' /\ ReturnedInv'
    BY <1>1, <2>1, <2>3 DEF UndecidedInv, ReturnedInv
  <2>5. \A r \in Req : \/ chan'[r] = chan[r]
                       \/ r = q /\ chan'[r] = job[z].decision
    <3>1. chan \in [Req -> Decision \cup {None}] BY DEF TypeOK
    <3> QED BY <1>0, <2>1, <3>1 DEF Sent
  <2>6. CarriedInv'
    BY <1>1, <2>1, <2>2, <2>3, <2>5 DEF CarriedInv
  <2>7. \A r \in Req : pc[r] \in {"registered", "stored", "parked", "aborting"} =>
          \/ r \in pending'
          \/ replied[r] # NoneRep
          \/ \E x \in Proc : Settling(x, r)'
    BY <2>1, <2>2, <2>3 DEF WaitingInv
  <2>8. \A r \in Req : pc[r] = "aborting" /\ job'[r].stage # "claim" => r \notin pending'
    BY <1>0, <2>1 DEF WaitingInv, Proc, NoJob
  <2>9. WaitingInv'
    BY <1>1, <1>3, <2>1, <2>7, <2>8 DEF WaitingInv
  <2> QED BY <1>2, <1>8, <2>4, <2>6, <2>9
<1> QED BY <1>4, <1>5, <1>6, <1>7 DEF ResolveStep

\* Starting a job changes no settler.
LEMMA SettlersStay ==
  ASSUME TypeOK, NEW z \in Proc, NEW j, job' = [job EXCEPT ![z] = j],
         j.stage = "claim", job[z].stage \in {"claim", "none"}
  PROVE  \A r \in Req, x \in Proc :
           /\ Settling(x, r)' <=> Settling(x, r)
           /\ Settling(x, r) => job'[x] = job[x]
BY DEF Settling, TypeOK

LEMMA AgreeAsk ==
  ASSUME AgreeInv, NEW q \in Req, AskStep(q)
  PROVE  AgreeParts'
<1> USE DEF AgreeInv, AgreeParts, SettleInv, replyVars
<1>0. \A r \in Req :
        r # q => /\ pc'[r] = pc[r]
                 /\ decision'[r] = decision[r]
                 /\ verdict'[r] = verdict[r]
                 /\ row'[r] = row[r]
                 /\ chan'[r] = chan[r]
                 /\ r \in pending' <=> r \in pending
  BY DEF AskStep, Decide, PersistDecided, Register, PersistPending, Sent, Return,
     PersistPendingFails, PublishAsked, Receive, CtxDone, AbortReturn, TypeOK
<1>1. UNCHANGED <<replied, cancelled>>
  BY DEF AskStep, Decide, PersistDecided, Register, PersistPending,
     PersistPendingFails, PublishAsked, Receive, CtxDone, AbortReturn
<1>2. ASSUME UNCHANGED job
      PROVE  /\ JobsCohere'
             /\ \A r \in Req, x \in Proc : Settling(x, r)' <=> Settling(x, r)
  BY <1>2 DEF JobsCohere, Settling
<1>3. pc[q] # "aborting" => Idle(q)
  BY DEF WaitingInv, Idle
<1>13. IdleInv'
  <2>1. UNCHANGED rpc
    BY DEF AskStep, Decide, PersistDecided, Register, PersistPending,
       PersistPendingFails, PublishAsked, Receive, CtxDone, AbortReturn
  <2>2. \A p \in Replier : job'[p] = job[p]
    BY PermissionAssumption DEF AskStep, Decide, PersistDecided, Register,
       PersistPending, PersistPendingFails, PublishAsked, Receive, CtxDone,
       AbortReturn, TypeOK, Proc
  <2> QED BY <2>1, <2>2 DEF IdleInv, Idle
<1>4. CASE Decide(q)
  <2>1. /\ pc[q] = "new" /\ pc'[q] = "decided"
        /\ decision'[q] \in Verdict
        /\ UNCHANGED <<verdict, pending, chan, row, job>>
    BY <1>4, DecisionsAreVerdicts DEF Decide, TypeOK
  <2>2. /\ replied[q] = NoneRep /\ row[q] = "absent" /\ q \notin pending
        /\ \A x \in Proc : ~Settling(x, q)
        /\ verdict[q] = None
    BY <2>1 DEF FreshInv, ParkedInv, SettlerInv, ReturnedInv
  <2>3. UndecidedInv'
    BY <1>0, <1>1, <1>2, <2>1, <2>2 DEF UndecidedInv, Verdict, None
  <2>4. CarriedInv'
    BY <1>0, <1>1, <1>2, <2>1, <2>2 DEF CarriedInv, Stored
  <2>5. ReturnedInv'
    BY <1>0, <1>1, <2>1, <2>2 DEF ReturnedInv, None, Decision
  <2>6. WaitingInv'
    BY <1>0, <1>1, <1>2, <2>1, <2>2 DEF WaitingInv
  <2> QED BY <1>2, <1>13, <2>1, <2>3, <2>4, <2>5, <2>6
<1>5. CASE PersistDecided(q)
  <2>1. /\ pc[q] = "decided" /\ pc'[q] = "done"
        /\ decision[q] \in Decision
        /\ verdict'[q] \in {decision[q], "error"}
        /\ UNCHANGED <<decision, pending, chan, job>>
    BY <1>5 DEF PersistDecided, Return, TypeOK, UndecidedInv, Verdict, Decision
  <2>2. /\ replied[q] = NoneRep /\ q \notin pending
        /\ \A x \in Proc : ~Settling(x, q)
    BY <2>1 DEF FreshInv, ParkedInv, SettlerInv
  <2>3. UndecidedInv'
    BY <1>0, <1>1, <1>2, <2>1, <2>2 DEF UndecidedInv
  <2>4. CarriedInv'
    BY <1>0, <1>1, <1>2, <2>1, <2>2 DEF CarriedInv
  <2>5. ReturnedInv'
    BY <1>0, <1>1, <2>1, <2>2 DEF ReturnedInv, Decision
  <2>6. WaitingInv'
    BY <1>0, <1>1, <1>2, <2>1, <2>2 DEF WaitingInv
  <2> QED BY <1>2, <1>13, <2>1, <2>3, <2>4, <2>5, <2>6
<1>6. CASE Register(q)
  <2>1. /\ pc[q] = "decided" /\ pc'[q] = "registered"
        /\ decision[q] = "ask" /\ pending' = pending \cup {q}
        /\ UNCHANGED <<decision, verdict, chan, row, job>>
    BY <1>6 DEF Register, TypeOK
  <2>2. /\ replied[q] = NoneRep
        /\ \A x \in Proc : ~Settling(x, q)
    BY <2>1 DEF FreshInv, SettlerInv
  <2>3. UndecidedInv'
    BY <1>0, <1>1, <1>2, <2>1, <2>2 DEF UndecidedInv, Decision, None
  <2>4. CarriedInv'
    BY <1>0, <1>1, <1>2, <2>1, <2>2 DEF CarriedInv
  <2>5. ReturnedInv'
    BY <1>0, <1>1, <2>1, <2>2 DEF ReturnedInv
  <2>6. WaitingInv'
    BY <1>0, <1>1, <1>2, <2>1, <2>2 DEF WaitingInv
  <2> QED BY <1>2, <1>13, <2>1, <2>3, <2>4, <2>5, <2>6
<1>7. CASE PersistPending(q)
  <2>1. /\ pc[q] = "registered" /\ pc'[q] = "stored" /\ row'[q] = "null"
        /\ UNCHANGED <<decision, verdict, pending, chan, job>>
    BY <1>7 DEF PersistPending, TypeOK
  <2>2. UndecidedInv'
    BY <1>0, <1>1, <1>2, <2>1 DEF UndecidedInv, Decision
  <2>3. CarriedInv'
    BY <1>0, <1>1, <1>2, <2>1 DEF CarriedInv, Stored
  <2>4. ReturnedInv'
    BY <1>0, <1>1, <2>1 DEF ReturnedInv
  <2>5. WaitingInv'
    BY <1>0, <1>1, <1>2, <2>1 DEF WaitingInv
  <2> QED BY <1>2, <1>13, <2>1, <2>2, <2>3, <2>4, <2>5
<1>8. CASE PersistPendingFails(q)
  <2>1. /\ pc[q] = "registered" /\ pc'[q] = "done" /\ verdict'[q] = "error"
        /\ pending' = pending \ {q}
        /\ UNCHANGED <<decision, row, job>>
    BY <1>8 DEF PersistPendingFails, Return, TypeOK
  <2>2. UndecidedInv'
    BY <1>0, <1>1, <1>2, <2>1 DEF UndecidedInv
  <2>3. CarriedInv'
    BY <1>0, <1>1, <1>2, <2>1 DEF CarriedInv
  <2>4. ReturnedInv'
    BY <1>0, <1>1, <2>1 DEF ReturnedInv, Decision
  <2>5. WaitingInv'
    BY <1>0, <1>1, <1>2, <2>1 DEF WaitingInv
  <2> QED BY <1>2, <1>13, <2>1, <2>2, <2>3, <2>4, <2>5
<1>9. CASE PublishAsked(q)
  <2>1. /\ pc[q] = "stored" /\ pc'[q] = "parked"
        /\ UNCHANGED <<decision, verdict, pending, chan, row, job>>
    BY <1>9 DEF PublishAsked, TypeOK
  <2>2. UndecidedInv'
    BY <1>0, <1>1, <1>2, <2>1 DEF UndecidedInv
  <2>3. CarriedInv'
    BY <1>0, <1>1, <1>2, <2>1 DEF CarriedInv
  <2>4. ReturnedInv'
    BY <1>0, <1>1, <2>1 DEF ReturnedInv
  <2>5. WaitingInv'
    BY <1>0, <1>1, <1>2, <2>1 DEF WaitingInv
  <2> QED BY <1>2, <1>13, <2>1, <2>2, <2>3, <2>4, <2>5
<1>10. CASE Receive(q)
  <2>1. /\ pc[q] = "parked" /\ pc'[q] = "done" /\ chan[q] # None
        /\ verdict'[q] = chan[q]
        /\ UNCHANGED <<decision, pending, chan, row, job>>
    BY <1>10 DEF Receive, Return, TypeOK
  <2>2. /\ replied[q] # NoneRep
        /\ Grants(replied[q]) <=> chan[q] = "allow"
        /\ q \notin pending
    BY <2>1 DEF CarriedInv, ParkedInv
  <2>3. UndecidedInv'
    BY <1>0, <1>1, <1>2, <2>1 DEF UndecidedInv
  <2>4. CarriedInv'
    BY <1>0, <1>1, <1>2, <2>1 DEF CarriedInv
  <2>5. ReturnedInv'
    BY <1>0, <1>1, <2>1, <2>2 DEF ReturnedInv
  <2>6. WaitingInv'
    BY <1>0, <1>1, <1>2, <2>1, <2>2 DEF WaitingInv
  <2> QED BY <1>2, <1>13, <2>1, <2>3, <2>4, <2>5, <2>6
<1>11. CASE CtxDone(q)
  <2>1. /\ pc[q] = "parked" /\ pc'[q] = "aborting"
        /\ ThreadOf[q] \in cancelled
        /\ job' = [job EXCEPT ![q] = AbortJob(q)]
        /\ UNCHANGED <<decision, verdict, pending, chan, row>>
    BY <1>11 DEF CtxDone, TypeOK
  <2>2. /\ AbortJob(q).stage = "claim" /\ AbortJob(q).req = q
        /\ AbortJob(q).decision = "allow" <=> GrantingRow(AbortJob(q).stored)
        /\ AbortJob(q).decision = "allow" <=> Grants(AbortJob(q))
    BY DEF AbortJob, Resolve, GrantingRow, Grants
  <2>3. \A r \in Req, x \in Proc :
          /\ Settling(x, r)' <=> Settling(x, r)
          /\ Settling(x, r) => job'[x] = job[x]
    BY <1>3, <2>1, <2>2, SettlersStay DEF Proc, Idle
  <2>4. /\ job'[q] = AbortJob(q)
        /\ \A x \in Proc : x # q => job'[x] = job[x]
    BY <2>1 DEF TypeOK, Proc
  <2>5. JobsCohere'
    BY <2>2, <2>4 DEF JobsCohere
  <2>6. UndecidedInv'
    BY <1>0, <1>1, <2>1, <2>3 DEF UndecidedInv
  <2>7. CarriedInv'
    BY <1>0, <1>1, <2>1, <2>3 DEF CarriedInv
  <2>8. ReturnedInv'
    BY <1>0, <1>1, <2>1 DEF ReturnedInv
  <2>9. WaitingInv'
    BY <1>0, <1>1, <2>1, <2>2, <2>3, <2>4 DEF WaitingInv, Proc
  <2> QED BY <1>13, <2>5, <2>6, <2>7, <2>8, <2>9
<1>12. CASE AbortReturn(q)
  <2>1. /\ pc[q] = "aborting" /\ pc'[q] = "done" /\ job[q].stage = "none"
        /\ verdict'[q] = "denied"
        /\ UNCHANGED <<decision, pending, chan, row, job>>
    BY <1>12 DEF AbortReturn, Return, Idle, TypeOK
  <2>2. ThreadOf[q] \in cancelled /\ q \notin pending
    BY <2>1 DEF ReturnedInv, WaitingInv
  <2>3. UndecidedInv'
    BY <1>0, <1>1, <1>2, <2>1 DEF UndecidedInv
  <2>4. CarriedInv'
    BY <1>0, <1>1, <1>2, <2>1 DEF CarriedInv
  <2>5. ReturnedInv'
    BY <1>0, <1>1, <2>1, <2>2 DEF ReturnedInv
  <2>6. WaitingInv'
    BY <1>0, <1>1, <1>2, <2>1, <2>2 DEF WaitingInv
  <2> QED BY <1>2, <1>13, <2>1, <2>3, <2>4, <2>5, <2>6
<1> QED BY <1>4, <1>5, <1>6, <1>7, <1>8, <1>9, <1>10, <1>11, <1>12 DEF AskStep

LEMMA AgreeReply ==
  ASSUME AgreeInv, NEW p \in Replier,
         \/ ReplyStep(p)
         \/ \E r \in Req, response \in Response : ReplyLookup(p, r, response)
  PROVE  AgreeParts'
<1> USE DEF AgreeInv, AgreeParts, SettleInv, askVars
<1>1. UNCHANGED <<pc, decision, verdict, cancelled, pending, chan, row, replied>>
  BY DEF ReplyStep, Snapshot, Sweep, ReplyReturn, ReplyLookup
<1>8. IdleInv'
  BY DEF ReplyStep, Snapshot, Sweep, ReplyReturn, ReplyLookup, IdleInv, Idle,
     TypeOK, Proc
<1>2. ASSUME \A r \in Req, x \in Proc :
               /\ Settling(x, r)' <=> Settling(x, r)
               /\ Settling(x, r) => job'[x] = job[x],
             \A r \in Req : job'[r] = job[r]
      PROVE  UndecidedInv' /\ CarriedInv' /\ ReturnedInv' /\ WaitingInv'
  <2>1. UndecidedInv' /\ ReturnedInv'
    BY <1>1, <1>2 DEF UndecidedInv, ReturnedInv
  <2>2. CarriedInv'
    BY <1>1, <1>2 DEF CarriedInv
  <2>3. WaitingInv'
    BY <1>1, <1>2 DEF WaitingInv
  <2> QED BY <2>1, <2>2, <2>3
<1>3. CASE UNCHANGED job
  <2>1. JobsCohere' BY <1>3 DEF JobsCohere
  <2> QED BY <1>2, <1>3, <1>8, <2>1 DEF Settling
<1>4. ASSUME NEW r \in Req, NEW response, NEW j,
             j \in {AnswerJob(r, response), SweepJob(r, response)},
             job' = [job EXCEPT ![p] = j], job[p].stage \in {"claim", "none"}
      PROVE  AgreeParts'
  <2>1. /\ j.stage = "claim"
        /\ j.decision = "allow" <=> GrantingRow(j.stored)
        /\ j.decision = "allow" <=> Grants(j)
    BY <1>4, StartedJobsCohere
  <2>2. p \in Proc /\ p \notin Req
    BY PermissionAssumption DEF Proc
  <2>3. /\ job'[p] = j
        /\ \A x \in Proc : x # p => job'[x] = job[x]
    BY <1>4, <2>2 DEF TypeOK
  <2>4. JobsCohere'
    BY <2>1, <2>3 DEF JobsCohere
  <2>5. \A r0 \in Req, x \in Proc :
          /\ Settling(x, r0)' <=> Settling(x, r0)
          /\ Settling(x, r0) => job'[x] = job[x]
    BY <1>4, <2>1, <2>2, SettlersStay
  <2> QED BY <1>2, <1>8, <2>2, <2>3, <2>4, <2>5 DEF Proc
<1>5. CASE Snapshot(p) \/ ReplyReturn(p)
  BY <1>3, <1>5 DEF Snapshot, ReplyReturn
<1>6. CASE Sweep(p)
  <2>1. PICK r \in todo[p] : job' = [job EXCEPT ![p] = SweepJob(r, call[p].response)]
    BY <1>6 DEF Sweep
  <2>2. r \in Req /\ job[p].stage = "none"
    BY <1>6, <2>1 DEF Sweep, Idle, TypeOK
  <2> QED BY <1>4, <2>1, <2>2
<1>7. ASSUME NEW r \in Req, NEW response \in Response, ReplyLookup(p, r, response)
      PROVE  AgreeParts'
  BY <1>4, <1>7 DEF ReplyLookup, IdleInv, Idle
<1> QED BY <1>5, <1>6, <1>7 DEF ReplyStep

LEMMA AgreeNext == AgreeInv /\ [Next]_vars => AgreeInv'
<1> SUFFICES ASSUME AgreeInv, [Next]_vars PROVE AgreeInv' OBVIOUS
<1>1. SettleInv' BY SettleNext DEF AgreeInv
<1>2. AgreeParts'
  <2>1. CASE UNCHANGED vars
    BY <2>1 DEF vars, askVars, replyVars, AgreeInv, AgreeParts, JobsCohere,
       UndecidedInv, CarriedInv, ReturnedInv, WaitingInv, IdleInv, Idle, Settling
  <2>2. ASSUME NEW t \in Thread, CancelTurn(t) PROVE AgreeParts'
    BY <2>2 DEF CancelTurn, replyVars, AgreeInv, AgreeParts, JobsCohere,
       UndecidedInv, CarriedInv, ReturnedInv, WaitingInv, IdleInv, Idle, Settling
  <2> QED BY <2>1, <2>2, AgreeResolve, AgreeAsk, AgreeReply DEF Next
<1> QED BY <1>1, <1>2 DEF AgreeInv

LEMMA AgreeSafety == Spec => []AgreeInv
BY AgreeInit, AgreeNext, PTL DEF Spec

\* The stored row, the published permission.replied and what Ask returned name
\* one answer: a client never reads an approval of a call the engine refused, or
\* the other way round, unless the turn was aborted or its row not written.
THEOREM AnswersAgreeSafety == Spec => []AnswersAgree
<1>1. AgreeInv => AnswersAgree
  BY DEF AgreeInv, AgreeParts, UndecidedInv, CarriedInv, ReturnedInv, AnswersAgree,
     GrantingRow, Decision
<1> QED BY <1>1, AgreeSafety, PTL

-----------------------------------------------------------------------------
(***************************************************************************)
(* The service implements PermissionContract.  The answer of a request     *)
(* exists from the claim of its settler on; what later names it (the       *)
(* publication, the channel, the verdict) is the same answer by CarriedInv.*)
(***************************************************************************)

\* AnswerOf, read off the state: what the rules decided, what was published, or
\* what the one process that settles the request carries.
AnswerNamed ==
  \A r \in Req :
    /\ decision[r] \in Decision => AnswerOf(r) = decision[r]
    /\ replied[r] # NoneRep =>
         AnswerOf(r) = Told(replied[r])
    /\ \A x \in Proc : Settling(x, r) => AnswerOf(r) = job[x].decision
    /\ (/\ decision[r] \notin Decision
        /\ replied[r] = NoneRep
        /\ \A x \in Proc : ~Settling(x, r)) => AnswerOf(r) = None

LEMMA AnswerCases == AgreeInv => AnswerNamed
<1> SUFFICES ASSUME AgreeInv, NEW r \in Req
             PROVE  /\ decision[r] \in Decision => AnswerOf(r) = decision[r]
                    /\ replied[r] # NoneRep =>
                         AnswerOf(r) = Told(replied[r])
                    /\ \A x \in Proc : Settling(x, r) => AnswerOf(r) = job[x].decision
                    /\ (/\ decision[r] \notin Decision
                        /\ replied[r] = NoneRep
                        /\ \A x \in Proc : ~Settling(x, r)) => AnswerOf(r) = None
  BY DEF AnswerNamed
<1> USE DEF AgreeInv, AgreeParts, SettleInv
<1>1. "ask" \notin Decision BY DEF Decision
<1>2. \A x \in Proc : Settling(x, r) =>
        /\ Settler(r) = x
        /\ decision[r] \notin Decision
        /\ replied[r] # NoneRep =>
             job[x].decision = Told(replied[r])
  <2> SUFFICES ASSUME NEW x \in Proc, Settling(x, r)
               PROVE  /\ Settler(r) = x
                      /\ decision[r] \notin Decision
                      /\ replied[r] # NoneRep =>
                           job[x].decision = Told(replied[r])
    OBVIOUS
  <2>1. \A y \in Proc : Settling(y, r) => y = x
    BY DEF SettlerInv
  <2>2. Settler(r) = x
    BY <2>1 DEF Settler
  <2>3. decision[r] \notin Decision
    BY <1>1 DEF UndecidedInv
  <2>4. ASSUME replied[r] # NoneRep
        PROVE  job[x].decision = Told(replied[r])
    <3>1. job[x].stage = "deliver" /\ job[x].decision \in Decision
      BY <2>4 DEF SettlerInv, Settling, TypeOK, Job, NoJob
    <3>2. Grants(replied[r]) <=> job[x].decision = "allow"
      BY <3>1 DEF CarriedInv
    <3> QED BY <3>1, <3>2 DEF Decision, Told
  <2> QED BY <2>2, <2>3, <2>4
<1>3. CASE decision[r] \in Decision
  BY <1>1, <1>2, <1>3 DEF AnswerOf, UndecidedInv
<1>4. CASE decision[r] \notin Decision /\ \E x \in Proc : Settling(x, r)
  BY <1>2, <1>4 DEF AnswerOf
<1>5. CASE decision[r] \notin Decision /\ ~\E x \in Proc : Settling(x, r)
  BY <1>5 DEF AnswerOf
<1> QED BY <1>3, <1>4, <1>5

LEMMA AnswerCasesNext == AgreeInv' => AnswerNamed'
BY AnswerCases, PTL

\* The contract's step a change of one request's status or answer amounts to.
StatusMap == [r \in Req |-> StatusOf(r)]
AnswerMap == [r \in Req |-> AnswerOf(r)]

LEMMA StatusKept ==
  ASSUME NEW r \in Req,
         \/ pc'[r] = pc[r] /\ verdict'[r] = verdict[r]
         \/ pc[r] \notin {"new", "done"} /\ pc'[r] \notin {"new", "done"}
  PROVE  StatusOf(r)' = StatusOf(r)
BY DEF StatusOf

\* An answer does not change while the rules' decision, the publication and the
\* settler's decision do not.
LEMMA AnswerKept ==
  ASSUME AgreeInv, AgreeInv', NEW r \in Req,
         decision'[r] = decision[r], replied'[r] = replied[r],
         \A x \in Proc : /\ Settling(x, r)' <=> Settling(x, r)
                         /\ Settling(x, r) => job'[x].decision = job[x].decision
  PROVE  AnswerOf(r)' = AnswerOf(r)
<1>1. AnswerNamed /\ AnswerNamed'
  BY AnswerCases, AnswerCasesNext
<1>2. CASE \E x \in Proc : Settling(x, r)
  BY <1>1, <1>2 DEF AnswerNamed
<1>3. CASE ~\E x \in Proc : Settling(x, r)
  BY <1>1, <1>3 DEF AnswerNamed
<1> QED BY <1>2, <1>3

\* A step that leaves every request's status and answer alone is a stutter of
\* the contract.
LEMMA ContractStutter ==
  ASSUME \A r \in Req : StatusOf(r)' = StatusOf(r) /\ AnswerOf(r)' = AnswerOf(r),
         UNCHANGED cancelled
  PROVE  UNCHANGED Contract!vars
BY DEF Contract!vars

LEMMA ResolveRefines ==
  ASSUME AgreeInv, AgreeInv', NEW z \in Proc, ResolveStep(z)
  PROVE  Contract!Next \/ UNCHANGED Contract!vars
<1> USE DEF AgreeInv, AgreeParts, SettleInv, askVars, replyVars
<1>0. PICK q \in Req : /\ q = job[z].req /\ job[z] \in Job
                       /\ \A y \in Proc : y # z => job'[y] = job[y]
  BY ResolveMoves
<1>1. UNCHANGED <<pc, decision, verdict, cancelled>>
  BY DEF ResolveStep, Claim, Store, Publish, Deliver
<1>2. \A r \in Req : StatusOf(r)' = StatusOf(r)
  BY <1>1, StatusKept
<1>3. AnswerNamed /\ AnswerNamed'
  BY AnswerCases, AnswerCasesNext
<1>4. \A r \in Req, y \in Proc : r # q => (Settling(y, r)' <=> Settling(y, r))
  BY <1>0, ResolveMoves DEF Settling, Job, NoJob
<1>5. \A r \in Req, y \in Proc : Settling(y, r) /\ r # q => job'[y] = job[y]
  BY <1>0 DEF Settling
<1>6. \A r \in Req : r # q => replied'[r] = replied[r]
  BY <1>0 DEF ResolveStep, Claim, Store, Publish, Deliver, TypeOK
<1>7. \A r \in Req : r # q => AnswerOf(r)' = AnswerOf(r)
  BY <1>1, <1>4, <1>5, <1>6, AnswerKept
<1>8. CASE AnswerOf(q)' = AnswerOf(q)
  <2>1. \A r \in Req : StatusOf(r)' = StatusOf(r) /\ AnswerOf(r)' = AnswerOf(r)
    BY <1>2, <1>7, <1>8
  <2> QED BY <1>1, <2>1, ContractStutter
<1>9. CASE Claim(z) /\ q \in pending
  <2>1. decision[q] \notin Decision /\ replied[q] = NoneRep /\ pc[q] \notin {"new", "done"}
    BY <1>0, <1>9 DEF ParkedInv, WaitingInv, UndecidedInv
  <2>2. \A x \in Proc : ~Settling(x, q)
    BY <1>0, <1>9 DEF SettlerInv
  <2>3. Settling(z, q)' /\ job'[z].decision = job[z].decision
    BY <1>0, <1>9 DEF Claim, Claims, Settling, TypeOK, Job
  <2>4. AnswerOf(q) = None /\ AnswerOf(q)' = job[z].decision
    BY <1>0, <1>3, <2>1, <2>2, <2>3 DEF AnswerNamed
  <2>5. StatusOf(q) = "waiting"
    BY <2>1 DEF StatusOf
  <2>6. job[z].decision \in {"allow", "denied"}
    BY <1>0 DEF Job, Decision
  <2>7. Contract!Answer(q, job[z].decision)
    <3>1. AnswerMap' = [AnswerMap EXCEPT ![q] = job[z].decision]
      BY <1>0, <1>7, <2>4 DEF AnswerMap
    <3>2. StatusMap' = StatusMap
      BY <1>2 DEF StatusMap
    <3> QED BY <1>0, <1>1, <2>4, <2>5, <3>1, <3>2 DEF Contract!Answer, StatusMap, AnswerMap, None
  <2> QED BY <1>0, <2>6, <2>7 DEF Contract!Next
<1>10. CASE Claim(z) /\ q \notin pending
  <2>1. \A y \in Proc : Settling(y, q)' <=> Settling(y, q)
    BY <1>0, <1>10 DEF Claim, Claims, Settling, TypeOK, NoJob
  <2>2. \A y \in Proc : Settling(y, q) => job'[y] = job[y]
    BY <1>0, <1>10 DEF Claim, Settling
  <2>3. replied' = replied
    BY <1>10 DEF Claim
  <2> QED BY <1>0, <1>1, <1>8, <2>1, <2>2, <2>3, AnswerKept
<1>11. CASE Store(z)
  <2>1. \A y \in Proc : Settling(y, q)' <=> Settling(y, q)
    BY <1>0, <1>11 DEF Store, Settling, TypeOK, Job
  <2>2. \A y \in Proc : Settling(y, q) => job'[y].decision = job[y].decision
    BY <1>0, <1>11 DEF Store, TypeOK, Job
  <2>3. replied' = replied
    BY <1>11 DEF Store
  <2> QED BY <1>0, <1>1, <1>8, <2>1, <2>2, <2>3, AnswerKept
<1>12. CASE Publish(z) \/ Deliver(z)
  <2>1. Settling(z, q)
    BY <1>0, <1>12 DEF Publish, Deliver, Settling
  <2>2. AnswerOf(q) = job[z].decision
    BY <1>0, <1>3, <2>1 DEF AnswerNamed
  <2>3. replied'[q] # NoneRep /\ (Grants(replied'[q]) <=> job[z].decision = "allow")
    <3>1. CASE Publish(z)
      BY <1>0, <3>1 DEF Publish, JobsCohere, TypeOK, NoneRep, None, Job, Response, Grants
    <3>2. CASE Deliver(z)
      BY <1>0, <2>1, <3>2 DEF Deliver, CarriedInv
    <3> QED BY <1>12, <3>1, <3>2
  <2>4. AnswerOf(q)' = Told(replied'[q])
    BY <1>0, <1>3, <2>3 DEF AnswerNamed
  <2>5. AnswerOf(q)' = AnswerOf(q)
    BY <1>0, <2>2, <2>3, <2>4 DEF Job, Decision, Told
  <2> QED BY <1>8, <2>5
<1> QED BY <1>9, <1>10, <1>11, <1>12 DEF ResolveStep

LEMMA AskRefines ==
  ASSUME AgreeInv, AgreeInv', NEW q \in Req, AskStep(q)
  PROVE  Contract!Next \/ UNCHANGED Contract!vars
<1> USE DEF AgreeInv, AgreeParts, SettleInv, replyVars
<1>1. /\ UNCHANGED <<replied, cancelled>>
      /\ \A r \in Req : r # q => /\ pc'[r] = pc[r]
                                 /\ decision'[r] = decision[r]
                                 /\ verdict'[r] = verdict[r]
  BY DEF AskStep, Decide, PersistDecided, Register, PersistPending, Return,
     PersistPendingFails, PublishAsked, Receive, CtxDone, AbortReturn, TypeOK
<1>2. \A r \in Req, x \in Proc :
        /\ Settling(x, r)' <=> Settling(x, r)
        /\ Settling(x, r) => job'[x] = job[x]
  <2>1. CASE UNCHANGED job
    BY <2>1 DEF Settling
  <2>2. CASE CtxDone(q)
    <3>1. q \in Proc /\ job[q].stage = "none"
      BY <2>2 DEF CtxDone, WaitingInv, Proc
    <3>2. AbortJob(q).stage = "claim"
      BY DEF AbortJob, Resolve
    <3> QED BY <2>2, <3>1, <3>2, SettlersStay DEF CtxDone
  <2> QED BY <2>1, <2>2 DEF AskStep, Decide, PersistDecided, Register,
             PersistPending, PersistPendingFails, PublishAsked, Receive, AbortReturn
<1>3. \A r \in Req : decision'[r] = decision[r] => AnswerOf(r)' = AnswerOf(r)
  BY <1>1, <1>2, AnswerKept
<1>4. \A r \in Req : r # q => StatusOf(r)' = StatusOf(r) /\ AnswerOf(r)' = AnswerOf(r)
  BY <1>1, <1>3, StatusKept
<1>5. AnswerNamed /\ AnswerNamed'
  BY AnswerCases, AnswerCasesNext
<1>6. CASE Decide(q)
  <2>1. /\ pc[q] = "new" /\ pc'[q] = "decided" /\ decision'[q] \in Verdict
        /\ UNCHANGED job
    BY <1>6, DecisionsAreVerdicts DEF Decide, TypeOK
  <2>2. replied[q] = NoneRep /\ \A x \in Proc : ~Settling(x, q)'
    BY <1>2, <2>1 DEF FreshInv, SettlerInv
  <2>3. AnswerOf(q)' \in {"none", "allow", "denied"}
    BY <1>1, <1>5, <2>1, <2>2 DEF AnswerNamed, Decision, None
  <2>4. StatusOf(q) = "unasked" /\ StatusOf(q)' = "waiting"
    BY <2>1 DEF StatusOf
  <2>5. StatusMap' = [StatusMap EXCEPT ![q] = "waiting"]
    BY <1>4, <2>4 DEF StatusMap
  <2>6. AnswerMap' = [AnswerMap EXCEPT ![q] = AnswerOf(q)']
    BY <1>4 DEF AnswerMap
  <2>7. Contract!Ask(q, AnswerOf(q)')
    BY <1>1, <2>4, <2>5, <2>6 DEF Contract!Ask, StatusMap, AnswerMap
  <2> QED BY <2>3, <2>7 DEF Contract!Next
<1>7. CASE Register(q) \/ PersistPending(q) \/ PublishAsked(q) \/ CtxDone(q)
  <2>1. /\ pc[q] \notin {"new", "done"} /\ pc'[q] \notin {"new", "done"}
        /\ decision' = decision
    BY <1>7 DEF Register, PersistPending, PublishAsked, CtxDone, TypeOK
  <2> QED BY <1>1, <1>3, <1>4, <2>1, StatusKept, ContractStutter
<1>8. ASSUME NEW v \in Decision \cup {"error"},
             pc[q] \notin {"new", "done"}, Return(q, v), UNCHANGED decision,
             v = AnswerOf(q) \/ v = "error" \/
               (v = "denied" /\ AnswerOf(q) = "allow" /\ ThreadOf[q] \in cancelled)
      PROVE  Contract!Next
  <2> DEFINE s == Outcome(v)
  <2>1. StatusOf(q) = "waiting" /\ StatusOf(q)' = s
    BY <1>8 DEF StatusOf, Return, TypeOK, Decision
  <2>2. StatusMap' = [StatusMap EXCEPT ![q] = s]
    BY <1>4, <2>1 DEF StatusMap
  <2>3. AnswerMap' = AnswerMap
    BY <1>3, <1>8 DEF AnswerMap
  <2>4. Contract!Conclude(q)
    BY <1>1, <1>8, <2>1, <2>2, <2>3 DEF Contract!Conclude, StatusMap, AnswerMap, Decision, Outcome
  <2> QED BY <2>4 DEF Contract!Next
<1>9. CASE PersistDecided(q)
  <2>1. decision[q] \in Decision
    BY <1>9 DEF PersistDecided, UndecidedInv, TypeOK, Verdict, Decision
  <2>2. AnswerOf(q) = decision[q]
    BY <1>5, <2>1 DEF AnswerNamed
  <2> QED BY <1>8, <1>9, <2>1, <2>2 DEF PersistDecided
<1>10. CASE PersistPendingFails(q)
  BY <1>8, <1>10 DEF PersistPendingFails
<1>11. CASE Receive(q)
  <2>1. /\ replied[q] # NoneRep /\ chan[q] \in Decision
        /\ Grants(replied[q]) <=> chan[q] = "allow"
    BY <1>11 DEF Receive, CarriedInv, TypeOK
  <2>2. AnswerOf(q) = chan[q]
    BY <1>5, <2>1 DEF AnswerNamed, Decision, Told
  <2> QED BY <1>8, <1>11, <2>1, <2>2 DEF Receive
<1>12. CASE AbortReturn(q)
  <2>1. /\ pc[q] = "aborting" /\ Return(q, "denied") /\ q \notin pending
        /\ ThreadOf[q] \in cancelled /\ UNCHANGED decision
    BY <1>12 DEF AbortReturn, Idle, WaitingInv, ReturnedInv
  <2>2. AnswerOf(q) \in Decision
    <3>1. CASE replied[q] # NoneRep
      BY <1>5, <3>1 DEF AnswerNamed, Decision, Told
    <3>2. CASE \E x \in Proc : Settling(x, q)
      BY <1>5, <3>2, SMTT(30) DEF AnswerNamed, Settling, TypeOK, Job, NoJob
    <3> QED BY <2>1, <3>1, <3>2 DEF WaitingInv
  <2> QED BY <1>8, <2>1, <2>2 DEF Decision
<1> QED BY <1>6, <1>7, <1>9, <1>10, <1>11, <1>12 DEF AskStep

LEMMA ReplyRefines ==
  ASSUME AgreeInv, AgreeInv', NEW p \in Replier,
         \/ ReplyStep(p)
         \/ \E r \in Req, response \in Response : ReplyLookup(p, r, response)
  PROVE  UNCHANGED Contract!vars
<1> USE DEF AgreeInv, AgreeParts, SettleInv, askVars
<1>1. UNCHANGED <<pc, decision, verdict, cancelled, replied>>
  BY DEF ReplyStep, Snapshot, Sweep, ReplyReturn, ReplyLookup
<1>2. \A r \in Req, x \in Proc :
        /\ Settling(x, r)' <=> Settling(x, r)
        /\ Settling(x, r) => job'[x] = job[x]
  <2>1. CASE UNCHANGED job
    BY <2>1 DEF Settling
  <2>2. ASSUME NEW j, j.stage = "claim", job' = [job EXCEPT ![p] = j], Idle(p)
        PROVE  \A r \in Req, x \in Proc :
                 /\ Settling(x, r)' <=> Settling(x, r)
                 /\ Settling(x, r) => job'[x] = job[x]
    BY <2>2, SettlersStay DEF Proc, Idle
  <2>3. \A r, response : /\ AnswerJob(r, response).stage = "claim"
                         /\ SweepJob(r, response).stage = "claim"
    BY DEF AnswerJob, SweepJob, Resolve
  <2>4. rpc[p] = "idle" => Idle(p)
    BY DEF IdleInv
  <2> QED BY <2>1, <2>2, <2>3, <2>4 DEF ReplyStep, Snapshot, Sweep, ReplyReturn, ReplyLookup
<1>3. \A r \in Req : StatusOf(r)' = StatusOf(r) /\ AnswerOf(r)' = AnswerOf(r)
  BY <1>1, <1>2, StatusKept, AnswerKept
<1> QED BY <1>1, <1>3, ContractStutter

LEMMA ContractInit == Init => Contract!Init
<1> SUFFICES ASSUME Init PROVE Contract!Init OBVIOUS
<1>1. \A r \in Req : StatusOf(r) = "unasked"
  BY DEF Init, StatusOf
<1>2. AnswerNamed
  BY AgreeInit, AnswerCases
<1>3. \A r \in Req : AnswerOf(r) = None
  BY <1>2 DEF Init, AnswerNamed, Settling, NoJob, Decision, None
<1> QED BY <1>1, <1>3 DEF Init, Contract!Init, None

LEMMA ContractNext == AgreeInv /\ AgreeInv' /\ [Next]_vars => [Contract!Next]_Contract!vars
<1> SUFFICES ASSUME AgreeInv, AgreeInv', [Next]_vars
             PROVE  Contract!Next \/ UNCHANGED Contract!vars
  OBVIOUS
<1>1. CASE UNCHANGED vars
  <2>1. UNCHANGED <<pc, verdict, decision, replied, job, cancelled>>
    BY <1>1 DEF vars, askVars, replyVars
  <2>2. \A r \in Req : StatusOf(r)' = StatusOf(r) /\ AnswerOf(r)' = AnswerOf(r)
    BY <2>1, StatusKept, AnswerKept DEF Settling
  <2> QED BY <2>1, <2>2, ContractStutter
<1>2. ASSUME NEW t \in Thread, CancelTurn(t) PROVE Contract!Next
  <2>1. UNCHANGED <<pc, verdict, decision, replied, job>>
    BY <1>2 DEF CancelTurn
  <2>2. \A r \in Req : StatusOf(r)' = StatusOf(r) /\ AnswerOf(r)' = AnswerOf(r)
    BY <2>1, StatusKept, AnswerKept DEF Settling
  <2>3. Contract!Abort(t)
    BY <1>2, <2>2 DEF CancelTurn, Contract!Abort
  <2> QED BY <2>3 DEF Contract!Next
<1> QED BY <1>1, <1>2, ResolveRefines, AskRefines, ReplyRefines DEF Next

\* The service keeps the contract the engine relies on: one answer per request,
\* never changed, and an Ask that returns it or, in an aborted turn, a denial.
THEOREM ContractImplemented == Spec => ImplementsContract
<1>1. Init => Contract!Init BY ContractInit
<1>2. AgreeInv /\ AgreeInv' /\ [Next]_vars => [Contract!Next]_Contract!vars
  BY ContractNext
<1> QED BY <1>1, <1>2, AgreeSafety, PTL DEF Spec, ImplementsContract, Contract!Spec

-----------------------------------------------------------------------------
(***************************************************************************)
(* A reply settles all it was to settle.  A request that leaves the map    *)
(* never comes back, so what was owed at the lookup and is parked at the   *)
(* snapshot is in the snapshot, and what the sweep took is claimed.        *)
(***************************************************************************)
OwedInv ==
  \A p \in Replier : \A e \in owed[p] :
    /\ pc[e] \notin {"new", "decided"}
    /\ rpc[p] = "answering" /\ e \in pending =>
         e \in SweepSet(call[p].req, call[p].response)
    /\ rpc[p] = "sweeping" /\ e \in pending =>
         e \in todo[p] \/ (job[p].stage = "claim" /\ job[p].req = e)

SweptInv == SettleInv /\ OwedInv

LEMMA SweepInit == Init => SweptInv
BY SettleInit DEF Init, SweptInv, OwedInv

\* Other processes' steps: the map only loses requests that were registered.
LEMMA OwedFrame ==
  ASSUME OwedInv, TypeOK, UNCHANGED <<rpc, call, todo, owed>>,
         \A e \in Req : pc[e] \notin {"new", "decided"} =>
           /\ pc'[e] \notin {"new", "decided"}
           /\ e \in pending' => e \in pending,
         \A p \in Replier : \A e \in Req :
           job[p].stage = "claim" /\ job[p].req = e /\ e \in pending' =>
             job'[p] = job[p]
  PROVE  OwedInv'
<1> SUFFICES ASSUME NEW p \in Replier, NEW e \in owed[p]
             PROVE  /\ pc'[e] \notin {"new", "decided"}
                    /\ rpc[p] = "answering" /\ e \in pending' =>
                         e \in SweepSet(call[p].req, call[p].response)'
                    /\ rpc[p] = "sweeping" /\ e \in pending' =>
                         e \in todo[p] \/ (job'[p].stage = "claim" /\ job'[p].req = e)
  BY DEF OwedInv, SweepSet, SessionPending, Session, Covered
<1>1. e \in Req BY DEF TypeOK
<1>2. pc'[e] \notin {"new", "decided"} /\ (e \in pending' => e \in pending)
  BY <1>1 DEF OwedInv
<1>3. rpc[p] = "answering" /\ e \in pending' =>
        e \in SweepSet(call[p].req, call[p].response)'
  <2> SUFFICES ASSUME rpc[p] = "answering", e \in pending'
               PROVE  e \in SweepSet(call[p].req, call[p].response)'
    OBVIOUS
  <2>1. e \in SweepSet(call[p].req, call[p].response)
    BY <1>2 DEF OwedInv
  <2> QED BY <2>1 DEF SweepSet, SessionPending, Session, Covered
<1>4. rpc[p] = "sweeping" /\ e \in pending' =>
        e \in todo[p] \/ (job'[p].stage = "claim" /\ job'[p].req = e)
  BY <1>1, <1>2 DEF OwedInv
<1> QED BY <1>2, <1>3, <1>4

LEMMA OwedNext == SweptInv /\ [Next]_vars => SweptInv'
<1> SUFFICES ASSUME SweptInv, [Next]_vars PROVE OwedInv'
  BY SettleNext DEF SweptInv
<1> USE DEF SweptInv, SettleInv
<1>1. CASE UNCHANGED vars
  BY <1>1, OwedFrame DEF vars, askVars, replyVars
<1>2. ASSUME NEW z \in Proc, ResolveStep(z) PROVE OwedInv'
  <2>1. UNCHANGED <<rpc, call, todo, owed, pc>> /\ pending' \subseteq pending
    BY <1>2 DEF ResolveStep, Claim, Store, Publish, Deliver, askVars, replyVars
  <2>2. \A p \in Replier : \A e \in Req :
          job[p].stage = "claim" /\ job[p].req = e /\ e \in pending' =>
            job'[p] = job[p]
    BY <1>2 DEF ResolveStep, Claim, Store, Publish, Deliver, TypeOK, Proc
  <2> QED BY <2>1, <2>2, OwedFrame
<1>3. ASSUME NEW q \in Req, AskStep(q) PROVE OwedInv'
  <2>1. UNCHANGED <<rpc, call, todo, owed>>
    BY <1>3 DEF AskStep, Decide, PersistDecided, Register, PersistPending, replyVars,
       PersistPendingFails, PublishAsked, Receive, CtxDone, AbortReturn
  <2>2. \A e \in Req : pc[e] \notin {"new", "decided"} =>
          /\ pc'[e] \notin {"new", "decided"}
          /\ e \in pending' => e \in pending
    BY <1>3 DEF AskStep, Decide, PersistDecided, Register, PersistPending, Return,
       PersistPendingFails, PublishAsked, Receive, CtxDone, AbortReturn, TypeOK
  <2>3. \A p \in Replier : job'[p] = job[p]
    BY <1>3, PermissionAssumption DEF AskStep, Decide, PersistDecided, Register,
       PersistPending, PersistPendingFails, PublishAsked, Receive, CtxDone,
       AbortReturn, TypeOK, Proc
  <2> QED BY <2>1, <2>2, <2>3, OwedFrame
<1>4. ASSUME NEW t \in Thread, CancelTurn(t) PROVE OwedInv'
  BY <1>4, OwedFrame DEF CancelTurn, replyVars
<1>5. ASSUME NEW p \in Replier, NEW r \in Req, NEW response \in Response,
             ReplyLookup(p, r, response)
      PROVE  OwedInv'
  <2>1. /\ UNCHANGED <<pc, pending, todo>>
        /\ rpc'[p] = "answering" /\ owed'[p] = SweepSet(r, response)
        /\ call'[p].req = r /\ call'[p].response = response
        /\ \A h \in Replier : h # p => /\ rpc'[h] = rpc[h]
                                       /\ owed'[h] = owed[h]
                                       /\ call'[h] = call[h]
                                       /\ job'[h] = job[h]
    BY <1>5 DEF ReplyLookup, TypeOK, Proc, askVars
  <2>2. \A e \in SweepSet(r, response) : pc[e] \notin {"new", "decided"}
    BY SweepsAreParked DEF ParkedInv
  <2>3. \A h \in Replier : SweepSet(call'[h].req, call'[h].response)
                             = SweepSet(call[h].req, call[h].response)'
    BY <2>1 DEF SweepSet, SessionPending, Session, Covered
  <2> QED BY <2>1, <2>2, <2>3 DEF OwedInv
<1>6. ASSUME NEW p \in Replier, Snapshot(p) PROVE OwedInv'
  <2>1. /\ UNCHANGED <<pc, pending, owed, call, job>>
        /\ rpc[p] = "answering" /\ rpc'[p] = "sweeping"
        /\ todo'[p] = SweepSet(call[p].req, call[p].response)
        /\ \A h \in Replier : h # p => rpc'[h] = rpc[h] /\ todo'[h] = todo[h]
    BY <1>6 DEF Snapshot, TypeOK, askVars
  <2>2. \A h \in Replier : SweepSet(call[h].req, call[h].response)
                             = SweepSet(call[h].req, call[h].response)'
    BY <2>1 DEF SweepSet, SessionPending, Session, Covered
  <2> QED BY <2>1, <2>2 DEF OwedInv
<1>7. ASSUME NEW p \in Replier, Sweep(p) PROVE OwedInv'
  <2>1. PICK r \in todo[p] : /\ todo' = [todo EXCEPT ![p] = @ \ {r}]
                             /\ job' = [job EXCEPT ![p] = SweepJob(r, call[p].response)]
    BY <1>7 DEF Sweep
  <2>2. /\ UNCHANGED <<pc, pending, owed, call, rpc>> /\ Idle(p)
        /\ job'[p].stage = "claim" /\ job'[p].req = r
        /\ todo'[p] = todo[p] \ {r}
        /\ \A h \in Replier : h # p => job'[h] = job[h] /\ todo'[h] = todo[h]
    BY <1>7, <2>1 DEF Sweep, SweepJob, Resolve, TypeOK, Proc, askVars
  <2>3. \A h \in Replier : SweepSet(call[h].req, call[h].response)
                             = SweepSet(call[h].req, call[h].response)'
    BY <2>2 DEF SweepSet, SessionPending, Session, Covered
  <2> QED BY <2>2, <2>3 DEF OwedInv, Idle
<1>8. ASSUME NEW p \in Replier, ReplyReturn(p) PROVE OwedInv'
  <2>1. /\ UNCHANGED <<pc, pending, todo, job>> /\ owed'[p] = {}
        /\ \A h \in Replier : h # p => /\ rpc'[h] = rpc[h]
                                       /\ owed'[h] = owed[h]
                                       /\ call'[h] = call[h]
    BY <1>8 DEF ReplyReturn, TypeOK, askVars
  <2>2. \A h \in Replier : SweepSet(call'[h].req, call'[h].response)
                             = SweepSet(call[h].req, call[h].response)'
    BY <2>1 DEF SweepSet, SessionPending, Session, Covered
  <2> QED BY <2>1, <2>2 DEF OwedInv
<1> QED BY <1>1, <1>2, <1>3, <1>4, <1>5, <1>6, <1>7, <1>8 DEF Next, ReplyStep

\* A reject leaves no request of the session parked behind it, and an always
\* none that its patterns cover, of those that were parked when the answer was
\* looked up: Reply returns only when its sweep has claimed them all.
THEOREM SweepIsCompleteSafety == Spec => SweepIsComplete
<1> DEFINE Swept == \A p \in Replier : rpc[p] = "sweeping" /\ rpc'[p] = "idle" =>
                      owed[p] \cap pending = {}
<1>1. SweptInv /\ Next => Swept
  <2> SUFFICES ASSUME SweptInv, Next, NEW p \in Replier,
                      rpc[p] = "sweeping", rpc'[p] = "idle"
               PROVE  owed[p] \cap pending = {}
    OBVIOUS
  <2> USE DEF SweptInv, SettleInv
  <2>1. ReplyReturn(p)
    <3>1. ASSUME NEW h \in Replier,
                 \/ ReplyStep(h)
                 \/ \E r \in Req, response \in Response : ReplyLookup(h, r, response)
          PROVE  ReplyReturn(p)
      BY <3>1 DEF ReplyStep, Snapshot, Sweep, ReplyReturn, ReplyLookup, TypeOK
    <3>2. ASSUME \/ \E z \in Proc : ResolveStep(z)
                 \/ \E q \in Req : AskStep(q)
                 \/ \E t \in Thread : CancelTurn(t)
          PROVE  UNCHANGED rpc
      BY <3>2 DEF ResolveStep, Claim, Store, Publish, Deliver, AskStep, Decide,
         PersistDecided, Register, PersistPending, PersistPendingFails, PublishAsked,
         Receive, CtxDone, AbortReturn, CancelTurn, replyVars
    <3> QED BY <3>1, <3>2 DEF Next
  <2> QED BY <2>1 DEF ReplyReturn, OwedInv, Idle
<1>2. SweptInv /\ [Next]_vars => [Swept]_vars
  BY <1>1
<1>3. Spec => []SweptInv
  BY SweepInit, OwedNext, PTL DEF Spec
<1> QED BY <1>2, <1>3, PTL DEF Spec, SweepIsComplete

=============================================================================
