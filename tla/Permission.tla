----------------------------- MODULE Permission -----------------------------
(***************************************************************************)
(* The blocking permission service of internal/permission/service.go: a    *)
(* tool call Asks, the request is parked in Service.pending until a client *)
(* Replies or the turn is aborted, and the answer is written to the        *)
(* permission table, published on the bus and delivered to the asker.      *)
(*                                                                         *)
(* Processes: one per request (the goroutine that called Ask; requests of  *)
(* one turn ask one after the other) and one per Replier (an HTTP handler  *)
(* running Reply).  Every critical section of Service.mu, every database   *)
(* statement and every publish is a step of its own, since that is where   *)
(* goroutines interleave.                                                  *)
(*                                                                         *)
(* A request id is a fresh protocol.NewID("perm") at every call site       *)
(* (session/tool_exec.go), so the branch of Ask that replaces an entry     *)
(* parked under the same id is not modelled.                               *)
(*                                                                         *)
(* Definitions that stand just before the one they vary, and that no other *)
(* definition uses (CoversSome, ClaimsAnyway, ...), are plausible bugs:    *)
(* each breaks a property below that the code satisfies.                   *)
(***************************************************************************)
EXTENDS Naturals, FiniteSets

CONSTANTS
  Req,           \* the permission requests, by request id
  Replier,       \* concurrent POST /permission/{id}/reply handlers
  Thread,        \* turns: the goroutines that ask, one request at a time
  ThreadOf,      \* [Req -> Thread]
  SessionOf,     \* [Thread -> sessions]
  PermOf,        \* [Req -> permission actions]
  Resource,      \* resources and patterns, as far as they tell requests apart
  ResourcesOf,   \* [Req -> SUBSET Resource]  Request.Resources
  AlwaysOf,      \* [Req -> SUBSET Resource]  Request.Always, what it matches
  RuleFor,       \* [Req -> [Resource -> verdict]]: builtin and config rules
  DbMayFail      \* whether a permission statement may fail

Verdict == {"allow", "denied", "ask"}
Decision == {"allow", "denied"}
Response == {"once", "always", "reject"}
Stored == {"once", "always", "rejected", "aborted"}
None == "none"

ASSUME PermissionAssumption ==
  /\ Req \cap Replier = {}
  /\ ThreadOf \in [Req -> Thread]
  /\ ResourcesOf \in [Req -> SUBSET Resource]
  /\ AlwaysOf \in [Req -> SUBSET Resource]
  /\ RuleFor \in [Req -> [Resource -> Verdict]]
  /\ DbMayFail \in BOOLEAN

VARIABLES
  pc,         \* [Req -> where its Ask stands]
  decision,   \* [Req -> Ask's local verdict]
  verdict,    \* [Req -> what Ask returned]
  pending,    \* the keys of Service.pending
  chan,       \* [Req -> what was sent on the entry's one-slot channel]
  row,        \* [Req -> response column of its permission row]
  asked,      \* requests whose permission.asked was published
  replied,    \* [Req -> the permission.replied published for it]
  cancelled,  \* turns whose context was cancelled
  rpc,        \* [Replier -> where its Reply stands]
  call,       \* [Replier -> the reply it carries]
  todo,       \* [Replier -> entries its sweep has still to resolve]
  job,        \* [Proc -> the resolve it is executing]
  said,       \* history: <<request, response>> of every granting reply looked up
  owed        \* history: [Replier -> what its reply has to settle besides]

askVars == <<pc, decision, verdict, asked, cancelled>>
replyVars == <<rpc, call, todo, said, owed>>
vars == <<askVars, replyVars, pending, chan, row, replied, job>>

Proc == Req \cup Replier

Session(r) == SessionOf[ThreadOf[r]]

-----------------------------------------------------------------------------
(* Rules and verdicts.                                                     *)

\* The verdict over the rules' answers for the resources: any deny wins, any
\* ask or missing rule asks, otherwise allow.
Combine(answers) ==
  IF "denied" \in answers THEN "denied"
  ELSE IF "ask" \in answers THEN "ask" ELSE "allow"

Evaluate(r) == Combine({RuleFor[r][x] : x \in ResourcesOf[r]})

\* storage.AlwaysRules: the patterns of the session's rows answered "always".
AlwaysRules(r) ==
  UNION {AlwaysOf[a] : a \in {b \in Req : /\ row[b] = "always"
                                          /\ Session(b) = Session(r)
                                          /\ PermOf[b] = PermOf[r]}}

\* decisionFor: always rules come last in the rule list, so they override.
DecisionFor(r, always) ==
  Combine({IF x \in always THEN "allow" ELSE RuleFor[r][x] :
             x \in ResourcesOf[r]})

\* Every resource of r matches one of the patterns of the request a.
CoversSome(r, a) == ResourcesOf[r] \cap AlwaysOf[a] # {}
Covered(r, a) == ResourcesOf[r] \subseteq AlwaysOf[a]

\* sessionPending: the other parked requests of r's session.
SessionPending(r) == {e \in pending \ {r} : Session(e) = Session(r)}

\* What Reply resolves besides the answered request: everything in the
\* session (cascade), or what the granted patterns cover (autoAllow).
SweepSet(r, response) ==
  CASE response = "reject" -> SessionPending(r)
    [] response = "always" -> {e \in SessionPending(r) :
                                 PermOf[e] = PermOf[r] /\ Covered(e, r)}
    [] OTHER -> {}

StoredResponse(d) == IF d = "allow" THEN "once" ELSE "rejected"

-----------------------------------------------------------------------------
(* resolve, as the job of a process.                                       *)

NoJob == [stage |-> "none"]
Job == [stage : {"claim", "store", "publish", "deliver"}, req : Req,
        decision : Decision, stored : Stored, reply : Response, auto : BOOLEAN]
Idle(x) == job[x].stage = "none"

Resolve(r, d, stored, reply, auto) ==
  [stage |-> "claim", req |-> r, decision |-> d, stored |-> stored,
   reply |-> reply, auto |-> auto]

AbortJob(r) == Resolve(r, "denied", "aborted", "reject", FALSE)

AnswerJobDenies(r, response) ==
  CASE response = "once" -> Resolve(r, "allow", "once", "once", FALSE)
    [] response = "always" -> Resolve(r, "denied", "always", "always", FALSE)
    [] OTHER -> Resolve(r, "denied", "rejected", "reject", FALSE)
AnswerJob(r, response) ==
  CASE response = "once" -> Resolve(r, "allow", "once", "once", FALSE)
    [] response = "always" -> Resolve(r, "allow", "always", "always", FALSE)
    [] OTHER -> Resolve(r, "denied", "rejected", "reject", FALSE)

\* Swept requests: an auto-allowed one is stored as "once", so that only an
\* explicit "always" mints always rules.
SweepJob(r, response) ==
  IF response = "always" THEN Resolve(r, "allow", "once", "always", TRUE)
  ELSE Resolve(r, "denied", "rejected", "reject", TRUE)

\* The claim: who removes the entry settles the request, nobody else.
ClaimsAnyway(r) == TRUE
Claims(r) == r \in pending

Claim(x) ==
  /\ job[x].stage = "claim"
  /\ pending' = pending \ {job[x].req}
  /\ job' = [job EXCEPT ![x] = IF Claims(@.req) THEN [@ EXCEPT !.stage = "store"]
                               ELSE NoJob]
  /\ UNCHANGED <<askVars, replyVars, chan, row, replied>>

StoreOrGiveUp(x) ==
  /\ job[x].stage = "store"
  /\ \/ /\ row' = [row EXCEPT ![job[x].req] = job[x].stored]
        /\ job' = [job EXCEPT ![x].stage = "publish"]
     \/ /\ DbMayFail
        /\ job' = [job EXCEPT ![x] = NoJob]
        /\ UNCHANGED row
  /\ UNCHANGED <<askVars, replyVars, pending, chan, replied>>

\* db.ReplyPermission is an UPDATE: no row yet means ErrNotFound, which is
\* ignored; any other error is logged and the resolve goes on.
Store(x) ==
  /\ job[x].stage = "store"
  /\ job' = [job EXCEPT ![x].stage = "publish"]
  /\ \/ row' = IF row[job[x].req] = "absent" THEN row
               ELSE [row EXCEPT ![job[x].req] = job[x].stored]
     \/ DbMayFail /\ UNCHANGED row
  /\ UNCHANGED <<askVars, replyVars, pending, chan, replied>>

Publish(x) ==
  /\ job[x].stage = "publish"
  /\ replied' = [replied EXCEPT ![job[x].req] =
                   [reply |-> job[x].reply, auto |-> job[x].auto]]
  /\ job' = [job EXCEPT ![x].stage = "deliver"]
  /\ UNCHANGED <<askVars, replyVars, pending, chan, row>>

\* The send does not block: a full channel keeps its first value.
Sent(r, d) == IF chan[r] = None THEN [chan EXCEPT ![r] = d] ELSE chan

DeliverBlocks(x) ==
  /\ job[x].stage = "deliver"
  /\ chan[job[x].req] = None
  /\ chan' = [chan EXCEPT ![job[x].req] = job[x].decision]
  /\ job' = [job EXCEPT ![x] = NoJob]
  /\ UNCHANGED <<askVars, replyVars, pending, row, replied>>
Deliver(x) ==
  /\ job[x].stage = "deliver"
  /\ chan' = Sent(job[x].req, job[x].decision)
  /\ job' = [job EXCEPT ![x] = NoJob]
  /\ UNCHANGED <<askVars, replyVars, pending, row, replied>>

-----------------------------------------------------------------------------
(* Ask.                                                                    *)

Asking(r) == pc[r] \notin {"new", "done"}
NoneRep == [reply |-> None]

\* The engine passes EvaluateRules as PreDecision; unless it is decisive, the
\* session's always rules decide (none, when loading them fails).
Decide(r) ==
  /\ pc[r] = "new"
  /\ \A q \in Req : ThreadOf[q] = ThreadOf[r] => ~Asking(q)
  /\ \E always \in {AlwaysRules(r)} \cup (IF DbMayFail \/ ThreadOf[r] \in cancelled
                                            THEN {{}} ELSE {}) :
       decision' = [decision EXCEPT ![r] =
                      IF Evaluate(r) = "ask" THEN DecisionFor(r, always)
                      ELSE Evaluate(r)]
  /\ pc' = [pc EXCEPT ![r] = "decided"]
  /\ UNCHANGED <<verdict, asked, cancelled, replyVars, pending, chan, row,
                 replied, job>>

Return(r, v) ==
  /\ verdict' = [verdict EXCEPT ![r] = v]
  /\ pc' = [pc EXCEPT ![r] = "done"]

WriteFails(r) == DbMayFail \/ ThreadOf[r] \in cancelled
WriteWorks(r) == ThreadOf[r] \notin cancelled

\* A decisive verdict stores its row and returns; a failed write is an error.
PersistDecided(r) ==
  /\ pc[r] = "decided"
  /\ decision[r] # "ask"
  /\ \/ /\ WriteWorks(r)
        /\ row' = [row EXCEPT ![r] = StoredResponse(decision[r])]
        /\ Return(r, decision[r])
     \/ /\ WriteFails(r)
        /\ Return(r, "error")
        /\ UNCHANGED row
  /\ UNCHANGED <<decision, asked, cancelled, replyVars, pending, chan,
                 replied, job>>

Register(r) ==
  /\ pc[r] = "decided"
  /\ decision[r] = "ask"
  /\ pending' = pending \cup {r}
  /\ pc' = [pc EXCEPT ![r] = "registered"]
  /\ UNCHANGED <<decision, verdict, asked, cancelled, replyVars, chan, row,
                 replied, job>>

\* persist(req, ""): the upsert writes a NULL response, whatever was there.
PersistPending(r) ==
  /\ pc[r] = "registered"
  /\ WriteWorks(r)
  /\ row' = [row EXCEPT ![r] = "null"]
  /\ pc' = [pc EXCEPT ![r] = "stored"]
  /\ UNCHANGED <<decision, verdict, asked, cancelled, replyVars, pending, chan,
                 replied, job>>

\* The rollback: drop the own entry, unblock whoever holds it, report.
PersistPendingFails(r) ==
  /\ pc[r] = "registered"
  /\ WriteFails(r)
  /\ pending' = pending \ {r}
  /\ chan' = Sent(r, "denied")
  /\ Return(r, "error")
  /\ UNCHANGED <<decision, asked, cancelled, replyVars, row, replied, job>>

PublishAsked(r) ==
  /\ pc[r] = "stored"
  /\ asked' = asked \cup {r}
  /\ pc' = [pc EXCEPT ![r] = "parked"]
  /\ UNCHANGED <<decision, verdict, cancelled, replyVars, pending, chan, row,
                 replied, job>>

Receive(r) ==
  /\ pc[r] = "parked"
  /\ chan[r] # None
  /\ Return(r, chan[r])
  /\ UNCHANGED <<decision, asked, cancelled, replyVars, pending, chan, row,
                 replied, job>>

\* The other arm of the select, taken even when an answer is in the channel.
CtxDone(r) ==
  /\ pc[r] = "parked"
  /\ ThreadOf[r] \in cancelled
  /\ job' = [job EXCEPT ![r] = AbortJob(r)]
  /\ pc' = [pc EXCEPT ![r] = "aborting"]
  /\ UNCHANGED <<decision, verdict, asked, cancelled, replyVars, pending, chan,
                 row, replied>>

AbortReturn(r) ==
  /\ pc[r] = "aborting"
  /\ Idle(r)
  /\ Return(r, "denied")
  /\ UNCHANGED <<decision, asked, cancelled, replyVars, pending, chan, row,
                 replied, job>>

\* The engine aborts the turn: its context is cancelled, once and for all.
CancelTurn(t) ==
  /\ t \notin cancelled
  /\ cancelled' = cancelled \cup {t}
  /\ UNCHANGED <<pc, decision, verdict, asked, replyVars, pending, chan, row,
                 replied, job>>

-----------------------------------------------------------------------------
(* Reply.                                                                  *)

NoCall == [response |-> None]
Call == [req : Req, response : Response]

\* The lookup: an id that is not parked is ErrNoPending and changes nothing.
ReplyLookup(p, r, response) ==
  /\ rpc[p] = "idle"
  /\ r \in pending
  /\ rpc' = [rpc EXCEPT ![p] = "answering"]
  /\ call' = [call EXCEPT ![p] = [req |-> r, response |-> response]]
  /\ job' = [job EXCEPT ![p] = AnswerJob(r, response)]
  /\ said' = said \cup ({<<r, response>>} \ (Req \X {"reject"}))
  /\ owed' = [owed EXCEPT ![p] = SweepSet(r, response)]
  /\ UNCHANGED <<askVars, todo, pending, chan, row, replied>>

\* The snapshot is taken whether or not this reply won its claim.
Snapshot(p) ==
  /\ rpc[p] = "answering"
  /\ Idle(p)
  /\ todo' = [todo EXCEPT ![p] = SweepSet(call[p].req, call[p].response)]
  /\ rpc' = [rpc EXCEPT ![p] = "sweeping"]
  /\ UNCHANGED <<askVars, call, said, owed, pending, chan, row, replied, job>>

Sweep(p) ==
  /\ rpc[p] = "sweeping"
  /\ Idle(p)
  /\ \E r \in todo[p] :
       /\ todo' = [todo EXCEPT ![p] = @ \ {r}]
       /\ job' = [job EXCEPT ![p] = SweepJob(r, call[p].response)]
  /\ UNCHANGED <<askVars, rpc, call, said, owed, pending, chan, row, replied>>

ReplyReturnAtOnce(p) ==
  /\ rpc[p] = "sweeping"
  /\ Idle(p)
  /\ rpc' = [rpc EXCEPT ![p] = "idle"]
  /\ call' = [call EXCEPT ![p] = NoCall]
  /\ owed' = [owed EXCEPT ![p] = {}]
  /\ todo' = [todo EXCEPT ![p] = {}]
  /\ UNCHANGED <<askVars, said, pending, chan, row, replied, job>>
ReplyReturn(p) ==
  /\ rpc[p] = "sweeping"
  /\ Idle(p)
  /\ todo[p] = {}
  /\ rpc' = [rpc EXCEPT ![p] = "idle"]
  /\ call' = [call EXCEPT ![p] = NoCall]
  /\ owed' = [owed EXCEPT ![p] = {}]
  /\ UNCHANGED <<askVars, todo, said, pending, chan, row, replied, job>>

-----------------------------------------------------------------------------
Init ==
  /\ pc = [r \in Req |-> "new"]
  /\ decision = [r \in Req |-> None]
  /\ verdict = [r \in Req |-> None]
  /\ pending = {}
  /\ chan = [r \in Req |-> None]
  /\ row = [r \in Req |-> "absent"]
  /\ asked = {}
  /\ replied = [r \in Req |-> NoneRep]
  /\ cancelled = {}
  /\ rpc = [p \in Replier |-> "idle"]
  /\ call = [p \in Replier |-> NoCall]
  /\ todo = [p \in Replier |-> {}]
  /\ job = [x \in Proc |-> NoJob]
  /\ said = {}
  /\ owed = [p \in Replier |-> {}]

ResolveStep(x) == Claim(x) \/ Store(x) \/ Publish(x) \/ Deliver(x)

AskStep(r) ==
  \/ Decide(r) \/ PersistDecided(r) \/ Register(r) \/ PersistPending(r)
  \/ PersistPendingFails(r) \/ PublishAsked(r) \/ Receive(r) \/ CtxDone(r)
  \/ AbortReturn(r)

ReplyStep(p) == Snapshot(p) \/ Sweep(p) \/ ReplyReturn(p)

Next ==
  \/ \E x \in Proc : ResolveStep(x)
  \/ \E r \in Req : AskStep(r)
  \/ \E p \in Replier : ReplyStep(p)
  \/ \E t \in Thread : CancelTurn(t)
  \/ \E p \in Replier, r \in Req, response \in Response : ReplyLookup(p, r, response)

\* Every goroutine that can take a step eventually does (the Go scheduler);
\* that a client replies, or a turn is aborted, is not assumed.
Fairness ==
  /\ \A x \in Proc : WF_vars(ResolveStep(x))
  /\ \A r \in Req : WF_vars(AskStep(r))
  /\ \A p \in Replier : WF_vars(ReplyStep(p))

Spec == Init /\ [][Next]_vars
FairSpec == Spec /\ Fairness

-----------------------------------------------------------------------------
(* Properties.                                                             *)

\* The types of the variables; in particular what the response column and the
\* wire may ever hold (service.go: storedResponse, resolve's call sites).
TypeOK ==
  /\ pc \in [Req -> {"new", "decided", "registered", "stored", "parked",
                     "aborting", "done"}]
  /\ decision \in [Req -> Verdict \cup {None}]
  /\ verdict \in [Req -> Decision \cup {"error", None}]
  /\ pending \subseteq Req
  /\ chan \in [Req -> Decision \cup {None}]
  /\ row \in [Req -> Stored \cup {"absent", "null"}]
  /\ asked \subseteq Req
  /\ replied \in [Req -> {NoneRep} \cup [reply : Response, auto : BOOLEAN]]
  /\ cancelled \subseteq Thread
  /\ rpc \in [Replier -> {"idle", "answering", "sweeping"}]
  /\ call \in [Replier -> {NoCall} \cup Call]
  /\ todo \in [Replier -> SUBSET Req]
  /\ job \in [Proc -> {NoJob} \cup Job]
  /\ said \subseteq Req \X Response
  /\ owed \in [Replier -> SUBSET Req]

Settling(x, r) == job[x].stage \in {"store", "publish", "deliver"} /\ job[x].req = r

\* A request is settled by one process at most, and by nobody while it is
\* still parked or once its reply is on the wire and delivered: however many
\* replies, sweeps and aborts race, the claim under the lock decides
\* (resolve's "only the remover settles").
OneSettler ==
  \A r \in Req, x \in Proc : Settling(x, r) =>
    /\ r \notin pending
    /\ \A y \in Proc : Settling(y, r) => y = x
    /\ job[x].stage # "deliver" => replied[r] = NoneRep

\* permission.replied is published once per request, and a stored response is
\* never replaced by another (no flip of a row against the user's answer).
SettledOnce ==
  [][\A r \in Req : /\ replied[r] # NoneRep => replied'[r] = replied[r]
                    /\ row[r] \in Stored => row'[r] = row[r]]_vars

Traceable(r) ==
  \/ <<r, "once">> \in said
  \/ <<r, "always">> \in said
  \/ \A x \in ResourcesOf[r] :
       \/ RuleFor[r][x] = "allow"
       \/ \E a \in Req : /\ <<a, "always">> \in said
                         /\ Session(a) = Session(r)
                         /\ PermOf[a] = PermOf[r]
                         /\ x \in AlwaysOf[a]

\* A user, or a rule, stands behind every grant: each resource of a granted
\* request is allowed by the rules, or a client answered this request with
\* once or always, or it answered always to a request of the same session and
\* permission whose patterns match the resource.
GrantsAreTraceable == \A r \in Req : verdict[r] = "allow" => Traceable(r)

\* Only an explicit "always" on that very request mints always rules
\* (autoAllow stores "once").
AlwaysIsExplicit == \A r \in Req : row[r] = "always" => <<r, "always">> \in said

\* What the store and the wire say of a settled request agree, and what the
\* asker was told agrees with both unless its turn was aborted or its pending
\* row could not be written.
Grants(reply) == reply.reply \in {"once", "always"}
AnswersAgree ==
  \A r \in Req : replied[r] # NoneRep =>
    /\ row[r] \in Stored => (Grants(replied[r]) <=> row[r] \in {"once", "always"})
    /\ verdict[r] = "allow" => Grants(replied[r])
    /\ verdict[r] = "denied" =>
         ~Grants(replied[r]) \/ ThreadOf[r] \in cancelled

\* When Reply returns, everything its answer was to settle at the moment it
\* was looked up is settled: no same-session request stays parked behind a
\* reject, and none whose resources were just granted behind an always.
SweepIsComplete ==
  [][\A p \in Replier : rpc[p] = "sweeping" /\ rpc'[p] = "idle" =>
       owed[p] \cap pending = {}]_vars

\* Neither an asker nor a client's Reply stays blocked, whatever the database
\* does: once its entry left the map or its turn was aborted, Ask returns, and
\* a Reply call that has begun to answer returns too.
CallersReturn ==
  /\ \A r \in Req :
       (pc[r] = "parked" /\ (r \notin pending \/ ThreadOf[r] \in cancelled))
         ~> pc[r] = "done"
  /\ \A p \in Replier : rpc[p] = "answering" ~> rpc[p] = "idle"

\* Not a property of this code (see the findings): a request that was
\* answered on the wire does not stay pending in the permission table once
\* Ask has returned, when no statement fails.
NoStrandedRow ==
  \A r \in Req :
    pc[r] = "done" /\ replied[r] # NoneRep => row[r] # "null"

\* The service implements the contract its callers rely on: at most one
\* answer per request, never changed, returned to the asker (or a denial
\* when its turn is aborted), and never an allow out of nowhere.
Outcome(v) ==
  CASE v = "allow" -> "allowed"
    [] v = "denied" -> "refused"
    [] OTHER -> "failed"

StatusOf(r) ==
  CASE pc[r] = "new" -> "unasked"
    [] pc[r] = "done" -> Outcome(verdict[r])
    [] OTHER -> "waiting"

Told(reply) == IF Grants(reply) THEN "allow" ELSE "denied"
Settler(r) == CHOOSE x \in Proc : Settling(x, r)

AnswerOf(r) ==
  CASE decision[r] \in Decision -> decision[r]
    [] decision[r] \notin Decision /\ replied[r] # NoneRep -> Told(replied[r])
    [] OTHER -> IF \E x \in Proc : Settling(x, r)
                THEN job[Settler(r)].decision ELSE None

Contract == INSTANCE PermissionContract
  WITH status <- [r \in Req |-> StatusOf(r)],
       answer <- [r \in Req |-> AnswerOf(r)],
       aborted <- cancelled

ImplementsContract == Contract!Spec

=============================================================================
