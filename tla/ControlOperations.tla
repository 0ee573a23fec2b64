-------------------------- MODULE ControlOperations --------------------------
(* Changes of a Starry instance's configuration through its control agent:  *)
(* plan, apply, rollback, reload and the polling of an operation, with their *)
(* audit rows (service/starryControl.go, internal/starrycontrol/starry and   *)
(* http/controller/admin/starry_control.go).                                *)
(*                                                                          *)
(* A request writes an audit row, calls the agent, and writes the result.   *)
(* Applying and rolling back only start an operation of the agent: what was  *)
(* authorized is kept in an expectation, and whoever polls the operation     *)
(* concludes the rows of all its expectations.                              *)
(*                                                                          *)
(* The agent is external: it keeps plans and operations, answers a repeated  *)
(* idempotency key with the same operation, acknowledges a digest when one   *)
(* succeeds, and may be replaced by one with another schema.  Requests may   *)
(* be cut off and answers lost or, by a nonconforming agent, crossed; the    *)
(* database may refuse a write; the server may restart.                     *)
EXTENDS Naturals, Sequences

CONSTANTS
  PlanRequest, ChangeRequest, \* one request each, in any order
  Poller,                     \* a browser polls again and again
  Admin,
  Config,                     \* documents, by their digest; an ETag is one
  Key,                        \* idempotency keys
  HighRisk,                   \* the documents whose plans need a confirmation
  History,                    \* the agent's revisions before the first request
  MaxSchema,                  \* bound: the agent's schema changes so often
  MaxFaults,                  \* bound: lost and crossed answers, failed writes,
                              \*   restarts, expectations past their time, and
                              \*   new schemas
  None

VARIABLES
  req,                        \* what each request is doing, and its metadata
  poll,                       \* what each poller is doing
  audit,                      \* admin_audit_events.result of its row
  expectation,                \* the operation expected by each row
  token,                      \* the review token each plan was answered with
  epoch,                      \* the process, with its own review key
  lapsed,                     \* the rows whose expectation is past its time
  plan, operation,            \* the agent's, by the request that made them
  active, revision, schema,   \* the agent's document, history and schema
  crossed,                    \* the rows that got another row's operation
  faults

Request == PlanRequest \cup ChangeRequest

agent == <<plan, operation, active, revision, schema, crossed>>

server == <<audit, expectation, token, epoch, lapsed>>

vars == <<req, poll, server, agent, faults>>

-----------------------------------------------------------------------------
(* State                                                                    *)

\* The kinds of an agent's operation that goes on after its answer.
Started == {"config_apply", "config_rollback"}

Kind == {"plan", "reload"} \cup Started

PC == {"idle", "start", "call", "seal", "answer", "persist", "finish", "fail",
       "done"}

OperationState == {"running", "succeeded", "failed"}

Answer == [id : Request, state : OperationState]

\* want is the digest that was authorized, ref the plan that is applied and
\* rev the revision that is rolled back to.
Req == [pc : PC, kind : Kind \cup {None}, actor : Admin \cup {None},
        key : Key \cup {None}, ref : PlanRequest \cup {None},
        rev : Nat, want : Config \cup {None}, sealed : 0..MaxSchema,
        answer : Answer \cup {None}]

Idle == [pc |-> "idle", kind |-> None, actor |-> None, key |-> None,
         ref |-> None, rev |-> 0, want |-> None, sealed |-> 0, answer |-> None]

\* rows are the expectations a poll has read, answer what the agent said.
Poll == [pc : {"idle", "call", "finalize"}, rows : SUBSET ChangeRequest,
         answer : Answer \cup {None}]

NoPoll == [pc |-> "idle", rows |-> {}, answer |-> None]

Plan == [digest : Config, base : Config, schema : 0..MaxSchema, live : BOOLEAN]

Operation == [kind : Kind, digest : Config, base : Config, key : Key,
              state : OperationState]

Token == [schema : 0..MaxSchema, epoch : Nat]

Result == {"none", "intent", "pending", "success", "failure"}

ASSUME ControlAssumption ==
  /\ None \notin Request \cup Admin \cup Config \cup Key \cup Kind
  /\ None \notin Answer \cup Plan \cup Operation \cup Token
  /\ HighRisk \subseteq Config
  /\ History \in Seq(Config) /\ Len(History) > 0
  /\ MaxSchema \in Nat /\ MaxFaults \in Nat

Init ==
  /\ req = [r \in Request |-> Idle]
  /\ poll = [q \in Poller |-> NoPoll]
  /\ audit = [r \in Request |-> "none"]
  /\ expectation = [r \in Request |-> None]
  /\ token = [r \in Request |-> None]
  /\ epoch = 0
  /\ plan = [r \in Request |-> None]
  /\ operation = [r \in Request |-> None]
  /\ active = History[Len(History)]
  /\ revision = History
  /\ schema = 0
  /\ lapsed = {}
  /\ crossed = {}
  /\ faults = 0

Fault == faults < MaxFaults /\ faults' = faults + 1

\* What only the call needs is left behind with it.
Ended(q, pc, answer) ==
  [q EXCEPT !.pc = pc, !.key = None, !.rev = 0, !.answer = answer]

Goto(r, pc) == req' = [req EXCEPT ![r] = Ended(@, pc, None)]

-----------------------------------------------------------------------------
(* Every request starts with the row of its intent                          *)

\* auditIntent.  When it fails the request ends there, as if not made.
Intent(r, start) ==
  /\ req[r].pc = "idle"
  /\ req' = [req EXCEPT ![r] = start]
  /\ audit' = [audit EXCEPT ![r] = "intent"]
  /\ UNCHANGED <<poll, expectation, token, epoch, lapsed, agent, faults>>

\* Refused before the agent is called: no valid review or confirmation, an
\* unknown or read-only instance, an unknown revision, an invalid request.
BeginRefused(r) == Intent(r, [Idle EXCEPT !.pc = "fail"])

BeginPlan(r, a) ==
  Intent(r, [Idle EXCEPT !.pc = "call", !.kind = "plan", !.actor = a])

\* A plausible bug: the token does not say whose it is.
ReviewedByAnyone(p, a, confirmed) ==
  /\ token[p] # None
  /\ token[p].epoch = epoch
  /\ plan[p].live
  /\ plan[p].digest \in HighRisk => confirmed

\* verifyPlanReview: the token of plan p, presented by a.
Reviewed(p, a, confirmed) ==
  /\ token[p] # None
  /\ token[p].epoch = epoch
  /\ req[p].actor = a
  /\ plan[p].live
  /\ plan[p].digest \in HighRisk => confirmed

BeginApply(r, a, p, k, confirmed) ==
  /\ Reviewed(p, a, confirmed)
  /\ Intent(r, [Idle EXCEPT !.pc = "start", !.kind = "config_apply",
                !.actor = a, !.key = k, !.ref = p, !.want = plan[p].digest,
                !.sealed = token[p].schema])

\* Whose request it is makes a difference to a plan and its application only.
BeginRollback(r, k) ==
  Intent(r, [Idle EXCEPT !.pc = "start", !.kind = "config_rollback", !.key = k])

BeginReload(r, digest, k) ==
  Intent(r, [Idle EXCEPT !.pc = "call", !.kind = "reload", !.key = k,
             !.want = digest])

-----------------------------------------------------------------------------
(* Plans                                                                    *)

\* The agent's answer is lost, or refused by the provider.
Lost(r) == Fault /\ Goto(r, "fail")

\* The agent checked the request's ETag, and the provider that the answer is
\* for the document it sent.
PlanAtAgent(r, digest) ==
  /\ req[r].pc = "call" /\ req[r].kind = "plan"
  /\ plan' = [plan EXCEPT ![r] = [digest |-> digest, base |-> active,
                                  schema |-> schema, live |-> TRUE]]
  /\ \/ Goto(r, "seal") /\ UNCHANGED faults
     \/ Lost(r)
  /\ UNCHANGED <<poll, server, operation, active, revision, schema, crossed>>

\* sealPlanReview, with the schema of another call.
Seal(r) ==
  /\ req[r].pc = "seal"
  /\ req' = [req EXCEPT ![r] = [@ EXCEPT !.pc = "answer", !.sealed = schema]]
  /\ UNCHANGED <<poll, server, agent, faults>>

\* The plan goes to the browser only once its row is concluded.
AnswerPlan(r) ==
  /\ req[r].pc = "answer"
  /\ audit' = [audit EXCEPT ![r] = "success"]
  /\ token' = [token EXCEPT ![r] = [schema |-> req[r].sealed, epoch |-> epoch]]
  /\ Goto(r, "done")
  /\ UNCHANGED <<poll, expectation, epoch, lapsed, agent, faults>>

-----------------------------------------------------------------------------
(* Operations of the agent                                                  *)

\* A plausible bug: the kind of the operation answered is not compared.
MatchesAnyKind(kind, digest, o, state) ==
  state = "succeeded" => operation[o].digest = digest

\* validateOperationResponse and validateExpectedControlOperation: the digest
\* of an operation is acknowledged when it succeeds, not before.
Matches(kind, digest, o, state) ==
  /\ operation[o].kind = kind
  /\ state = "succeeded" => operation[o].digest = digest

\* ApplyConfig: the schema is still the sealed one.
StartApply(r) ==
  /\ req[r].pc = "start" /\ req[r].kind = "config_apply"
  /\ \/ /\ schema = req[r].sealed
        /\ req' = [req EXCEPT ![r] = [@ EXCEPT !.pc = "call"]]
     \/ schema # req[r].sealed /\ Goto(r, "fail")
  /\ UNCHANGED <<poll, server, agent, faults>>

Rollback(r, i, digest) ==
  /\ req[r].pc = "start" /\ req[r].kind = "config_rollback"
  /\ i \in DOMAIN revision
  /\ req' = [req EXCEPT ![r] =
               [@ EXCEPT !.pc = "call", !.rev = i, !.want = digest]]
  /\ UNCHANGED <<poll, server, agent, faults>>

\* A plausible bug: the digest is that of the newest revision.
StartRollbackNewest(r, i) == Rollback(r, i, revision[Len(revision)])

\* RollbackConfig: the digest is that of the revision in the agent's history.
StartRollback(r, i) == Rollback(r, i, revision[i])

\* The agent is told a plan with its digest, or a revision without one.
AgentDigest(r) ==
  IF req[r].kind = "config_rollback" THEN revision[req[r].rev] ELSE req[r].want

\* The agent starts an operation, whose If-Match is its active document.
Accept(r, state) ==
  /\ \A o \in Request : operation[o] # None => operation[o].key # req[r].key
  /\ operation' = [operation EXCEPT ![r] =
                     [kind |-> req[r].kind, digest |-> AgentDigest(r),
                      base |-> active, key |-> req[r].key, state |-> state]]
  /\ UNCHANGED <<plan, active, revision, schema, crossed>>

\* The answer about operation o reaches the server, in the state it had.
Answered(r, o, state) ==
  req' = [req EXCEPT ![r] = Ended(@, "persist", [id |-> o, state |-> state])]

Receive(r, o, state) ==
  \/ Matches(req[r].kind, req[r].want, o, state) /\ Answered(r, o, state)
  \/ ~Matches(req[r].kind, req[r].want, o, state) /\ Goto(r, "fail")

Calling(r) == req[r].pc = "call" /\ req[r].kind \in Started

StartAtAgent(r) ==
  /\ Calling(r)
  /\ req[r].kind = "config_apply" =>
       plan[req[r].ref].live /\ plan[req[r].ref].base = active
  /\ Accept(r, "running")
  /\ \/ Answered(r, r, "running") /\ UNCHANGED faults
     \/ Lost(r)
  /\ UNCHANGED <<poll, server>>

\* The operation the agent has under the key, asked for again.
RepeatAtAgent(r, o) ==
  /\ Calling(r)
  /\ operation[o] # None
  /\ operation[o].key = req[r].key
  /\ operation[o].kind = req[r].kind /\ operation[o].digest = AgentDigest(r)
  /\ Receive(r, o, operation[o].state)
  /\ UNCHANGED <<poll, server, agent, faults>>

\* A nonconforming agent answers with another operation.
CrossedAtAgent(r, o) ==
  /\ Calling(r)
  /\ operation[o] # None
  /\ Fault
  /\ Receive(r, o, operation[o].state)
  /\ crossed' = crossed \cup {r}
  /\ UNCHANGED <<poll, server, plan, operation, active, revision, schema>>

ReloadAtAgent(r) ==
  /\ req[r].pc = "call" /\ req[r].kind = "reload"
  /\ req[r].want = active
  /\ Accept(r, "succeeded")
  /\ \/ Goto(r, "finish") /\ UNCHANGED faults
     \/ Lost(r)
  /\ UNCHANGED <<poll, server>>

\* controlOperationAuditResult
Outcome(state) ==
  CASE state = "running" -> "pending"
    [] state = "succeeded" -> "success"
    [] state = "failed" -> "failure"

\* startControlOperation: the expectation and the row, in one transaction.
Persist(r) ==
  /\ req[r].pc = "persist"
  /\ expectation' = [expectation EXCEPT ![r] = req[r].answer.id]
  /\ audit' = [audit EXCEPT ![r] = Outcome(req[r].answer.state)]
  /\ Goto(r, "done")
  /\ UNCHANGED <<poll, token, epoch, lapsed, agent, faults>>

-----------------------------------------------------------------------------
(* Polling                                                                  *)

\* What an expectation keeps is kept for seven days.
ExpectationLapses(r) ==
  /\ expectation[r] # None /\ r \notin lapsed
  /\ Fault
  /\ lapsed' = lapsed \cup {r}
  /\ UNCHANGED <<req, poll, audit, expectation, token, epoch, agent>>

Expecting(o) == {e \in ChangeRequest \ lapsed : expectation[e] = o}

Agreed(rows) ==
  \A e, f \in rows : req[e].kind = req[f].kind /\ req[e].want = req[f].want

\* operationExpectations: one at least, and no two in conflict.  The row of a
\* poll itself is that of a read, and not kept here.
ReadExpectations(q, o) ==
  LET rows == Expecting(o)
  IN  /\ poll[q].pc = "idle"
      /\ rows # {}
      /\ Agreed(rows)
      /\ poll' = [poll EXCEPT ![q] =
                    [pc |-> "call", rows |-> rows,
                     answer |-> [id |-> o, state |-> "running"]]]
      /\ UNCHANGED <<req, server, agent, faults>>

PollAtAgent(q) ==
  /\ poll[q].pc = "call"
  /\ LET o == poll[q].answer.id
         state == operation[o].state
     IN  /\ \A e \in poll[q].rows : Matches(req[e].kind, req[e].want, o, state)
         /\ poll' = [poll EXCEPT ![q] =
                       [@ EXCEPT !.pc = "finalize",
                                 !.answer = [id |-> o, state |-> state]]]
  /\ UNCHANGED <<req, server, agent, faults>>

\* A plausible bug: what a poll saw is always written.
ConcludesAlways(state) == TRUE

Concludes(state) == state # "running"

\* finalizeControlOperation, with the rows and the state read before.
Finalize(q) ==
  /\ poll[q].pc = "finalize"
  /\ LET state == poll[q].answer.state
     IN  audit' = [e \in Request |->
                     IF Concludes(state) /\ e \in poll[q].rows
                     THEN Outcome(state) ELSE audit[e]]
  /\ poll' = [poll EXCEPT ![q] = NoPoll]
  /\ UNCHANGED <<req, expectation, token, epoch, lapsed, agent, faults>>

\* No agent, a mismatch, or no database.
PollFails(q) ==
  /\ poll[q].pc # "idle"
  /\ poll' = [poll EXCEPT ![q] = NoPoll]
  /\ UNCHANGED <<req, server, agent, faults>>

-----------------------------------------------------------------------------
(* The end of a request                                                     *)

\* finishAudit
Finish(r) ==
  /\ req[r].pc \in {"finish", "fail"}
  /\ audit' = [audit EXCEPT ![r] =
                 IF req[r].pc = "finish" THEN "success" ELSE "failure"]
  /\ Goto(r, "done")
  /\ UNCHANGED <<poll, expectation, token, epoch, lapsed, agent, faults>>

\* The agent is not reached, or refuses.
Refused(r) ==
  /\ req[r].pc \in {"start", "call", "seal"}
  /\ Goto(r, "fail")
  /\ UNCHANGED <<poll, server, agent, faults>>

\* The database refuses the write of a step; the row stays as it is when that
\* was the last one, and is concluded as a failure when it was not.
WriteFails(r) ==
  /\ \/ req[r].pc = "persist" /\ Goto(r, "fail")
     \/ req[r].pc \in {"answer", "finish", "fail"} /\ Goto(r, "done")
  /\ Fault
  /\ UNCHANGED <<poll, server, agent>>

-----------------------------------------------------------------------------
(* The agent, and restarts                                                  *)

OperationEnds(o, state) ==
  /\ operation[o] # None /\ operation[o].state = "running"
  /\ operation' = [operation EXCEPT ![o] = [@ EXCEPT !.state = state]]
  /\ IF state = "succeeded"
     THEN /\ operation[o].base = active
          /\ active' = operation[o].digest
          /\ revision' = Append(revision, operation[o].digest)
     ELSE /\ state = "failed"
          /\ UNCHANGED <<active, revision>>
  /\ UNCHANGED <<req, poll, server, plan, schema, crossed, faults>>

PlanExpires(p) ==
  /\ plan[p] # None /\ plan[p].live
  /\ plan' = [plan EXCEPT ![p] = [@ EXCEPT !.live = FALSE]]
  /\ UNCHANGED <<req, poll, server, operation, active, revision, schema,
                 crossed, faults>>

SchemaChanges ==
  /\ schema < MaxSchema
  /\ schema' = schema + 1
  /\ Fault
  /\ UNCHANGED <<req, poll, server, plan, operation, active, revision, crossed>>

Restart ==
  /\ Fault
  /\ epoch' = epoch + 1
  /\ req' = [r \in Request |->
               IF req[r].pc = "idle" THEN req[r]
               ELSE Ended(req[r], "done", None)]
  /\ poll' = [q \in Poller |-> NoPoll]
  /\ UNCHANGED <<audit, expectation, token, lapsed, agent>>

-----------------------------------------------------------------------------
(* Specification                                                            *)

BeginChange(r) ==
  \E k \in Key :
    \/ \E a \in Admin, p \in PlanRequest, confirmed \in BOOLEAN :
         BeginApply(r, a, p, k, confirmed)
    \/ BeginRollback(r, k)
    \/ \E digest \in Config : BeginReload(r, digest, k)

PlanStep(r) ==
  (\E digest \in Config : PlanAtAgent(r, digest)) \/ Seal(r) \/ AnswerPlan(r)

OperationStep(r) ==
  \/ StartApply(r)
  \/ \E i \in DOMAIN revision : StartRollback(r, i)
  \/ StartAtAgent(r)
  \/ \E o \in Request : RepeatAtAgent(r, o) \/ CrossedAtAgent(r, o)
  \/ ReloadAtAgent(r)
  \/ Persist(r)

PollStep(q) ==
  \/ \E o \in ChangeRequest : ReadExpectations(q, o)
  \/ PollAtAgent(q)
  \/ Finalize(q)
  \/ PollFails(q)

EndStep(r) == Finish(r) \/ Refused(r) \/ WriteFails(r) \/ ExpectationLapses(r)

AgentStep ==
  \/ \E r \in Request :
       PlanExpires(r) \/ \E state \in OperationState : OperationEnds(r, state)
  \/ SchemaChanges

Next ==
  \/ \E r \in PlanRequest : (\E a \in Admin : BeginPlan(r, a)) \/ PlanStep(r)
  \/ \E r \in ChangeRequest : BeginChange(r) \/ OperationStep(r)
  \/ \E q \in Poller : PollStep(q)
  \/ \E r \in Request : BeginRefused(r) \/ EndStep(r)
  \/ AgentStep
  \/ Restart

Spec == Init /\ [][Next]_vars

-----------------------------------------------------------------------------
(* Properties                                                               *)

\* The rows are a ledger: an intent precedes every effect on the agent, and
\* what polls, repetitions, failures and restarts write never changes a row
\* that has its result, a slow poll that saw the operation running included.
Ledger == INSTANCE AuditLedger
            WITH result <- audit,
                 effective <- {r \in Request : plan[r] # None \/ operation[r] # None}

LedgerKept == Ledger!LedgerSpec

\* A change recorded as a success was made: the agent's operation of that
\* kind, with the digest that was authorized, succeeded.
SuccessIsTrue ==
  \A r \in Request :
    audit[r] = "success" /\ req[r].kind \in Started \cup {"reload"} =>
      \E o \in Request : /\ operation[o] # None
                         /\ operation[o].state = "succeeded"
                         /\ operation[o].kind = req[r].kind
                         /\ operation[o].digest = req[r].want

\* What the agent was told to apply is what the same administrator planned,
\* in a plan recorded as a success, before.
AppliedWasPlanned ==
  \A r \in Request :
    operation[r] # None /\ operation[r].kind = "config_apply" =>
      LET p == req[r].ref
      IN  /\ audit[p] = "success"
          /\ req[p].kind = "plan" /\ req[p].actor = req[r].actor
          /\ plan[p].digest = operation[r].digest
          /\ plan[p].base = operation[r].base

\* A poll of the row's operation finds its expectation, with no other one in
\* conflict, and takes the agent's answer in whatever state that is.
Concludable(r) ==
  LET o == expectation[r]
      rows == Expecting(o)
  IN  /\ operation[o] # None
      /\ r \in rows /\ Agreed(rows)
      /\ \A e \in rows, state \in OperationState :
           Matches(req[e].kind, req[e].want, o, state)

\* Of the row's operation some row was told by an agent that mixed it up.
Confused(r) == Expecting(expectation[r]) \cap crossed # {}

\* A row left pending can be concluded, kind and digest included, for the
\* seven days its expectation is kept, whatever requests repeat keys, polls
\* and restarts lie between; only an agent that answers with another request's
\* operation can prevent it.
PendingIsExpected ==
  \A r \in Request :
    audit[r] = "pending" =>
      /\ expectation[r] # None
      /\ r \in lapsed \/ Confused(r) \/ Concludable(r)

\* The schema that is checked before a plan is applied is the one it was
\* made under.
AppliedUnderPlannedSchema ==
  \A r \in Request :
    operation[r] # None /\ operation[r].kind = "config_apply" =>
      plan[req[r].ref].schema = req[r].sealed
-----------------------------------------------------------------------------
(* The inductive invariant                                                  *)

TypeOK ==
  /\ req \in [Request -> Req]
  /\ poll \in [Poller -> Poll]
  /\ audit \in [Request -> Result]
  /\ expectation \in [Request -> Request \cup {None}]
  /\ token \in [Request -> Token \cup {None}]
  /\ epoch \in Nat
  /\ plan \in [Request -> Plan \cup {None}]
  /\ operation \in [Request -> Operation \cup {None}]
  /\ active \in Config /\ revision \in Seq(Config)
  /\ schema \in 0..MaxSchema /\ faults \in 0..MaxFaults
  /\ lapsed \subseteq Request /\ crossed \subseteq Request

\* Operation o is of that kind, and what is said of its end is true.
Agrees(o, kind, digest, state) ==
  /\ operation[o] # None
  /\ operation[o].kind = kind
  /\ state \in {"succeeded", "failed"} => operation[o].state = state
  /\ state = "succeeded" => operation[o].digest = digest

\* Unless it was mixed up, operation o is on what r was authorized for.
Authorized(r, o) == r \notin crossed => operation[o].digest = req[r].want

\* The state of an operation whose row has that result.
StateOf(result) ==
  CASE result = "success" -> "succeeded"
    [] result = "failure" -> "failed"
    [] OTHER -> "running"

\* A row is an intent for as long as its request goes on.
RowFits(r) ==
  /\ req[r].pc = "idle" <=> audit[r] = "none"
  /\ req[r].pc \notin {"idle", "done"} => audit[r] = "intent"
  /\ audit[r] = "pending" => expectation[r] # None
  /\ audit[r] = "success" /\ req[r].kind \in Started => expectation[r] # None

ExpectationFits(r) ==
  expectation[r] # None =>
    /\ r \in ChangeRequest
    /\ req[r].pc = "done" /\ req[r].kind \in Started
    /\ audit[r] \in {"pending", "success", "failure"}
    /\ Agrees(expectation[r], req[r].kind, req[r].want, StateOf(audit[r]))
    /\ Authorized(r, expectation[r])

HandlerFits(r) ==
  /\ req[r].pc \in {"start", "call"} /\ req[r].kind # "plan" => req[r].key # None
  /\ req[r].pc = "call" /\ req[r].kind # "plan" => req[r].want # None
  /\ req[r].pc = "call" /\ req[r].kind = "config_rollback" =>
       req[r].rev \in DOMAIN revision /\ revision[req[r].rev] = req[r].want
  /\ req[r].pc = "persist" =>
       /\ req[r].kind \in Started /\ req[r].answer # None
       /\ Authorized(r, req[r].answer.id)
       /\ Agrees(req[r].answer.id, req[r].kind, req[r].want, req[r].answer.state)
  /\ req[r].pc \in {"seal", "answer"} => req[r].kind = "plan" /\ plan[r] # None
  /\ req[r].pc = "finish" => req[r].kind = "reload"
  /\ req[r].kind = "reload" /\ (req[r].pc = "finish" \/ audit[r] = "success") =>
       Agrees(r, "reload", req[r].want, "succeeded")

PlanFits(r) ==
  /\ token[r] # None =>
       /\ audit[r] = "success" /\ req[r].pc = "done" /\ req[r].kind = "plan"
       /\ plan[r] # None
  /\ req[r].kind = "config_apply" =>
       /\ req[r].ref # None /\ token[req[r].ref] # None
       /\ req[req[r].ref].actor = req[r].actor
       /\ plan[req[r].ref].digest = req[r].want

OperationFits(r) ==
  operation[r] # None =>
    /\ req[r].pc \notin {"idle", "start", "call"}
    /\ operation[r].kind = req[r].kind
    /\ operation[r].digest = req[r].want
    /\ req[r].kind = "config_apply" => plan[req[r].ref].base = operation[r].base

RequestFits(r) ==
  /\ RowFits(r)
  /\ ExpectationFits(r)
  /\ HandlerFits(r)
  /\ PlanFits(r)
  /\ OperationFits(r)

PollFits(q) ==
  poll[q].pc # "idle" =>
    /\ poll[q].answer # None /\ poll[q].rows # {}
    /\ \A e \in poll[q].rows :
         /\ expectation[e] = poll[q].answer.id
         /\ Agrees(poll[q].answer.id, req[e].kind, req[e].want, poll[q].answer.state)

\* A row is an intent until its request has ended, a pending row has the
\* operation it expects, what handlers and pollers carry from the agent is
\* true of its operations, and these are what the requests authorized unless
\* the agent mixed them up.
ControlInv ==
  /\ TypeOK
  /\ \A r \in Request : RequestFits(r)
  /\ \A q \in Poller : PollFits(q)
=============================================================================
