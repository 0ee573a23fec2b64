---------------------------- MODULE ControlProofs ----------------------------
(* Proofs about ControlOperations, for any number of requests, pollers,     *)
(* documents and faults, and that it implements AuditLedger.                *)
EXTENDS ControlOperations, TLAPS

USE ControlAssumption

-----------------------------------------------------------------------------
(* What a step keeps                                                        *)

\* What is said of the agent's operations and plans, and of the tokens, stays
\* true.
Kept ==
  /\ \A o \in Request : operation[o] # None =>
       /\ operation'[o] # None
       /\ operation'[o].kind = operation[o].kind
       /\ operation'[o].digest = operation[o].digest
       /\ operation'[o].base = operation[o].base
       /\ operation[o].state \in {"succeeded", "failed"} =>
            operation'[o].state = operation[o].state
  /\ \A p \in Request : plan[p] # None => plan'[p] # None
  /\ \A i \in DOMAIN revision : i \in DOMAIN revision' /\ revision'[i] = revision[i]
  /\ crossed \subseteq crossed'
  /\ \A p \in Request : token[p] # None =>
       /\ plan'[p].digest = plan[p].digest
       /\ plan'[p].base = plan[p].base
       /\ token'[p] # None
       /\ req'[p].pc = req[p].pc
       /\ req'[p].kind = req[p].kind
       /\ req'[p].actor = req[p].actor
       /\ audit'[p] = audit[p]

\* Nothing of request s is written.
Untouched(s) ==
  /\ req'[s] = req[s]
  /\ audit'[s] = audit[s]
  /\ expectation'[s] = expectation[s]
  /\ token'[s] = token[s]
  /\ operation[s] = None => operation'[s] = None

LEMMA TypedRequest ==
  ASSUME TypeOK, NEW r \in Request
  PROVE  /\ req[r] \in Req
         /\ req[r].answer # None => req[r].answer.id \in Request
         /\ req[r].ref # None => req[r].ref \in Request
         /\ expectation[r] # None => expectation[r] \in Request
BY DEF TypeOK, Req, Answer, Request

\* A request that is not written fits as it did.
LEMMA UntouchedFits ==
  ASSUME TypeOK, Kept, NEW s \in Request, Untouched(s),
         \A t \in Request : RequestFits(t)
  PROVE  RequestFits(s)'
<1>1. RowFits(s)'
  BY DEF RequestFits, RowFits, Untouched
<1>2. ExpectationFits(s)'
  <2> SUFFICES ASSUME expectation[s] # None
               PROVE  ExpectationFits(s)'
    BY DEF ExpectationFits, Untouched
  <2>1. Agrees(expectation[s], req[s].kind, req[s].want, StateOf(audit[s]))'
    <3>1. /\ expectation[s] \in Request /\ expectation'[s] = expectation[s]
          /\ StateOf(audit[s])' = StateOf(audit[s]) /\ req'[s] = req[s]
      BY TypedRequest DEF Untouched, StateOf
    <3>2. Agrees(expectation[s], req[s].kind, req[s].want, StateOf(audit[s]))
      BY DEF RequestFits, ExpectationFits
    <3> QED
      BY <3>1, <3>2 DEF Agrees, Kept
  <2>2. Authorized(s, expectation[s])'
    BY TypedRequest DEF RequestFits, ExpectationFits, Authorized, Agrees, Untouched, Kept
  <2> QED
    BY <2>1, <2>2 DEF RequestFits, ExpectationFits, Untouched
<1>3. HandlerFits(s)'
  BY TypedRequest DEF RequestFits, HandlerFits, Untouched, Kept, Agrees, Authorized
<1>4. req[s].kind = "config_apply" =>
        \E p \in Request :
          /\ req[s].ref = p /\ p # None /\ token[p] # None /\ plan[p] # None
          /\ req[p].actor = req[s].actor
          /\ plan[p].digest = req[s].want
          /\ operation[s] # None => plan[p].base = operation[s].base
  BY TypedRequest DEF RequestFits, PlanFits, OperationFits
<1>5. PlanFits(s)'
  <2>1. token[s] # None => plan'[s] # None
    BY DEF RequestFits, PlanFits, Kept
  <2>2. req[s].kind = "config_apply" =>
          \E p \in Request :
            /\ req'[s].ref = p /\ p # None /\ token'[p] # None
            /\ req'[p].actor = req'[s].actor
            /\ plan'[p].digest = req'[s].want
    BY <1>4 DEF Kept, Untouched
  <2> QED
    BY <2>1, <2>2 DEF RequestFits, PlanFits, Untouched
<1>6. OperationFits(s)'
  <2>1. req[s].kind = "config_apply" /\ operation[s] # None =>
          plan'[req'[s].ref].base = operation'[s].base
    BY <1>4 DEF Kept, Untouched
  <2> QED
    BY <2>1 DEF RequestFits, OperationFits, Untouched, Kept
<1> QED
  BY <1>1, <1>2, <1>3, <1>5, <1>6 DEF RequestFits

\* Nor does a poller that is not, as long as the expectations stay.
LEMMA PollKept ==
  ASSUME TypeOK, Kept, NEW q \in Poller, PollFits(q), poll'[q] = poll[q],
         \A e \in Request : expectation[e] # None =>
           /\ expectation'[e] = expectation[e]
           /\ req'[e].kind = req[e].kind /\ req'[e].want = req[e].want
  PROVE  PollFits(q)'
<1> SUFFICES ASSUME poll[q].pc # "idle"
             PROVE  PollFits(q)'
  BY DEF PollFits
<1>1. /\ poll[q].answer # None /\ poll[q].answer.id \in Request
      /\ poll[q].rows \subseteq Request
  BY DEF PollFits, TypeOK, Poll, Answer, Request
<1>2. ASSUME NEW e \in poll[q].rows
      PROVE  /\ expectation'[e] = poll[q].answer.id
             /\ Agrees(poll[q].answer.id, req[e].kind, req[e].want, poll[q].answer.state)
             /\ req'[e].kind = req[e].kind /\ req'[e].want = req[e].want
  BY <1>1, <1>2 DEF PollFits
<1> QED
  BY <1>1, <1>2 DEF PollFits, Agrees, Kept
\* A step of request r: only what is said of r has to be seen again.
LEMMA RequestStep ==
  ASSUME ControlInv, TypeOK', Kept, poll' = poll, NEW r \in Request,
         \A s \in Request \ {r} : Untouched(s),
         expectation[r] # None =>
           /\ expectation'[r] = expectation[r]
           /\ req'[r].kind = req[r].kind /\ req'[r].want = req[r].want,
         RequestFits(r)'
  PROVE  ControlInv'
<1>1. \A s \in Request : RequestFits(s)'
  BY UntouchedFits DEF ControlInv
<1>2. \A e \in Request : expectation[e] # None =>
        /\ expectation'[e] = expectation[e]
        /\ req'[e].kind = req[e].kind /\ req'[e].want = req[e].want
  BY DEF Untouched
<1>3. \A q \in Poller : PollFits(q)'
  BY <1>2, PollKept DEF ControlInv
<1> QED
  BY <1>1, <1>3 DEF ControlInv

\* While a request goes on nothing is expected of it, nor was a plan answered.
LEMMA GoingOn ==
  ASSUME ControlInv, NEW r \in Request, req[r].pc # "done"
  PROVE  /\ token[r] = None /\ expectation[r] = None
         /\ audit[r] = (IF req[r].pc = "idle" THEN "none" ELSE "intent")
         /\ req[r].pc \in {"idle", "start", "call"} => operation[r] = None
<1>1. req[r] \in Req /\ audit[r] \in Result
  BY DEF ControlInv, TypeOK
<1> QED
  BY <1>1 DEF ControlInv, RequestFits, RowFits, ExpectationFits, PlanFits, OperationFits, Req, PC

\* The agent is as it was, but for what it mixed up.
AgentKept ==
  /\ UNCHANGED <<plan, operation, active, revision, schema>>
  /\ crossed \subseteq crossed' /\ crossed' \subseteq Request

LEMMA SameAgent ==
  ASSUME ControlInv, UNCHANGED agent
  PROVE  AgentKept
BY DEF ControlInv, TypeOK, agent, AgentKept

\* A step of the server alone.
LEMMA ServerStep ==
  ASSUME ControlInv, NEW r \in Request, NEW x \in Req, req[r].pc # "done",
         req' = [req EXCEPT ![r] = x],
         NEW y \in Result, audit' = [audit EXCEPT ![r] = y],
         NEW z \in Request \cup {None}, expectation' = [expectation EXCEPT ![r] = z],
         UNCHANGED <<poll, token, epoch, lapsed>>, AgentKept, faults' \in 0..MaxFaults,
         RequestFits(r)'
  PROVE  ControlInv'
<1>1. token[r] = None /\ expectation[r] = None
  BY GoingOn
<1>2. TypeOK'
  BY DEF ControlInv, TypeOK, AgentKept
<1>3. \A s \in Request \ {r} : Untouched(s)
  BY DEF ControlInv, TypeOK, Untouched, AgentKept
<1>4. Kept
  BY <1>1, <1>3 DEF Kept, Untouched, AgentKept
<1> QED
  BY <1>1, <1>2, <1>3, <1>4, RequestStep

\* The request moves on, or ends, and its row stays.
LEMMA MoveInv ==
  ASSUME ControlInv, NEW r \in Request, NEW x \in Req, req' = [req EXCEPT ![r] = x],
         x.pc \in {"call", "fail", "done"}, x.kind = req[r].kind, x.want = req[r].want,
         x.ref = req[r].ref, x.actor = req[r].actor,
         req[r].pc \notin {"idle", "done"},
         x.pc = "call" =>
           req[r].pc = "start" /\ req[r].kind = "config_apply" /\ x.key = req[r].key,
         UNCHANGED <<poll, server>>, AgentKept, faults' \in 0..MaxFaults
  PROVE  ControlInv'
<1>1. req[r] \in Req /\ req \in [Request -> Req]
  BY DEF ControlInv, TypeOK
<1>5. /\ token[r] = None /\ expectation[r] = None /\ audit[r] = "intent"
      /\ x.pc = "call" => operation[r] = None
  BY GoingOn
<1>6. /\ audit' = [audit EXCEPT ![r] = audit[r]] /\ audit[r] \in Result
      /\ expectation' = [expectation EXCEPT ![r] = expectation[r]]
      /\ expectation[r] \in Request \cup {None}
  BY DEF ControlInv, TypeOK, server
<1>7. req'[r] = x
  BY <1>1
<1>11. x.pc = "call" => x.key # None /\ x.want # None
  <2> SUFFICES ASSUME x.pc = "call" PROVE req[r].key # None /\ req[r].want # None
    OBVIOUS
  <2>1. PICK p \in Request : token[p] # None /\ plan[p].digest = req[r].want
    BY TypedRequest DEF ControlInv, RequestFits, PlanFits
  <2>2. plan[p] \in Plan
    BY <2>1 DEF ControlInv, TypeOK, RequestFits, PlanFits
  <2> QED
    BY <2>1, <2>2 DEF ControlInv, RequestFits, HandlerFits, Plan
<1>8. RowFits(r)' /\ ExpectationFits(r)' /\ HandlerFits(r)'
  BY <1>5, <1>7, <1>11 DEF RowFits, ExpectationFits, HandlerFits, server
<1>9. PlanFits(r)' /\ OperationFits(r)'
  <2>1. RequestFits(r) /\ \A p \in Request : RequestFits(p)
    BY DEF ControlInv
  <2>2. \A p \in Request : req'[p].actor = req[p].actor
    BY <1>1
  <2>3. x.kind = "config_apply" => x.ref \in Request
    BY <1>1, <2>1, TypedRequest DEF ControlInv, RequestFits, PlanFits
  <2>4. PlanFits(r)'
    BY <1>5, <1>7, <2>1, <2>2, <2>3 DEF RequestFits, PlanFits, server, AgentKept
  <2>5. OperationFits(r)'
    BY <1>5, <1>7, <2>1, <2>3 DEF RequestFits, OperationFits, server, AgentKept
  <2> QED
    BY <2>4, <2>5
<1>10. RequestFits(r)'
  BY <1>8, <1>9 DEF RequestFits
<1> QED
  BY <1>6, <1>10, ServerStep, GoingOn DEF server

LEMMA GotoInv ==
  ASSUME ControlInv, NEW r \in Request, NEW pc \in {"fail", "done"}, Goto(r, pc),
         req[r].pc \notin {"idle", "done"},
         UNCHANGED <<poll, server>>, AgentKept, faults' \in 0..MaxFaults
  PROVE  ControlInv'
<1>1. req[r] \in Req
  BY DEF ControlInv, TypeOK
<1>2. PICK x \in Req : x = Ended(req[r], pc, None)
  BY <1>1 DEF Req, PC, Ended
<1>3. req' = [req EXCEPT ![r] = x]
  BY <1>2 DEF Goto
<1>4. /\ x.pc = pc /\ x.kind = req[r].kind /\ x.want = req[r].want /\ x.ref = req[r].ref
      /\ x.actor = req[r].actor
  BY <1>1, <1>2 DEF Req, Ended
<1> QED
  BY <1>2, <1>3, <1>4, MoveInv
-----------------------------------------------------------------------------
(* Requests                                                                 *)

LEMMA IdleType == Idle \in Req
BY DEF Idle, Req, PC

LEMMA InitInv == Init => ControlInv
<1> SUFFICES ASSUME Init PROVE ControlInv
  OBVIOUS
<1>1. Idle \in Req /\ NoPoll \in Poll
  BY DEF Idle, NoPoll, Req, Poll, PC
<1>2. TypeOK
  BY <1>1 DEF Init, TypeOK, Result
<1>3. \A r \in Request : RequestFits(r)
  BY DEF Init, RequestFits, RowFits, ExpectationFits, HandlerFits, PlanFits,
         OperationFits, Idle, Started, Kind
<1>4. \A q \in Poller : PollFits(q)
  BY DEF Init, PollFits, NoPoll
<1> QED
  BY <1>2, <1>3, <1>4 DEF ControlInv

\* An intent, with what is said of a request that applies a plan.
LEMMA IntentInv ==
  ASSUME ControlInv, NEW r \in Request, NEW x \in Req, Intent(r, x),
         x.pc \in {"start", "call", "fail"},
         x.pc = "fail" \/ x.kind = "plan" \/
           (x.key # None /\ (x.pc = "call" => x.want # None)),
         x.pc = "call" => x.kind # "config_rollback",
         x.kind = "config_apply" =>
           /\ x.ref \in Request /\ token[x.ref] # None
           /\ req[x.ref].actor = x.actor /\ plan[x.ref].digest = x.want
  PROVE  ControlInv'
<1>1. /\ req[r].pc = "idle" /\ req' = [req EXCEPT ![r] = x] /\ req'[r] = x
      /\ audit' = [audit EXCEPT ![r] = "intent"] /\ audit'[r] = "intent"
      /\ expectation' = [expectation EXCEPT ![r] = None]
      /\ token[r] = None /\ expectation[r] = None /\ operation[r] = None
      /\ UNCHANGED <<poll, token, epoch, lapsed, agent>> /\ faults' \in 0..MaxFaults
  BY GoingOn DEF ControlInv, TypeOK, Intent
<1>2. RowFits(r)' /\ ExpectationFits(r)' /\ HandlerFits(r)'
  BY <1>1 DEF RowFits, ExpectationFits, HandlerFits
<1>3. x.kind = "config_apply" => req'[x.ref].actor = req[x.ref].actor
  BY <1>1 DEF ControlInv, TypeOK
<1>4. PlanFits(r)' /\ OperationFits(r)'
  BY <1>1, <1>3 DEF PlanFits, OperationFits, agent
<1> QED
  BY <1>1, <1>2, <1>4, ServerStep, SameAgent DEF RequestFits, Result

LEMMA OtherIntentInv ==
  ASSUME ControlInv, NEW r \in Request, NEW x \in Req, Intent(r, x),
         x.pc \in {"start", "call", "fail"}, x.kind # "config_apply",
         x.pc = "fail" \/ x.kind = "plan" \/
           (x.key # None /\ (x.pc = "call" => x.want # None)),
         x.pc = "call" => x.kind # "config_rollback"
  PROVE  ControlInv'
BY IntentInv

LEMMA BeginRefusedInv ==
  ASSUME ControlInv, NEW r \in Request, BeginRefused(r)
  PROVE  ControlInv'
<1>0. [Idle EXCEPT !.pc = "fail"] \in Req
  BY IdleType DEF Req, PC, Kind, Started
<1>1. PICK x \in Req : x = [Idle EXCEPT !.pc = "fail"]
  BY <1>0
<1>2. x.pc = "fail" /\ x.kind # "config_apply"
  BY <1>1 DEF Idle, Kind, Started
<1>3. Intent(r, x)
  BY <1>1 DEF BeginRefused, Intent
<1> QED
  BY <1>2, <1>3, OtherIntentInv

LEMMA BeginPlanInv ==
  ASSUME ControlInv, NEW r \in PlanRequest, NEW a \in Admin, BeginPlan(r, a)
  PROVE  ControlInv'
<1>0. [Idle EXCEPT !.pc = "call", !.kind = "plan", !.actor = a] \in Req
  BY IdleType DEF Req, PC, Kind, Started
<1>1. PICK x \in Req : x = [Idle EXCEPT !.pc = "call", !.kind = "plan", !.actor = a]
  BY <1>0
<1>2. x.pc = "call" /\ x.kind = "plan" /\ r \in Request
  BY <1>1 DEF Idle, Request
<1>3. Intent(r, x)
  BY <1>1 DEF BeginPlan, Intent
<1> QED
  BY <1>2, <1>3, OtherIntentInv

LEMMA BeginApplyInv ==
  ASSUME ControlInv, NEW r \in ChangeRequest, NEW a \in Admin, NEW p \in PlanRequest,
         NEW k \in Key, NEW confirmed \in BOOLEAN, BeginApply(r, a, p, k, confirmed)
  PROVE  ControlInv'
<1>1. /\ token[p] \in Token /\ p \in Request /\ r \in Request /\ token[p] # None
      /\ req[p].actor = a
  BY DEF ControlInv, TypeOK, BeginApply, Reviewed, Request
<1>2. plan[p] \in Plan
  BY <1>1 DEF ControlInv, TypeOK, RequestFits, PlanFits
<1>3. PICK x \in Req :
        x = [Idle EXCEPT !.pc = "start", !.kind = "config_apply", !.actor = a,
             !.key = k, !.ref = p, !.want = plan[p].digest, !.sealed = token[p].schema]
  BY <1>1, <1>2 DEF Idle, Req, PC, Kind, Started, Token, Plan
<1>4. /\ x.pc = "start" /\ x.ref = p /\ x.actor = a /\ x.want = plan[p].digest
      /\ x.key = k
  BY <1>3 DEF Idle
<1> QED
  BY <1>1, <1>3, <1>4, IntentInv DEF BeginApply

LEMMA BeginRollbackInv ==
  ASSUME ControlInv, NEW r \in ChangeRequest, NEW k \in Key, BeginRollback(r, k)
  PROVE  ControlInv'
<1>0. [Idle EXCEPT !.pc = "start", !.kind = "config_rollback", !.key = k] \in Req
  BY IdleType DEF Req, PC, Kind, Started
<1>1. PICK x \in Req :
        x = [Idle EXCEPT !.pc = "start", !.kind = "config_rollback", !.key = k]
  BY <1>0
<1>2. x.pc = "start" /\ x.kind = "config_rollback" /\ x.key = k /\ r \in Request
  BY <1>1 DEF Idle, Request
<1>3. Intent(r, x)
  BY <1>1 DEF BeginRollback, Intent
<1> QED
  BY <1>2, <1>3, OtherIntentInv

LEMMA BeginReloadInv ==
  ASSUME ControlInv, NEW r \in ChangeRequest, NEW d \in Config, NEW k \in Key,
         BeginReload(r, d, k)
  PROVE  ControlInv'
<1>0. [Idle EXCEPT !.pc = "call", !.kind = "reload", !.key = k, !.want = d] \in Req
  BY IdleType DEF Req, PC, Kind, Started
<1>1. PICK x \in Req :
        x = [Idle EXCEPT !.pc = "call", !.kind = "reload", !.key = k, !.want = d]
  BY <1>0
<1>2. x.pc = "call" /\ x.kind = "reload" /\ x.key = k /\ x.want = d /\ r \in Request
  BY <1>1 DEF Idle, Request
<1>3. Intent(r, x)
  BY <1>1 DEF BeginReload, Intent
<1> QED
  BY <1>2, <1>3, OtherIntentInv

\* The agent as it was, the request cannot go on.
LEMMA RefusedInv ==
  ASSUME ControlInv, NEW r \in Request, Refused(r)
  PROVE  ControlInv'
<1>1. faults' \in 0..MaxFaults
  BY DEF Refused, ControlInv, TypeOK
<1> QED
  BY <1>1, GotoInv, SameAgent DEF Refused

LEMMA WriteFailsInv ==
  ASSUME ControlInv, NEW r \in Request, WriteFails(r)
  PROVE  ControlInv'
<1>1. faults' \in 0..MaxFaults
  BY DEF WriteFails, Fault, ControlInv, TypeOK
<1>2. CASE req[r].pc = "persist" /\ Goto(r, "fail")
  BY <1>1, <1>2, GotoInv, SameAgent DEF WriteFails
<1>3. CASE req[r].pc \in {"answer", "finish", "fail"} /\ Goto(r, "done")
  BY <1>1, <1>3, GotoInv, SameAgent DEF WriteFails
<1> QED
  BY <1>2, <1>3 DEF WriteFails

LEMMA StartApplyInv ==
  ASSUME ControlInv, NEW r \in ChangeRequest, StartApply(r)
  PROVE  ControlInv'
<1>1. faults' \in 0..MaxFaults /\ r \in Request
  BY DEF StartApply, ControlInv, TypeOK, Request
<1>2. CASE Goto(r, "fail")
  BY <1>1, <1>2, GotoInv, SameAgent DEF StartApply
<1>3. CASE req' = [req EXCEPT ![r] = [@ EXCEPT !.pc = "call"]]
  <2>1. req[r] \in Req
    BY <1>1 DEF ControlInv, TypeOK
  <2>2. PICK x \in Req : x = [req[r] EXCEPT !.pc = "call"]
    BY <2>1 DEF Req, PC
  <2>3. /\ x.pc = "call" /\ x.kind = req[r].kind /\ x.want = req[r].want
        /\ x.ref = req[r].ref /\ x.actor = req[r].actor /\ x.key = req[r].key
    BY <2>1, <2>2 DEF Req
  <2>4. req' = [req EXCEPT ![r] = x]
    BY <1>3, <2>2
  <2> QED
    BY <1>1, <2>2, <2>3, <2>4, MoveInv, SameAgent DEF StartApply
<1> QED
  BY <1>2, <1>3 DEF StartApply
LEMMA StartRollbackInv ==
  ASSUME ControlInv, NEW r \in ChangeRequest, NEW i \in DOMAIN revision, StartRollback(r, i)
  PROVE  ControlInv'
<1>1. /\ r \in Request /\ req[r] \in Req /\ req \in [Request -> Req]
      /\ revision[i] \in Config /\ i \in Nat /\ req[r].kind = "config_rollback" /\ req[r].pc = "start"
  BY DEF ControlInv, TypeOK, Request, StartRollback, Rollback
<1>2. PICK x \in Req : 
        x = [req[r] EXCEPT !.pc = "call", !.rev = i, !.want = revision[i]]
  BY <1>1 DEF Req, PC
<1>3. /\ x.pc = "call" /\ x.kind = "config_rollback" /\ x.key # None /\ x.want # None
      /\ x.rev = i /\ x.want = revision[i]
  BY <1>1, <1>2 DEF Req, ControlInv, RequestFits, HandlerFits
<1>4. /\ req' = [req EXCEPT ![r] = x] /\ req'[r] = x
      /\ audit' = [audit EXCEPT ![r] = "intent"] /\ audit'[r] = "intent"
      /\ expectation' = [expectation EXCEPT ![r] = None]
      /\ token[r] = None /\ expectation[r] = None /\ operation[r] = None
      /\ UNCHANGED <<poll, token, epoch, lapsed, agent>> /\ faults' \in 0..MaxFaults
  BY <1>1, <1>2, GoingOn DEF ControlInv, TypeOK, StartRollback, Rollback, server
<1>5. RequestFits(r)'
  BY <1>3, <1>4 DEF RequestFits, RowFits, ExpectationFits, HandlerFits, PlanFits,
     OperationFits, agent
<1> QED
  BY <1>1, <1>4, <1>5, ServerStep, SameAgent DEF Result

LEMMA SealInv ==
  ASSUME ControlInv, NEW r \in PlanRequest, Seal(r)
  PROVE  ControlInv'
<1>1. /\ r \in Request /\ req[r] \in Req /\ req \in [Request -> Req] /\ schema \in 0..MaxSchema
      /\ req[r].pc = "seal" /\ req[r].kind = "plan" /\ plan[r] # None
  BY DEF ControlInv, TypeOK, Request, Seal, RequestFits, HandlerFits
<1>2. PICK x \in Req : x = [req[r] EXCEPT !.pc = "answer", !.sealed = schema]
  BY <1>1 DEF Req, PC
<1>3. x.pc = "answer" /\ x.kind = "plan" /\ x.want = req[r].want
  BY <1>1, <1>2 DEF Req, Ended
<1>4. /\ req' = [req EXCEPT ![r] = x] /\ req'[r] = x
      /\ audit' = [audit EXCEPT ![r] = "intent"] /\ audit'[r] = "intent"
      /\ expectation' = [expectation EXCEPT ![r] = None]
      /\ token[r] = None /\ expectation[r] = None
      /\ UNCHANGED <<poll, token, epoch, lapsed, agent>> /\ faults' \in 0..MaxFaults
  BY <1>1, <1>2, GoingOn DEF ControlInv, TypeOK, Seal, server
<1>5. RequestFits(r)'
  BY <1>1, <1>3, <1>4 DEF ControlInv, RequestFits, RowFits, ExpectationFits, HandlerFits,
     PlanFits, OperationFits, agent, Started
<1> QED
  BY <1>1, <1>4, <1>5, ServerStep, SameAgent DEF Result

\* A token is given once the row is a success.
LEMMA AnswerPlanInv ==
  ASSUME ControlInv, NEW r \in PlanRequest, AnswerPlan(r)
  PROVE  ControlInv'
<1>1. /\ r \in Request /\ req[r] \in Req /\ req \in [Request -> Req] /\ epoch \in Nat
      /\ req[r].pc = "answer" /\ req[r].kind = "plan" /\ plan[r] # None
      /\ token \in [Request -> Token \cup {None}] /\ audit \in [Request -> Result]
  BY DEF ControlInv, TypeOK, Request, AnswerPlan, RequestFits, HandlerFits
<1>2. PICK x \in Req : x = Ended(req[r], "done", None)
  BY <1>1 DEF Req, PC, Ended
<1>3. x.pc = "done" /\ x.kind = "plan" /\ x.want = req[r].want
  BY <1>1, <1>2 DEF Req, Ended
<1>4. PICK t \in Token : t = [schema |-> req[r].sealed, epoch |-> epoch]
  BY <1>1 DEF Token, Req
<1>5. /\ req' = [req EXCEPT ![r] = x] /\ req'[r] = x
      /\ audit' = [audit EXCEPT ![r] = "success"] /\ audit'[r] = "success"
      /\ token' = [token EXCEPT ![r] = t] /\ token'[r] = t /\ t # None
      /\ token[r] = None /\ expectation[r] = None
      /\ UNCHANGED <<poll, expectation, epoch, lapsed, agent, faults>>
  BY <1>1, <1>2, <1>4, GoingOn DEF AnswerPlan, Goto
<1>6. TypeOK'
  BY <1>1, <1>5 DEF ControlInv, TypeOK, agent, Result
<1>7. \A s \in Request \ {r} : Untouched(s)
  BY <1>1, <1>5 DEF Untouched, agent
<1>8. Kept
  BY <1>5, <1>7 DEF Kept, Untouched, agent
<1>9. RequestFits(r)'
  BY <1>1, <1>3, <1>5 DEF ControlInv, RequestFits, RowFits, ExpectationFits, HandlerFits,
     PlanFits, OperationFits, agent, Started
<1> QED
  BY <1>1, <1>5, <1>6, <1>7, <1>8, <1>9, RequestStep

LEMMA PlanAtAgentInv ==
  ASSUME ControlInv, NEW r \in PlanRequest, NEW d \in Config, PlanAtAgent(r, d)
  PROVE  ControlInv'
<1>1. /\ r \in Request /\ req[r] \in Req /\ req \in [Request -> Req] /\ active \in Config
      /\ req[r].pc = "call" /\ req[r].kind = "plan" /\ schema \in 0..MaxSchema
      /\ plan \in [Request -> Plan \cup {None}] /\ faults \in 0..MaxFaults
  BY DEF ControlInv, TypeOK, Request, PlanAtAgent
<1>2. PICK pc \in {"seal", "fail"} :
        Goto(r, pc) /\ faults' \in 0..MaxFaults
  BY <1>1 DEF PlanAtAgent, Lost, Fault
<1>3. PICK x \in Req : x = Ended(req[r], pc, None)
  BY <1>1 DEF Req, PC, Ended
<1>4. x.pc = pc /\ x.kind = "plan" /\ x.want = req[r].want
  BY <1>1, <1>3 DEF Req, Ended
<1>5. PICK n \in Plan : n = [digest |-> d, base |-> active, schema |-> schema, live |-> TRUE]
  BY <1>1 DEF Plan
<1>6. /\ req' = [req EXCEPT ![r] = x] /\ req'[r] = x
      /\ plan' = [plan EXCEPT ![r] = n] /\ plan'[r] = n /\ n # None
      /\ token[r] = None /\ expectation[r] = None /\ audit[r] = "intent"
      /\ operation[r] = None
      /\ UNCHANGED <<poll, server, operation, active, revision, schema, crossed>>
  BY <1>1, <1>2, <1>3, <1>5, GoingOn DEF PlanAtAgent, Goto
<1>7. TypeOK'
  BY <1>1, <1>2, <1>6 DEF ControlInv, TypeOK, server
<1>8. \A s \in Request \ {r} : Untouched(s)
  BY <1>1, <1>6 DEF Untouched, server
<1>9. RequestFits(r)'
  BY <1>1, <1>4, <1>6 DEF ControlInv, RequestFits, RowFits, ExpectationFits, HandlerFits,
     PlanFits, OperationFits, server, Started<1>10. Kept
  BY <1>1, <1>6, <1>8 DEF Kept, Untouched, server
<1> QED
  BY <1>1, <1>6, <1>7, <1>8, <1>9, <1>10, RequestStep

-----------------------------------------------------------------------------
(* Operations                                                               *)

\* What the agent does is what the request was authorized for.
LEMMA AgentsDigest ==
  ASSUME ControlInv, NEW r \in Request, req[r].pc = "call"
  PROVE  AgentDigest(r) = req[r].want
BY DEF ControlInv, RequestFits, HandlerFits, AgentDigest

\* The agent has a new operation for r, and what r does next is its own.
LEMMA AcceptStep ==
  ASSUME ControlInv, NEW r \in ChangeRequest, NEW state \in OperationState, Accept(r, state),
         req[r].pc = "call", req[r].kind \in {"reload"} \cup Started,
         NEW x \in Req, req' = [req EXCEPT ![r] = x],
         x.pc \in {"persist", "finish", "fail"},
         x.kind = req[r].kind, x.want = req[r].want, x.ref = req[r].ref,
         x.actor = req[r].actor,
         x.pc = "persist" =>
           /\ x.kind \in Started
           /\ x.answer # None /\ x.answer.id = r /\ x.answer.state = "running",
         x.pc = "finish" => x.kind = "reload" /\ state = "succeeded",
         req[r].kind = "config_apply" => plan[req[r].ref].base = active,
         UNCHANGED <<poll, server>>, faults' \in 0..MaxFaults
  PROVE  ControlInv'
<1>1. /\ r \in Request /\ req[r] \in Req /\ req \in [Request -> Req] /\ active \in Config
      /\ operation \in [Request -> Operation \cup {None}]
  BY DEF ControlInv, TypeOK, Request
<1>2. req[r].want \in Config /\ req[r].key \in Key /\ req[r].kind \in Kind
  BY <1>1 DEF ControlInv, RequestFits, HandlerFits, Req, Kind, Started
<1>3. PICK n \in Operation :
        n = [kind |-> req[r].kind, digest |-> AgentDigest(r), base |-> active,
             key |-> req[r].key, state |-> state]
  BY <1>1, <1>2, AgentsDigest DEF Operation
<1>4. /\ n # None /\ n.kind = x.kind /\ n.digest = x.want /\ n.base = active
      /\ n.state = state
  BY <1>1, <1>3, AgentsDigest
<1>5. /\ operation' = [operation EXCEPT ![r] = n] /\ operation'[r] = n
      /\ UNCHANGED <<plan, active, revision, schema, crossed>>
      /\ req'[r] = x
      /\ token[r] = None /\ expectation[r] = None /\ audit[r] = "intent"
      /\ operation[r] = None
  BY <1>1, <1>3, GoingOn DEF Accept
<1>6. TypeOK'
  BY <1>1, <1>5 DEF ControlInv, TypeOK, server
<1>7. \A s \in Request \ {r} : Untouched(s)
  BY <1>1, <1>5 DEF Untouched, server
<1>8. Kept
  BY <1>1, <1>5, <1>7 DEF Kept, Untouched, server
<1>9. RowFits(r)' /\ ExpectationFits(r)'
  BY <1>5 DEF RowFits, ExpectationFits, server
<1>10. HandlerFits(r)'
  BY <1>4, <1>5 DEF HandlerFits, Agrees, Authorized, server
<1>11. PlanFits(r)' /\ OperationFits(r)'
  <2>1. req[r].kind = "config_apply" =>
          \E p \in Request :
            /\ req[r].ref = p /\ p # None /\ token[p] # None
            /\ req[p].actor = req[r].actor /\ plan[p].digest = req[r].want
    BY <1>1, TypedRequest DEF ControlInv, RequestFits, PlanFits
  <2>2. \A p \in Request : req'[p].actor = req[p].actor
    BY <1>1, <1>5
  <2>3. PlanFits(r)'
    BY <1>5, <2>1, <2>2 DEF PlanFits, server
  <2>4. x.kind = "config_apply" => plan[x.ref].base = n.base
    BY <1>4
  <2>5. OperationFits(r)'
    BY <1>4, <1>5, <2>4 DEF OperationFits
  <2> QED
    BY <2>3, <2>5
<1> QED
  BY <1>1, <1>5, <1>6, <1>7, <1>8, <1>9, <1>10, <1>11, RequestStep DEF RequestFits
LEMMA StartAtAgentInv ==
  ASSUME ControlInv, NEW r \in ChangeRequest, StartAtAgent(r)
  PROVE  ControlInv'
<1>1. /\ r \in Request /\ req[r] \in Req /\ req \in [Request -> Req] /\ faults \in 0..MaxFaults
      /\ req[r].pc = "call" /\ req[r].kind \in Started
  BY DEF ControlInv, TypeOK, Request, StartAtAgent, Calling
<1>2. PICK a \in Answer : a = [id |-> r, state |-> "running"]
  BY <1>1 DEF Answer, OperationState
<1>3. CASE Answered(r, r, "running") /\ UNCHANGED faults
  <2>1. PICK x \in Req : x = Ended(req[r], "persist", a)
    BY <1>1 DEF Req, PC, Ended
  <2>2. /\ x.pc = "persist" /\ x.answer = a /\ a # None /\ x.kind = req[r].kind
        /\ x.want = req[r].want /\ x.ref = req[r].ref /\ x.actor = req[r].actor
    BY <1>1, <2>1 DEF Req, Ended
  <2>3. req' = [req EXCEPT ![r] = x]
    BY <1>2, <1>3, <2>1 DEF Answered
  <2>4. /\ Accept(r, "running") /\ UNCHANGED <<poll, server>> /\ faults' \in 0..MaxFaults
        /\ req[r].kind = "config_apply" => plan[req[r].ref].base = active
    BY <1>1, <1>3 DEF StartAtAgent
  <2>5. a.id = r /\ a.state = "running"
    BY <1>2
  <2> QED
    BY <1>1, <2>2, <2>3, <2>4, <2>5, AcceptStep DEF OperationState
<1>4. CASE Lost(r)
  <2>1. PICK x \in Req : x = Ended(req[r], "fail", None)
    BY <1>1 DEF Req, PC, Ended
  <2>2. /\ x.pc = "fail" /\ x.kind = req[r].kind
        /\ x.want = req[r].want /\ x.ref = req[r].ref /\ x.actor = req[r].actor
    BY <1>1, <2>1 DEF Req, Ended
  <2>3. req' = [req EXCEPT ![r] = x] /\ faults' \in 0..MaxFaults
    BY <1>1, <1>4, <2>1 DEF Lost, Goto, Fault
  <2> QED
    BY <1>1, <2>2, <2>3, AcceptStep DEF StartAtAgent, OperationState
<1> QED
  BY <1>3, <1>4 DEF StartAtAgent

LEMMA ReloadAtAgentInv ==
  ASSUME ControlInv, NEW r \in ChangeRequest, ReloadAtAgent(r)
  PROVE  ControlInv'
<1>1. /\ r \in Request /\ req[r] \in Req /\ req \in [Request -> Req] /\ faults \in 0..MaxFaults
      /\ req[r].pc = "call" /\ req[r].kind = "reload"
  BY DEF ControlInv, TypeOK, Request, ReloadAtAgent
<1>2. PICK pc \in {"finish", "fail"} : Goto(r, pc) /\ faults' \in 0..MaxFaults
  BY <1>1 DEF ReloadAtAgent, Lost, Fault
<1>3. PICK x \in Req : x = Ended(req[r], pc, None)
  BY <1>1 DEF Req, PC, Ended
<1>4. /\ x.pc = pc /\ x.kind = req[r].kind
      /\ x.want = req[r].want /\ x.ref = req[r].ref /\ x.actor = req[r].actor
  BY <1>1, <1>3 DEF Req, Ended
<1>5. req' = [req EXCEPT ![r] = x]
  BY <1>2, <1>3 DEF Goto
<1> QED
  BY <1>1, <1>2, <1>4, <1>5, AcceptStep DEF ReloadAtAgent, OperationState

\* The answer about an operation the agent has reaches the server.
LEMMA ReceiveInv ==
  ASSUME ControlInv, NEW r \in ChangeRequest, NEW o \in Request, Calling(r),
         operation[o] # None, Receive(r, o, operation[o].state),
         r \notin crossed' => operation[o].digest = req[r].want,
         UNCHANGED <<poll, server>>, AgentKept, faults' \in 0..MaxFaults
  PROVE  ControlInv'
<1>1. /\ r \in Request /\ req[r] \in Req /\ req \in [Request -> Req]
      /\ req[r].pc = "call" /\ req[r].kind \in Started /\ operation[o] \in Operation
  BY DEF ControlInv, TypeOK, Request, Calling
<1>2. CASE Goto(r, "fail")
  BY <1>1, <1>2, GotoInv
<1>3. CASE Matches(req[r].kind, req[r].want, o, operation[o].state)
           /\ Answered(r, o, operation[o].state)
  <2>1. PICK a \in Answer : a = [id |-> o, state |-> operation[o].state]
    BY <1>1 DEF Answer, Operation
  <2>2. PICK x \in Req : x = Ended(req[r], "persist", a)
    BY <1>1 DEF Req, PC, Ended
  <2>3. /\ x.pc = "persist" /\ x.answer = a /\ a # None /\ x.kind = req[r].kind
        /\ x.want = req[r].want /\ x.ref = req[r].ref /\ x.actor = req[r].actor
    BY <1>1, <2>2 DEF Req, Ended
  <2>4. /\ req' = [req EXCEPT ![r] = x] /\ req'[r] = x
        /\ audit' = [audit EXCEPT ![r] = "intent"] /\ audit'[r] = "intent"
        /\ expectation' = [expectation EXCEPT ![r] = None]
        /\ token[r] = None /\ expectation[r] = None /\ operation[r] = None
        /\ UNCHANGED <<poll, token, epoch, lapsed>>
    BY <1>1, <1>3, <2>1, <2>2, GoingOn DEF ControlInv, TypeOK, Answered, server
  <2>5. Agrees(o, x.kind, x.want, a.state)'
    BY <1>1, <1>3, <2>1, <2>3, <2>4 DEF Agrees, Matches, AgentKept
  <2>8. Authorized(r, o)'
    BY <1>1, <2>3, <2>4 DEF Authorized, AgentKept
  <2>6. RowFits(r)' /\ ExpectationFits(r)' /\ HandlerFits(r)' /\ OperationFits(r)'
    BY <1>1, <2>1, <2>3, <2>4, <2>5, <2>8 DEF RowFits, ExpectationFits, HandlerFits, OperationFits,
       Agrees, AgentKept, Started
  <2>7. PlanFits(r)'
    <3>1. req[r].kind = "config_apply" =>
            \E p \in Request :
              /\ req[r].ref = p /\ p # None /\ token[p] # None
              /\ req[p].actor = req[r].actor /\ plan[p].digest = req[r].want
      BY <1>1, TypedRequest DEF ControlInv, RequestFits, PlanFits
    <3>2. \A p \in Request : req'[p].actor = req[p].actor
      BY <1>1, <2>3, <2>4
    <3> QED
      BY <2>3, <2>4, <3>1, <3>2 DEF PlanFits, AgentKept
  <2> QED
    BY <1>1, <2>4, <2>6, <2>7, ServerStep DEF RequestFits, Result
<1> QED
  BY <1>2, <1>3 DEF Receive

LEMMA RepeatAtAgentInv ==
  ASSUME ControlInv, NEW r \in ChangeRequest, NEW o \in Request, RepeatAtAgent(r, o)
  PROVE  ControlInv'
<1>1. faults' \in 0..MaxFaults /\ r \in Request
  BY DEF RepeatAtAgent, ControlInv, TypeOK, Request
<1>2. operation[o].digest = req[r].want
  BY <1>1, AgentsDigest DEF RepeatAtAgent, Calling
<1> QED
  BY <1>1, <1>2, ReceiveInv, SameAgent DEF RepeatAtAgent

LEMMA CrossedAtAgentInv ==
  ASSUME ControlInv, NEW r \in ChangeRequest, NEW o \in Request, CrossedAtAgent(r, o)
  PROVE  ControlInv'
<1>1. faults' \in 0..MaxFaults
  BY DEF CrossedAtAgent, ControlInv, TypeOK, Fault
<1>2. r \in crossed' /\ AgentKept
  BY DEF CrossedAtAgent, ControlInv, TypeOK, AgentKept, Request
<1> QED
  BY <1>1, <1>2, ReceiveInv DEF CrossedAtAgent

LEMMA PersistInv ==
  ASSUME ControlInv, NEW r \in ChangeRequest, Persist(r)
  PROVE  ControlInv'
<1>1. /\ r \in Request /\ req[r] \in Req /\ req \in [Request -> Req] /\ faults \in 0..MaxFaults
      /\ req[r].pc = "persist" /\ req[r].kind \in Started
      /\ req[r].answer \in Answer /\ req[r].answer.id \in Request
      /\ Agrees(req[r].answer.id, req[r].kind, req[r].want, req[r].answer.state)
      /\ Authorized(r, req[r].answer.id)
  BY DEF ControlInv, TypeOK, Request, Persist, RequestFits, HandlerFits, Req, Answer
<1>2. PICK x \in Req : x = Ended(req[r], "done", None)
  BY <1>1 DEF Req, PC, Ended
<1>3. /\ x.pc = "done" /\ x.kind = req[r].kind
      /\ x.want = req[r].want /\ x.ref = req[r].ref /\ x.actor = req[r].actor
  BY <1>1, <1>2 DEF Req, Ended
<1>4. PICK o \in Request : o = req[r].answer.id
  BY <1>1
<1>5. PICK st \in OperationState : st = req[r].answer.state
  BY <1>1 DEF Answer
<1>6. PICK y \in {"pending", "success", "failure"} : y = Outcome(st) /\ StateOf(y) = st
  BY DEF OperationState, Outcome, StateOf
<1>7. /\ req' = [req EXCEPT ![r] = x] /\ req'[r] = x
      /\ audit' = [audit EXCEPT ![r] = y] /\ audit'[r] = y
      /\ expectation' = [expectation EXCEPT ![r] = o] /\ expectation'[r] = o
      /\ token[r] = None /\ expectation[r] = None
      /\ UNCHANGED <<poll, token, epoch, lapsed, agent>> /\ faults' \in 0..MaxFaults
  BY <1>1, <1>2, <1>4, <1>5, <1>6, GoingOn DEF ControlInv, TypeOK, Persist, Goto
<1>8. Agrees(o, x.kind, x.want, st)' /\ Authorized(r, o)'
  BY <1>1, <1>3, <1>4, <1>5, <1>7 DEF Agrees, Authorized, agent
<1>9. RowFits(r)' /\ ExpectationFits(r)' /\ HandlerFits(r)'
  BY <1>1, <1>3, <1>6, <1>7, <1>8 DEF RowFits, ExpectationFits, HandlerFits, Started, Agrees
<1>10. PlanFits(r)' /\ OperationFits(r)'
  <2>1. req[r].kind = "config_apply" =>
          \E p \in Request :
            /\ req[r].ref = p /\ p # None /\ token[p] # None
            /\ req[p].actor = req[r].actor /\ plan[p].digest = req[r].want
    BY <1>1, TypedRequest DEF ControlInv, RequestFits, PlanFits
  <2>2. \A p \in Request : req'[p].actor = req[p].actor
    BY <1>1, <1>3, <1>7
  <2>3. PlanFits(r)'
    BY <1>3, <1>7, <2>1, <2>2 DEF PlanFits, agent
  <2>4. OperationFits(r)'
    BY <1>1, <1>3, <1>7, <2>1 DEF ControlInv, RequestFits, OperationFits, agent
  <2> QED
    BY <2>3, <2>4
<1> QED
  BY <1>1, <1>7, <1>9, <1>10, ServerStep, SameAgent DEF RequestFits, Result

LEMMA FinishInv ==
  ASSUME ControlInv, NEW r \in Request, Finish(r)
  PROVE  ControlInv'
<1>1. /\ req[r] \in Req /\ req \in [Request -> Req] /\ req[r].pc \in {"finish", "fail"}
  BY DEF ControlInv, TypeOK, Finish
<1>2. PICK x \in Req : x = Ended(req[r], "done", None)
  BY <1>1 DEF Req, PC, Ended
<1>3. /\ x.pc = "done" /\ x.kind = req[r].kind
      /\ x.want = req[r].want /\ x.ref = req[r].ref /\ x.actor = req[r].actor
  BY <1>1, <1>2 DEF Req, Ended
<1>4. PICK y \in {"success", "failure"} :
        /\ y = (IF req[r].pc = "finish" THEN "success" ELSE "failure")
        /\ y = "success" => req[r].pc = "finish"
  OBVIOUS
<1>5. /\ req' = [req EXCEPT ![r] = x] /\ req'[r] = x
      /\ audit' = [audit EXCEPT ![r] = y] /\ audit'[r] = y
      /\ expectation' = [expectation EXCEPT ![r] = None]
      /\ token[r] = None /\ expectation[r] = None
      /\ UNCHANGED <<poll, token, epoch, lapsed, agent>> /\ faults' \in 0..MaxFaults
  BY <1>1, <1>2, <1>4, GoingOn DEF ControlInv, TypeOK, Finish, Goto
<1>6. /\ req[r].pc = "finish" => req[r].kind = "reload"
      /\ req[r].pc = "finish" => Agrees(r, "reload", req[r].want, "succeeded")
  BY DEF ControlInv, RequestFits, HandlerFits
<1>7. RowFits(r)' /\ ExpectationFits(r)'
  BY <1>3, <1>4, <1>5, <1>6 DEF RowFits, ExpectationFits, Started
<1>8. HandlerFits(r)'
  BY <1>3, <1>4, <1>5, <1>6 DEF HandlerFits, Agrees, agent
<1>9. PlanFits(r)' /\ OperationFits(r)'
  <2>1. req[r].kind = "config_apply" =>
          \E p \in Request :
            /\ req[r].ref = p /\ p # None /\ token[p] # None
            /\ req[p].actor = req[r].actor /\ plan[p].digest = req[r].want
    BY <1>1, TypedRequest DEF ControlInv, RequestFits, PlanFits
  <2>2. \A p \in Request : req'[p].actor = req[p].actor
    BY <1>1, <1>3, <1>5
  <2>3. PlanFits(r)'
    BY <1>3, <1>5, <2>1, <2>2 DEF PlanFits, agent
  <2>4. OperationFits(r)'
    BY <1>1, <1>3, <1>5, <2>1 DEF ControlInv, RequestFits, OperationFits, agent
  <2> QED
    BY <2>3, <2>4
<1> QED
  BY <1>1, <1>5, <1>7, <1>8, <1>9, ServerStep, SameAgent DEF RequestFits, Result

-----------------------------------------------------------------------------
(* Polls                                                                    *)

\* A poller that writes no row.
LEMMA PollerStep ==
  ASSUME ControlInv, NEW q \in Poller, NEW x \in Poll, poll' = [poll EXCEPT ![q] = x],
         UNCHANGED <<req, server, agent, faults>>, PollFits(q)'
  PROVE  ControlInv'
<1>1. TypeOK'
  BY DEF ControlInv, TypeOK, server, agent
<1>2. (\A s \in Request : Untouched(s)) /\ Kept
  BY DEF Untouched, Kept, server, agent
<1>3. \A r \in Request : RequestFits(r)'
  BY <1>2, UntouchedFits DEF ControlInv
<1>4. \A p \in Poller \ {q} : PollFits(p)'
  <2>1. \A e \in Request : expectation' = expectation /\ req' = req
    BY DEF server
  <2> QED
    BY <1>2, <2>1, PollKept DEF ControlInv, TypeOK
<1> QED
  BY <1>1, <1>3, <1>4 DEF ControlInv
LEMMA ReadExpectationsInv ==
  ASSUME ControlInv, NEW q \in Poller, NEW o \in ChangeRequest, ReadExpectations(q, o)
  PROVE  ControlInv'
<1>1. o \in Request /\ Expecting(o) \subseteq ChangeRequest /\ ChangeRequest \subseteq Request
  BY DEF Request, Expecting
<1>2. PICK a \in Answer : a = [id |-> o, state |-> "running"]
  BY <1>1 DEF Answer, OperationState
<1>3. PICK x \in Poll : x = [pc |-> "call", rows |-> Expecting(o), answer |-> a]
  BY <1>1 DEF Poll
<1>4. /\ poll' = [poll EXCEPT ![q] = x] /\ UNCHANGED <<req, server, agent, faults>>
      /\ poll'[q] = x /\ Expecting(o) # {}
  BY <1>2, <1>3 DEF ReadExpectations, ControlInv, TypeOK
<1>5. \A e \in Expecting(o) : Agrees(o, req[e].kind, req[e].want, "running")
  BY <1>1 DEF Expecting, ControlInv, RequestFits, ExpectationFits, Agrees
<1>6. PollFits(q)'
  <2>1. x.answer = a /\ a # None /\ a.id = o /\ a.state = "running" /\ x.rows = Expecting(o)
    BY <1>2, <1>3
  <2> QED
    BY <1>4, <1>5, <2>1 DEF PollFits, Agrees, Expecting, server, agent
<1> QED
  BY <1>4, <1>6, PollerStep

LEMMA PollAtAgentInv ==
  ASSUME ControlInv, NEW q \in Poller, PollAtAgent(q)
  PROVE  ControlInv'
<1>1. /\ poll[q] \in Poll /\ poll[q].pc = "call" /\ poll[q].answer \in Answer
      /\ poll[q].answer.id \in Request
  BY DEF ControlInv, TypeOK, PollAtAgent, PollFits, Poll, Answer
<1>2. PICK o \in Request : o = poll[q].answer.id
  BY <1>1
<1>3. operation[o] \in Operation
  BY <1>1, <1>2 DEF ControlInv, TypeOK, PollFits, Agrees, PollAtAgent
<1>4. PICK a \in Answer : a = [id |-> o, state |-> operation[o].state]
  BY <1>3 DEF Answer, Operation
<1>5. PICK x \in Poll : x = [poll[q] EXCEPT !.pc = "finalize", !.answer = a]
  BY <1>1 DEF Poll
<1>6. /\ x.answer = a /\ a # None /\ a.id = o /\ a.state = operation[o].state
      /\ x.rows = poll[q].rows
  BY <1>1, <1>4, <1>5 DEF Poll
<1>7. /\ poll' = [poll EXCEPT ![q] = x] /\ UNCHANGED <<req, server, agent, faults>>
      /\ poll'[q] = x
      /\ \A e \in poll[q].rows : Matches(req[e].kind, req[e].want, o, operation[o].state)
  BY <1>2, <1>4, <1>5 DEF PollAtAgent, ControlInv, TypeOK
<1>8. PollFits(q)'
  <2>1. \A e \in poll[q].rows : /\ expectation[e] = o
                                 /\ Agrees(o, req[e].kind, req[e].want, operation[o].state)
    BY <1>1, <1>2, <1>3, <1>7 DEF ControlInv, PollFits, Agrees, Matches
  <2> QED
    BY <1>1, <1>6, <1>7, <2>1 DEF ControlInv, PollFits, Agrees, server, agent
<1> QED
  BY <1>7, <1>8, PollerStep

LEMMA PollFailsInv ==
  ASSUME ControlInv, NEW q \in Poller, PollFails(q)
  PROVE  ControlInv'
<1>1. NoPoll \in Poll
  BY DEF NoPoll, Poll
<1>2. PollFits(q)'
  BY DEF PollFails, PollFits, NoPoll, ControlInv, TypeOK
<1> QED
  BY <1>1, <1>2, PollerStep DEF PollFails

\* The rows a poll concludes are of the operation it saw end; a row that has
\* its result gets the same again.
LEMMA FinalizeInv ==
  ASSUME ControlInv, NEW q \in Poller, Finalize(q)
  PROVE  ControlInv'
<1>1. /\ poll[q] \in Poll /\ poll[q].answer \in Answer /\ poll[q].answer.id \in Request
      /\ poll[q].rows \subseteq Request /\ poll[q].pc # "idle" /\ audit \in [Request -> Result]
  BY DEF ControlInv, TypeOK, Finalize, PollFits, Poll, Answer, Request
<1>2. PICK st \in OperationState : st = poll[q].answer.state
  BY <1>1 DEF Answer
<1>3. PICK o \in Request : o = poll[q].answer.id
  BY <1>1
<1>4. \A e \in poll[q].rows : expectation[e] = o /\ Agrees(o, req[e].kind, req[e].want, st)
  BY <1>1, <1>2, <1>3 DEF ControlInv, PollFits
<1>5. /\ Outcome(st) \in Result
      /\ Concludes(st) => /\ Outcome(st) \in {"success", "failure"}
                          /\ StateOf(Outcome(st)) = st
  BY DEF OperationState, Outcome, StateOf, Concludes, Result
<1>6. /\ \A e \in Request : audit'[e] = IF Concludes(st) /\ e \in poll[q].rows
                                         THEN Outcome(st) ELSE audit[e]
      /\ audit' \in [Request -> Result]
      /\ poll' = [poll EXCEPT ![q] = NoPoll]
      /\ UNCHANGED <<req, expectation, token, epoch, lapsed, agent, faults>>
  BY <1>1, <1>2, <1>5 DEF Finalize
<1>7. NoPoll \in Poll /\ NoPoll.pc = "idle"
  BY DEF NoPoll, Poll
<1>8. TypeOK'
  BY <1>6, <1>7 DEF ControlInv, TypeOK, agent
<1>9. \A s \in Request : s \in poll[q].rows =>
        /\ expectation[s] = o /\ expectation[s] # None
        /\ req[s].pc = "done" /\ req[s].kind \in Started /\ token[s] = None
  BY <1>3, <1>4 DEF ControlInv, RequestFits, ExpectationFits, PlanFits, Started
<1>10. Kept
  BY <1>6, <1>9 DEF Kept, agent
<1>11. ASSUME NEW s \in Request PROVE RequestFits(s)'
  <2>1. CASE ~(Concludes(st) /\ s \in poll[q].rows)
    <3>1. Untouched(s)
      BY <1>6, <2>1 DEF Untouched, agent
    <3> QED
      BY <1>10, <3>1, UntouchedFits DEF ControlInv
  <2>2. CASE Concludes(st) /\ s \in poll[q].rows
    <3>1. /\ audit'[s] \in {"success", "failure"} /\ StateOf(audit'[s]) = st
          /\ Agrees(o, req[s].kind, req[s].want, st)
          /\ RequestFits(s)
      BY <1>4, <1>5, <1>6, <2>2 DEF ControlInv
    <3>2. RowFits(s)' /\ ExpectationFits(s)'
      BY <1>6, <1>9, <2>2, <3>1 DEF RequestFits, RowFits, ExpectationFits, Agrees, Authorized,
         agent, StateOf
    <3>3. HandlerFits(s)' /\ PlanFits(s)' /\ OperationFits(s)'
      BY <1>6, <1>9, <2>2, <3>1 DEF RequestFits, HandlerFits, PlanFits, OperationFits, Agrees,
         agent, Started
    <3> QED
      BY <3>2, <3>3 DEF RequestFits
  <2> QED
    BY <2>1, <2>2
<1>12. ASSUME NEW p \in Poller PROVE PollFits(p)'
  <2>1. CASE p = q
    BY <1>6, <1>7, <2>1 DEF ControlInv, TypeOK, PollFits
  <2>2. CASE p # q
    BY <1>6, <1>10, <2>2, PollKept DEF ControlInv, TypeOK
  <2> QED
    BY <2>1, <2>2
<1> QED
  BY <1>8, <1>11, <1>12 DEF ControlInv

-----------------------------------------------------------------------------
(* The agent, and restarts                                                  *)

LEMMA AgentStepInv ==
  ASSUME ControlInv, TypeOK', Kept, UNCHANGED <<req, poll, server>>,
         \A s \in Request : operation[s] = None => operation'[s] = None
  PROVE  ControlInv'
<1>1. \A s \in Request : Untouched(s)
  BY DEF Untouched, server
<1>2. \A s \in Request : RequestFits(s)'
  BY <1>1, UntouchedFits DEF ControlInv
<1>3. \A q \in Poller : PollFits(q)'
  BY PollKept DEF ControlInv, server
<1> QED
  BY <1>2, <1>3 DEF ControlInv

LEMMA OperationEndsInv ==
  ASSUME ControlInv, NEW o \in Request, NEW state \in OperationState, OperationEnds(o, state)
  PROVE  ControlInv'
<1>1. /\ operation \in [Request -> Operation \cup {None}] /\ operation[o] \in Operation
      /\ operation[o].state = "running"
  BY DEF ControlInv, TypeOK, OperationEnds
<1>2. PICK n \in Operation : n = [operation[o] EXCEPT !.state = state]
  BY <1>1 DEF Operation
<1>3. /\ n # None /\ n.kind = operation[o].kind /\ n.digest = operation[o].digest
      /\ n.base = operation[o].base
  BY <1>1, <1>2 DEF Operation
<1>4. /\ operation' = [operation EXCEPT ![o] = n]
      /\ UNCHANGED <<req, poll, server, plan, schema, crossed, faults>>
  BY <1>2 DEF OperationEnds
<1>5. /\ active' \in Config /\ revision' \in Seq(Config)
      /\ \A i \in DOMAIN revision : i \in DOMAIN revision' /\ revision'[i] = revision[i]
  <2>1. active \in Config /\ revision \in Seq(Config) /\ operation[o].digest \in Config
    BY <1>1 DEF ControlInv, TypeOK, Operation
  <2>2. CASE state = "succeeded"
    <3>1. active' = operation[o].digest /\ revision' = Append(revision, operation[o].digest)
      BY <2>2 DEF OperationEnds
    <3>2. PICK d \in Config : d = operation[o].digest
      BY <2>1
    <3>3. /\ Append(revision, d) \in Seq(Config)
          /\ DOMAIN revision = 1..Len(revision) /\ Len(revision) \in Nat
          /\ DOMAIN Append(revision, d) = 1..(Len(revision) + 1)
          /\ \A i \in 1..Len(revision) : Append(revision, d)[i] = revision[i]
      BY <2>1
    <3> QED
      BY <3>1, <3>2, <3>3
  <2>3. CASE state # "succeeded"
    BY <2>1, <2>3 DEF OperationEnds
  <2> QED
    BY <2>2, <2>3
<1>6. TypeOK'
  BY <1>1, <1>4, <1>5 DEF ControlInv, TypeOK, server
<1>7. Kept
  BY <1>1, <1>3, <1>4, <1>5 DEF Kept, server
<1> QED
  BY <1>1, <1>3, <1>4, <1>6, <1>7, AgentStepInv

LEMMA PlanExpiresInv ==
  ASSUME ControlInv, NEW p \in Request, PlanExpires(p)
  PROVE  ControlInv'
<1>1. plan \in [Request -> Plan \cup {None}] /\ plan[p] \in Plan
  BY DEF ControlInv, TypeOK, PlanExpires
<1>2. PICK n \in Plan : n = [plan[p] EXCEPT !.live = FALSE]
  BY <1>1 DEF Plan
<1>3. n # None /\ n.digest = plan[p].digest /\ n.base = plan[p].base
  BY <1>1, <1>2 DEF Plan
<1>4. /\ plan' = [plan EXCEPT ![p] = n]
      /\ UNCHANGED <<req, poll, server, operation, active, revision, schema, crossed, faults>>
  BY <1>2 DEF PlanExpires
<1>5. TypeOK'
  BY <1>1, <1>4 DEF ControlInv, TypeOK, server
<1>6. Kept
  BY <1>1, <1>3, <1>4 DEF Kept, server
<1> QED
  BY <1>4, <1>5, <1>6, AgentStepInv

LEMMA SchemaChangesInv ==
  ASSUME ControlInv, SchemaChanges
  PROVE  ControlInv'
<1>1. TypeOK'
  BY DEF SchemaChanges, Fault, ControlInv, TypeOK, server
<1>2. Kept
  BY DEF SchemaChanges, Kept, server
<1> QED
  BY <1>1, <1>2, AgentStepInv DEF SchemaChanges

\* A restart ends every request where it is.
LEMMA RestartInv ==
  ASSUME ControlInv, Restart
  PROVE  ControlInv'
<1>1. /\ req \in [Request -> Req] /\ \A r \in Request : req[r] \in Req
      /\ UNCHANGED <<audit, expectation, token, lapsed, agent>>
      /\ poll' = [q \in Poller |-> NoPoll] /\ NoPoll \in Poll /\ NoPoll.pc = "idle"
      /\ faults' \in 0..MaxFaults /\ epoch' \in Nat
  <2>1. NoPoll \in Poll /\ NoPoll.pc = "idle"
    BY DEF NoPoll, Poll
  <2>2. req \in [Request -> Req] /\ faults \in 0..MaxFaults /\ epoch \in Nat
    BY DEF ControlInv, TypeOK
  <2>3. faults' \in 0..MaxFaults /\ epoch' \in Nat
    <3>1. Fault /\ epoch' = epoch + 1
      BY DEF Restart
    <3> QED
      BY <2>2, <3>1 DEF Fault
  <2>4. UNCHANGED <<audit, expectation, token, lapsed, agent>> /\ poll' = [q \in Poller |-> NoPoll]
    BY DEF Restart
  <2> QED
    BY <2>1, <2>2, <2>3, <2>4
<1>2. ASSUME NEW r \in Request
      PROVE  /\ req'[r] \in Req
             /\ req'[r].pc = (IF req[r].pc = "idle" THEN "idle" ELSE "done")
             /\ req'[r].kind = req[r].kind /\ req'[r].want = req[r].want
             /\ req'[r].ref = req[r].ref /\ req'[r].actor = req[r].actor
  <2>1. req'[r] = IF req[r].pc = "idle" THEN req[r]
                  ELSE Ended(req[r], "done", None)
    BY DEF Restart
  <2>4. req[r] \in Req
    BY <1>1
  <2>2. PICK x \in Req : x = Ended(req[r], "done", None)
    BY <2>4 DEF Req, PC, Ended
  <2>3. /\ x.pc = "done" /\ x.kind = req[r].kind
        /\ x.want = req[r].want /\ x.ref = req[r].ref /\ x.actor = req[r].actor
    BY <2>2, <2>4 DEF Req, Ended
  <2> QED
    BY <1>1, <2>1, <2>2, <2>3
<1>3. TypeOK'
  <2>1. req' \in [Request -> Req]
    BY <1>2 DEF Restart
  <2> QED
    BY <1>1, <2>1 DEF ControlInv, TypeOK, agent
<1>4. ASSUME NEW r \in Request PROVE RequestFits(r)'
  <2>1. RequestFits(r)
    BY DEF ControlInv
  <2>2. RowFits(r)'
    BY <1>1, <1>2, <2>1 DEF RequestFits, RowFits
  <2>3. ExpectationFits(r)'
    BY <1>1, <1>2, <2>1 DEF RequestFits, ExpectationFits, Agrees, Authorized, agent, StateOf
  <2>4. HandlerFits(r)'
    BY <1>1, <1>2, <2>1 DEF RequestFits, HandlerFits, Agrees, agent, RowFits
  <2>5. req[r].kind = "config_apply" => req[r].ref \in Request
    BY <2>1, TypedRequest DEF ControlInv, RequestFits, PlanFits
  <2>6. PlanFits(r)'
    BY <1>1, <1>2, <2>1, <2>5 DEF RequestFits, PlanFits, agent
  <2>7. OperationFits(r)'
    BY <1>1, <1>2, <2>1, <2>5 DEF RequestFits, OperationFits, agent
  <2> QED
    BY <2>2, <2>3, <2>4, <2>6, <2>7 DEF RequestFits
<1>5. \A q \in Poller : PollFits(q)'
  BY <1>1 DEF PollFits
<1> QED
  BY <1>3, <1>4, <1>5 DEF ControlInv
LEMMA ExpectationLapsesInv ==
  ASSUME ControlInv, NEW r \in Request, ExpectationLapses(r)
  PROVE  ControlInv'
<1>1. TypeOK'
  BY DEF ExpectationLapses, Fault, ControlInv, TypeOK, agent
<1>2. (\A s \in Request : Untouched(s)) /\ Kept
  BY DEF ExpectationLapses, Untouched, Kept, agent
<1>3. \A s \in Request : RequestFits(s)'
  BY <1>2, UntouchedFits DEF ControlInv
<1>4. \A q \in Poller : PollFits(q)'
  BY <1>2, PollKept DEF ControlInv, ExpectationLapses
<1> QED
  BY <1>1, <1>3, <1>4 DEF ControlInv

-----------------------------------------------------------------------------
(* Theorems                                                                 *)

LEMMA NextInv ==
  ASSUME ControlInv, [Next]_vars
  PROVE  ControlInv'
<1>1. CASE UNCHANGED vars
  <2>1. Kept /\ TypeOK' /\ UNCHANGED <<req, poll, server>>
    BY <1>1 DEF vars, agent, server, Kept, ControlInv, TypeOK
  <2> QED
    BY <1>1, <2>1, AgentStepInv DEF vars, agent
<1>2. ASSUME NEW r \in PlanRequest, (\E a \in Admin : BeginPlan(r, a)) \/ PlanStep(r)
      PROVE  ControlInv'
  BY <1>2, BeginPlanInv, PlanAtAgentInv, SealInv, AnswerPlanInv DEF PlanStep
<1>3. ASSUME NEW r \in ChangeRequest, BeginChange(r)
      PROVE  ControlInv'
  BY <1>3, BeginApplyInv, BeginRollbackInv, BeginReloadInv DEF BeginChange
<1>4. ASSUME NEW r \in ChangeRequest, OperationStep(r)
      PROVE  ControlInv'
  BY <1>4, StartApplyInv, StartRollbackInv, StartAtAgentInv, RepeatAtAgentInv,
     CrossedAtAgentInv, ReloadAtAgentInv, PersistInv DEF OperationStep
<1>5. ASSUME NEW q \in Poller, PollStep(q)
      PROVE  ControlInv'
  BY <1>5, ReadExpectationsInv, PollAtAgentInv, FinalizeInv, PollFailsInv DEF PollStep
<1>6. ASSUME NEW r \in Request, BeginRefused(r) \/ EndStep(r)
      PROVE  ControlInv'
  BY <1>6, BeginRefusedInv, FinishInv, RefusedInv, WriteFailsInv,
     ExpectationLapsesInv DEF EndStep
<1>7. CASE AgentStep
  BY <1>7, PlanExpiresInv, OperationEndsInv, SchemaChangesInv DEF AgentStep
<1>8. CASE Restart
  BY <1>8, RestartInv
<1> QED
  BY <1>1, <1>2, <1>3, <1>4, <1>5, <1>6, <1>7, <1>8 DEF Next

\* Rows, expectations, tokens, and what handlers and pollers carry fit the
\* agent's plans and operations (startControlOperation, Operation).
THEOREM ControlInvariant == Spec => []ControlInv
BY InitInv, NextInv, PTL DEF Spec

\* A change whose row says success was made, as it was authorized
\* (finalizeControlOperation, validateOperationResponse).
THEOREM SuccessIsAlwaysTrue == Spec => []SuccessIsTrue
<1>1. ControlInv => SuccessIsTrue
  <2> SUFFICES ASSUME ControlInv, NEW r \in Request, audit[r] = "success",
                      req[r].kind \in Started \cup {"reload"}
               PROVE  \E o \in Request : Agrees(o, req[r].kind, req[r].want, "succeeded")
    BY DEF SuccessIsTrue, Agrees
  <2>1. CASE req[r].kind = "reload"
    BY <2>1 DEF ControlInv, RequestFits, HandlerFits
  <2>2. CASE req[r].kind \in Started
    <3>1. expectation[r] # None /\ expectation[r] \in Request
      BY <2>2, TypedRequest DEF ControlInv, RequestFits, RowFits
    <3>2. Agrees(expectation[r], req[r].kind, req[r].want, "succeeded")
      BY <3>1 DEF ControlInv, RequestFits, ExpectationFits, StateOf
    <3> QED
      BY <3>1, <3>2
  <2> QED
    BY <2>1, <2>2
<1> QED
  BY <1>1, ControlInvariant, PTL

\* The agent applies what the same administrator planned in a plan whose row
\* says success, on the document the plan was made for (verifyPlanReview).
THEOREM AlwaysAppliedAsPlanned == Spec => []AppliedWasPlanned
<1>1. ControlInv => AppliedWasPlanned
  <2> SUFFICES ASSUME ControlInv, NEW r \in Request,
                      operation[r] # None, operation[r].kind = "config_apply"
               PROVE  /\ audit[req[r].ref] = "success"
                      /\ req[req[r].ref].kind = "plan"
                      /\ req[req[r].ref].actor = req[r].actor
                      /\ plan[req[r].ref].digest = operation[r].digest
                      /\ plan[req[r].ref].base = operation[r].base
    BY DEF AppliedWasPlanned
  <2>1. req[r].kind = "config_apply" /\ operation[r].digest = req[r].want
    BY DEF ControlInv, RequestFits, OperationFits
  <2>2. req[r].ref \in Request /\ token[req[r].ref] # None
    BY <2>1, TypedRequest DEF ControlInv, RequestFits, PlanFits
  <2> QED
    BY <2>1, <2>2 DEF ControlInv, RequestFits, PlanFits, OperationFits
<1> QED
  BY <1>1, ControlInvariant, PTL

\* A pending row can be concluded until its expectation lapses, unless the
\* agent mixed up its operation (operationExpectations, validateExpectedControlOperation).
THEOREM PendingIsAlwaysExpected == Spec => []PendingIsExpected
<1>1. ASSUME ControlInv, NEW r \in Request, audit[r] = "pending"
      PROVE  /\ expectation[r] # None
             /\ r \in lapsed \/ Confused(r) \/ Concludable(r)
  <2>1. expectation[r] # None
    BY <1>1 DEF ControlInv, RequestFits, RowFits
  <2>2. PICK o \in Request : o = expectation[r]
    BY <1>1, <2>1, TypedRequest DEF ControlInv
  <2>3. /\ r \in ChangeRequest /\ operation[o] # None
    BY <1>1, <2>1, <2>2 DEF ControlInv, RequestFits, ExpectationFits, Agrees
  <2>4. ASSUME r \notin lapsed, ~Confused(r)
        PROVE  Concludable(r)
    <3>1. r \in Expecting(o)
      BY <2>2, <2>3, <2>4 DEF Expecting
    <3>2. ASSUME NEW e \in Expecting(o)
          PROVE  operation[o].kind = req[e].kind /\ operation[o].digest = req[e].want
      <4>1. e \in Request /\ expectation[e] = o /\ expectation[e] # None
        BY <2>1, <2>2, <3>2 DEF Expecting, Request
      <4>2. e \notin crossed
        BY <2>2, <2>4, <3>2 DEF Confused
      <4> QED
        BY <1>1, <4>1, <4>2 DEF ControlInv, RequestFits, ExpectationFits, Agrees, Authorized
    <3> QED
      BY <2>2, <2>3, <3>1, <3>2 DEF Concludable, Agreed, Matches
  <2> QED
    BY <2>1, <2>4
<1>2. ControlInv => PendingIsExpected
  BY <1>1 DEF PendingIsExpected
<1> QED
  BY <1>2, ControlInvariant, PTL
-----------------------------------------------------------------------------
(* ControlOperations implements AuditLedger                                 *)

effective == {r \in Request : plan[r] # None \/ operation[r] # None}

LEMMA RecordStep ==
  ASSUME ControlInv', UNCHANGED effective,
         \A r \in Request : Ledger!MayBecome(audit[r], audit'[r])
  PROVE  Ledger!LedgerNext
<1>1. audit' \in [Request -> Ledger!Result]
  BY DEF ControlInv, TypeOK, Result, Ledger!Result, Ledger!Final
<1> QED
  BY <1>1 DEF Ledger!LedgerNext, Ledger!Record, effective

\* A step that leaves the agent's plans and operations, and writes the row of
\* r at most, which is at its intent.
LEMMA RowStep ==
  ASSUME ControlInv, ControlInv', NEW r \in Request, NEW y \in Result,
         audit' = [audit EXCEPT ![r] = y], y \in {"pending", "success", "failure"},
         req[r].pc \notin {"idle", "done"}, UNCHANGED agent
  PROVE  Ledger!LedgerNext
<1>1. UNCHANGED effective
  BY DEF effective, agent
<1>2. audit[r] = "intent"
  BY GoingOn
<1>3. \A s \in Request : Ledger!MayBecome(audit[s], audit'[s])
  BY <1>2 DEF Ledger!MayBecome, Ledger!Final, ControlInv, TypeOK
<1> QED
  BY <1>1, <1>3, RecordStep

LEMMA SameRows ==
  ASSUME ControlInv', UNCHANGED audit, UNCHANGED effective
  PROVE  Ledger!LedgerNext
BY RecordStep DEF Ledger!MayBecome

LEMMA EffectStep ==
  ASSUME ControlInv, NEW r \in Request, req[r].pc = "call", UNCHANGED audit,
         effective' = effective \cup {r}
  PROVE  Ledger!LedgerNext
<1>1. audit[r] = "intent"
  BY GoingOn
<1> QED
  BY <1>1 DEF Ledger!LedgerNext, Ledger!TakeEffect, effective

LEMMA IntentRow ==
  ASSUME ControlInv, ControlInv', NEW r \in Request, NEW x, Intent(r, x)
  PROVE  Ledger!LedgerNext
<1>1. UNCHANGED effective
  BY DEF effective, agent, Intent
<1>2. audit[r] = "none"
  BY GoingOn DEF Intent
<1>3. \A s \in Request : Ledger!MayBecome(audit[s], audit'[s])
  BY <1>2 DEF Ledger!MayBecome, ControlInv, TypeOK, Intent
<1> QED
  BY <1>1, <1>3, RecordStep

LEMMA PlanStepRow ==
  ASSUME ControlInv, ControlInv', NEW r \in PlanRequest, PlanStep(r)
  PROVE  Ledger!LedgerNext
<1>1. r \in Request
  BY DEF Request
<1>2. ASSUME NEW d \in Config, PlanAtAgent(r, d)
      PROVE  Ledger!LedgerNext
  <2>1. effective' = effective \cup {r}
    <3>1. \A s \in Request \ {r} : plan'[s] = plan[s]
      BY <1>2 DEF PlanAtAgent, ControlInv, TypeOK
    <3>2. [digest |-> d, base |-> active, schema |-> schema, live |-> TRUE] \in Plan
      BY DEF Plan, ControlInv, TypeOK
    <3>3. plan'[r] # None /\ operation' = operation
      BY <1>1, <1>2, <3>2 DEF PlanAtAgent, ControlInv, TypeOK
    <3> QED
      BY <1>1, <3>1, <3>3 DEF effective
  <2> QED
    BY <1>1, <1>2, <2>1, EffectStep DEF PlanAtAgent, server
<1>3. CASE Seal(r)
  BY <1>3, SameRows DEF Seal, server, agent, effective
<1>4. CASE AnswerPlan(r)
  BY <1>1, <1>4, RowStep DEF AnswerPlan, Result
<1> QED
  BY <1>2, <1>3, <1>4 DEF PlanStep

LEMMA AcceptRow ==
  ASSUME ControlInv, ControlInv', NEW r \in ChangeRequest, NEW state \in OperationState,
         req[r].pc = "call", req[r].kind \in {"reload"} \cup Started,
         Accept(r, state), UNCHANGED audit
  PROVE  Ledger!LedgerNext
<1>1. r \in Request
  BY DEF Request
<1>2. \A s \in Request \ {r} : operation'[s] = operation[s]
  BY DEF Accept, ControlInv, TypeOK
<1>3. operation'[r] # None /\ plan' = plan
  <2>1. operation'[r] = [kind |-> req[r].kind, digest |-> AgentDigest(r), base |-> active,
                         key |-> req[r].key, state |-> state]
    BY <1>1 DEF Accept, ControlInv, TypeOK
  <2>2. /\ req[r].want \in Config /\ req[r].key \in Key /\ req[r].kind \in Kind
        /\ active \in Config
    BY <1>1 DEF ControlInv, TypeOK, RequestFits, HandlerFits, Req, Kind, Started
  <2>3. operation'[r] \in Operation
    BY <1>1, <2>1, <2>2, AgentsDigest DEF Operation
  <2> QED
    BY <2>3 DEF Accept
<1>4. effective' = effective \cup {r}
  BY <1>1, <1>2, <1>3 DEF effective
<1> QED
  BY <1>1, <1>4, EffectStep
LEMMA OperationStepRow ==
  ASSUME ControlInv, ControlInv', NEW r \in ChangeRequest, OperationStep(r)
  PROVE  Ledger!LedgerNext
<1>1. r \in Request
  BY DEF Request
<1>2. CASE StartApply(r)
  BY <1>2, SameRows DEF StartApply, server, agent, effective
<1>3. ASSUME NEW i \in DOMAIN revision, StartRollback(r, i)
      PROVE  Ledger!LedgerNext
  BY <1>3, SameRows DEF StartRollback, Rollback, server, agent, effective
<1>4. CASE StartAtAgent(r)
  BY <1>4, AcceptRow DEF StartAtAgent, Calling, server, OperationState
<1>5. ASSUME NEW o \in Request, RepeatAtAgent(r, o) \/ CrossedAtAgent(r, o)
      PROVE  Ledger!LedgerNext
  <2>1. UNCHANGED audit /\ UNCHANGED effective
    BY <1>5 DEF RepeatAtAgent, CrossedAtAgent, server, agent, effective
  <2> QED
    BY <2>1, SameRows
<1>6. CASE ReloadAtAgent(r)
  BY <1>6, AcceptRow DEF ReloadAtAgent, server, OperationState
<1>7. CASE Persist(r)
  <2>1. PICK y \in {"pending", "success", "failure"} : y = Outcome(req[r].answer.state)
    <3>1. req[r].answer.state \in OperationState
      BY <1>1, <1>7 DEF ControlInv, TypeOK, Persist, RequestFits, HandlerFits, Req, Answer
    <3> QED
      BY <3>1 DEF OperationState, Outcome
  <2> QED
    BY <1>1, <1>7, <2>1, RowStep DEF Persist, Result
<1> QED
  BY <1>2, <1>3, <1>4, <1>5, <1>6, <1>7 DEF OperationStep

LEMMA PollStepRow ==
  ASSUME ControlInv, ControlInv', NEW q \in Poller, PollStep(q)
  PROVE  Ledger!LedgerNext
<1>1. ASSUME NEW o \in ChangeRequest, ReadExpectations(q, o)
      PROVE  Ledger!LedgerNext
  BY <1>1, SameRows DEF ReadExpectations, server, agent, effective
<1>2. CASE PollAtAgent(q)
  BY <1>2, SameRows DEF PollAtAgent, server, agent, effective
<1>3. CASE PollFails(q)
  BY <1>3, SameRows DEF PollFails, server, agent, effective
<1>4. CASE Finalize(q)
  <2>1. poll[q].answer \in Answer /\ poll[q].pc # "idle"
    BY <1>4 DEF Finalize, ControlInv, TypeOK, PollFits, Poll
  <2>2. PICK st \in OperationState : st = poll[q].answer.state
    BY <2>1 DEF Answer
  <2>3. ASSUME NEW s \in Request PROVE Ledger!MayBecome(audit[s], audit'[s])
    <3>1. audit'[s] = IF Concludes(st) /\ s \in poll[q].rows THEN Outcome(st) ELSE audit[s]
      BY <1>4, <2>2 DEF Finalize
    <3>2. CASE Concludes(st) /\ s \in poll[q].rows
      <4>1. /\ expectation[s] # None
            /\ Agrees(poll[q].answer.id, req[s].kind, req[s].want, st)
            /\ expectation[s] = poll[q].answer.id
        BY <2>1, <2>2, <3>2 DEF ControlInv, PollFits, TypeOK, Answer
      <4>2. /\ audit[s] \in {"pending", "success", "failure"}
            /\ Agrees(expectation[s], req[s].kind, req[s].want, StateOf(audit[s]))
        BY <4>1 DEF ControlInv, RequestFits, ExpectationFits
      <4>3. Concludes(st) => st \in {"succeeded", "failed"}
        BY DEF Concludes, OperationState
      <4>4. audit[s] = "pending" \/ StateOf(audit[s]) = st
        BY <3>2, <4>1, <4>2, <4>3 DEF Agrees, StateOf
      <4>5. audit[s] # "pending" => audit[s] = Outcome(st)
        BY <4>2, <4>4 DEF StateOf, Outcome
      <4>6. Outcome(st) \in {"success", "failure"}
        BY <3>2, <4>3 DEF Outcome
      <4> QED
        BY <3>1, <3>2, <4>2, <4>5, <4>6 DEF Ledger!MayBecome, Ledger!Final
    <3>3. CASE ~(Concludes(st) /\ s \in poll[q].rows)
      BY <3>1, <3>3 DEF Ledger!MayBecome
    <3> QED
      BY <3>2, <3>3
  <2>4. UNCHANGED effective
    BY <1>4 DEF Finalize, agent, effective
  <2> QED
    BY <2>3, <2>4, RecordStep
<1> QED
  BY <1>1, <1>2, <1>3, <1>4 DEF PollStep

LEMMA EndStepRow ==
  ASSUME ControlInv, ControlInv', NEW r \in Request, EndStep(r)
  PROVE  Ledger!LedgerNext
<1>1. CASE Finish(r)
  <2>1. PICK y \in {"success", "failure"} :
          y = (IF req[r].pc = "finish" THEN "success" ELSE "failure")
    OBVIOUS
  <2> QED
    BY <1>1, <2>1, RowStep DEF Finish, Result
<1>2. CASE Refused(r)
  BY <1>2, SameRows DEF Refused, server, agent, effective
<1>3. CASE WriteFails(r)
  BY <1>3, SameRows DEF WriteFails, server, agent, effective
<1>4. CASE ExpectationLapses(r)
  BY <1>4, SameRows DEF ExpectationLapses, agent, effective
<1> QED
  BY <1>1, <1>2, <1>3, <1>4 DEF EndStep

LEMMA AgentStepRow ==
  ASSUME ControlInv, ControlInv', AgentStep
  PROVE  Ledger!LedgerNext
<1>1. ASSUME NEW o \in Request, NEW state \in OperationState, OperationEnds(o, state)
      PROVE  Ledger!LedgerNext
  <2>1. \A s \in Request : operation'[s] # None <=> operation[s] # None
    <3>1. operation[o] \in Operation /\ operation \in [Request -> Operation \cup {None}]
      BY <1>1 DEF ControlInv, TypeOK, OperationEnds
    <3>2. [operation[o] EXCEPT !.state = state] \in Operation
      BY <3>1 DEF Operation
    <3> QED
      BY <1>1, <3>1, <3>2 DEF OperationEnds
  <2>2. UNCHANGED effective /\ UNCHANGED audit
    BY <1>1, <2>1 DEF OperationEnds, server, effective
  <2> QED
    BY <2>2, SameRows
<1>2. ASSUME NEW p \in Request, PlanExpires(p)
      PROVE  Ledger!LedgerNext
  <2>1. \A s \in Request : plan'[s] # None <=> plan[s] # None
    <3>1. plan[p] \in Plan /\ plan \in [Request -> Plan \cup {None}]
      BY <1>2 DEF ControlInv, TypeOK, PlanExpires
    <3>2. [plan[p] EXCEPT !.live = FALSE] \in Plan
      BY <3>1 DEF Plan
    <3> QED
      BY <1>2, <3>1, <3>2 DEF PlanExpires
  <2>2. UNCHANGED effective /\ UNCHANGED audit
    BY <1>2, <2>1 DEF PlanExpires, server, effective
  <2> QED
    BY <2>2, SameRows
<1>3. CASE SchemaChanges
  BY <1>3, SameRows DEF SchemaChanges, server, effective
<1> QED
  BY <1>1, <1>2, <1>3 DEF AgentStep

\* A row is an intent before the agent is changed, and has one result
\* (auditIntent, finishAudit, finalizeControlOperation).
THEOREM ControlImplementsLedger == Spec => LedgerKept
<1>1. Init => Ledger!LedgerInit
  BY DEF Init, Ledger!LedgerInit
<1>2. ControlInv /\ ControlInv' /\ [Next]_vars => [Ledger!LedgerNext]_(Ledger!ledger)
  <2> SUFFICES ASSUME ControlInv, ControlInv', Next
               PROVE  Ledger!LedgerNext
    BY DEF vars, server, agent, Ledger!ledger
  <2>1. ASSUME NEW r \in PlanRequest, NEW a \in Admin, BeginPlan(r, a)
        PROVE  Ledger!LedgerNext
    BY <2>1, IntentRow DEF BeginPlan, Request
  <2>2. ASSUME NEW r \in ChangeRequest, BeginChange(r)
        PROVE  Ledger!LedgerNext
    <3>1. PICK x : Intent(r, x)
      BY <2>2 DEF BeginChange, BeginApply, BeginRollback, BeginReload
    <3> QED
      BY <3>1, IntentRow DEF Request
  <2>3. ASSUME NEW r \in Request, BeginRefused(r)
        PROVE  Ledger!LedgerNext
    BY <2>3, IntentRow DEF BeginRefused
  <2>4. CASE Restart
    BY <2>4, SameRows DEF Restart, agent, effective
  <2> QED
    BY <2>1, <2>2, <2>3, <2>4, PlanStepRow, OperationStepRow, PollStepRow, EndStepRow,
       AgentStepRow DEF Next
<1> QED
  BY <1>1, <1>2, ControlInvariant, PTL DEF Spec, LedgerKept, Ledger!LedgerSpec
=============================================================================
