------------------------------- MODULE Pairing -------------------------------
(* Pairing with Starry control agents: codes and claims                     *)
(* (internal/servercontrolregistry, service/starryPairing.go).              *)
(*                                                                          *)
(* Every change of the registry is one transaction under a file lock that   *)
(* servers and command-line processes share, and one step here.  A claim is *)
(* three: binding the code, the certificate, the completion; ManagedTable   *)
(* is about what follows.  Claims race, fail, and are repeated, while codes *)
(* expire, are revoked and replaced.                                        *)
(*                                                                          *)
(* A code's secret is known to whoever claims it; a wrong one changes       *)
(* nothing.  Relay codes and statically configured instances are left out.  *)
EXTENDS Naturals

CONSTANTS
  Managed, Instance, Enrollment, None,
  MaxGeneration,              \* as in ManagedRegistry
  Key,                        \* an agent's key
  Proc,                       \* handlers, of any server or command
  CodeTTL, RecoveryTTL,
  MaxTime                     \* bound: the clock stops here

VARIABLES
  managed, generation,        \* as in ManagedRegistry
  enrollment,                 \* pairing_enrollments
  certificate,                \* the key in each enrollment's agent certificate
  op,                         \* what each handler is doing
  now,
  answered                    \* history: the claims that were answered

vars == <<managed, generation, enrollment, certificate, op, now, answered>>

registry == <<managed, generation, enrollment>>

\* The registry's promise to its readers, with this registry's rows.
claimed == {e \in Enrollment : enrollment[e] # None /\ enrollment[e].state = "claimed"}

Registry == INSTANCE ManagedRegistry
              WITH managed <- managed, claimed <- claimed, generation <- generation

ASSUME PairingAssumption ==
  /\ None \notin Instance \cup Key \cup Enrollment
  /\ MaxGeneration \in Nat \ {0}
  /\ CodeTTL \in Nat \ {0} /\ RecoveryTTL \in Nat \ {0}
  /\ MaxTime \in Nat

-----------------------------------------------------------------------------
Request == [key : Key, instance : Instance]

State == {"pending", "bound", "claimed", "revoked", "expired"}

Code == [action : {"pair", "adopt", "rotate"}, managed : Managed,
         target : Instance \cup {None}, state : State, expires : Nat,
         request : Request \cup {None}, recoveryUntil : Nat]

Op == [pc : {"idle", "bound", "certified", "completed"},
       enrollment : Enrollment \cup {None}, request : Request \cup {None}]

ASSUME NoneAssumption == None \notin Code \cup Request \cup Registry!Row

Idle == [pc |-> "idle", enrollment |-> None, request |-> None]

Init ==
  /\ managed = Registry!EmptyTable /\ generation = 1
  /\ enrollment = [e \in Enrollment |-> None]
  /\ certificate = [e \in Enrollment |-> None]
  /\ op = [p \in Proc |-> Idle]
  /\ now = 0
  /\ answered = {}

-----------------------------------------------------------------------------
(* Codes                                                                    *)

\* The initial claim, or the recovery of its answer, is over.
Closed(e) ==
  \/ enrollment[e].state = "pending" /\ enrollment[e].expires <= now
  \/ enrollment[e].state = "bound" /\ enrollment[e].recoveryUntil <= now

\* Mutant: only codes nobody has claimed yet reserve the name.
ReservesPending(e, m) ==
  /\ enrollment[e] # None /\ enrollment[e].managed = m
  /\ enrollment[e].state = "pending" /\ ~Closed(e)

\* The codes for m that still count once the closed ones have been expired.
Reserves(e, m) ==
  /\ enrollment[e] # None /\ enrollment[e].managed = m
  /\ enrollment[e].state \in {"pending", "bound"} /\ ~Closed(e)

\* Pairing and adopting need a free name, rotating its present instance.
MayCreate(action, m, target) ==
  /\ action = "pair" <=> target = None
  /\ \A e \in Enrollment : ~Reserves(e, m)
  /\ IF action = "rotate" THEN managed[m] # None /\ managed[m].instance = target
                          ELSE managed[m] = None

CreateEnrollment(e, action, m, target) ==
  /\ enrollment[e] = None
  /\ MayCreate(action, m, target)
  /\ Registry!Mutate
  /\ enrollment' = [f \in Enrollment |->
       IF f = e THEN
         [action |-> action, managed |-> m, target |-> target, state |-> "pending",
          expires |-> now + CodeTTL, request |-> None, recoveryUntil |-> 0]
       ELSE IF enrollment[f] # None /\ enrollment[f].managed = m /\ Closed(f)
         THEN [enrollment[f] EXCEPT !.state = "expired"]
       ELSE enrollment[f]]
  /\ UNCHANGED <<managed, certificate, op, now, answered>>

RevokeEnrollment(e) ==
  /\ enrollment[e] # None /\ enrollment[e].state \in {"pending", "bound"}
  /\ Registry!Mutate
  /\ enrollment' = [enrollment EXCEPT ![e].state = "revoked"]
  /\ UNCHANGED <<managed, certificate, op, now, answered>>

-----------------------------------------------------------------------------
(* Claims                                                                   *)

StartClaim(p, e, r) ==
  op' = [op EXCEPT ![p] = [Idle EXCEPT !.pc = "bound", !.enrollment = e, !.request = r]]

\* The first claim binds the code to its request.
BindClaim(p, e, r) ==
  /\ op[p].pc = "idle"
  /\ enrollment[e] # None /\ enrollment[e].state = "pending"
  /\ now < enrollment[e].expires
  /\ enrollment[e].target \in {None, r.instance}
  /\ Registry!Mutate
  /\ enrollment' = [enrollment EXCEPT ![e].state = "bound", ![e].request = r,
                                      ![e].recoveryUntil = now + RecoveryTTL]
  /\ StartClaim(p, e, r)
  /\ UNCHANGED <<managed, certificate, now, answered>>

\* Mutant: any claim by the bound key is let in again.
SameClaimKey(e, r) == enrollment[e].request.key = r.key

\* Mutant: any claim of the bound instance is let in again.
SameClaimInstance(e, r) == enrollment[e].request.instance = r.instance

SameClaim(e, r) == enrollment[e].request = r

\* Repeating it recovers a lost answer, for a while.
RepeatClaim(p, e, r) ==
  /\ op[p].pc = "idle"
  /\ enrollment[e] # None /\ enrollment[e].state \in {"bound", "claimed"}
  /\ enrollment[e].target \in {None, r.instance}
  /\ enrollment[e].recoveryUntil > now
  /\ SameClaim(e, r)
  /\ StartClaim(p, e, r)
  /\ UNCHANGED <<registry, certificate, now, answered>>

\* IssueAgentCertificate: a stored certificate has to have the request's key.
IssueAgentCertificate(p) ==
  LET e == op[p].enrollment IN
  /\ op[p].pc = "bound"
  /\ certificate[e] \in {None, op[p].request.key}
  /\ certificate' = [certificate EXCEPT ![e] = op[p].request.key]
  /\ op' = [op EXCEPT ![p].pc = "certified"]
  /\ UNCHANGED <<registry, now, answered>>

\* Mutant: a code is completed whatever has become of it since it was bound.
MayCompleteAlways(e) == enrollment[e].state # "claimed"

MayComplete(e) == enrollment[e].state = "bound"

\* Mutant: the instance the code was made for is managed.
TargetInstance(e) == enrollment[e].target

ClaimedInstance(e) == enrollment[e].request.instance

\* CompleteControlClaim: the instance is managed, read-only, from now on.  The
\* instance's UUID is unique among the managed ones.
CompleteControlClaim(p) ==
  LET e == op[p].enrollment
      m == enrollment[e].managed
      i == ClaimedInstance(e)
  IN
  /\ op[p].pc = "certified"
  /\ MayComplete(e)
  /\ \A n \in Managed : n # m /\ managed[n] # None => managed[n].instance # i
  /\ Registry!Mutate
  /\ managed' = [managed EXCEPT ![m] =
                   [instance |-> i, identity |-> e, readOnly |-> TRUE]]
  /\ enrollment' = [enrollment EXCEPT ![e].state = "claimed"]
  /\ op' = [op EXCEPT ![p].pc = "completed"]
  /\ UNCHANGED <<certificate, now, answered>>

\* The same identity is still the managed one.
RecoverControlClaim(p) ==
  LET e == op[p].enrollment
      m == enrollment[e].managed
  IN
  /\ op[p].pc = "certified"
  /\ enrollment[e].state = "claimed"
  /\ managed[m] # None /\ managed[m].identity = e
  /\ op' = [op EXCEPT ![p].pc = "completed"]
  /\ UNCHANGED <<registry, certificate, now, answered>>

\* The rest of the handler is in ManagedTable.
AnswerClaim(p) ==
  /\ op[p].pc = "completed"
  /\ answered' = answered \cup {<<op[p].enrollment, op[p].request>>}
  /\ op' = [op EXCEPT ![p] = Idle]
  /\ UNCHANGED <<registry, certificate, now>>

\* An error, a crash or a restart: the handler ends without an answer.
Fail(p) ==
  /\ op[p].pc # "idle"
  /\ op' = [op EXCEPT ![p] = Idle]
  /\ UNCHANGED <<registry, certificate, now, answered>>

-----------------------------------------------------------------------------
SetManagedReadOnly(m, readOnly) ==
  /\ managed[m] # None
  /\ Registry!Mutate
  /\ managed' = [managed EXCEPT ![m].readOnly = readOnly]
  /\ UNCHANGED <<enrollment, certificate, op, now, answered>>

Tick ==
  /\ now < MaxTime
  /\ now' = now + 1
  /\ UNCHANGED <<registry, certificate, op, answered>>

ClaimStep(p) ==
  \/ \E e \in Enrollment, r \in Request : BindClaim(p, e, r) \/ RepeatClaim(p, e, r)
  \/ IssueAgentCertificate(p)
  \/ CompleteControlClaim(p) \/ RecoverControlClaim(p)
  \/ AnswerClaim(p)

CodeStep(e) ==
  \/ \E action \in {"pair", "adopt", "rotate"}, m \in Managed,
        target \in Instance \cup {None} : CreateEnrollment(e, action, m, target)
  \/ RevokeEnrollment(e)

Next ==
  \/ \E p \in Proc : ClaimStep(p) \/ Fail(p)
  \/ \E e \in Enrollment : CodeStep(e)
  \/ \E m \in Managed, readOnly \in BOOLEAN : SetManagedReadOnly(m, readOnly)
  \/ Tick

Spec == Init /\ [][Next]_vars

-----------------------------------------------------------------------------
TypeOK ==
  /\ managed \in Registry!Table
  /\ generation \in 1..MaxGeneration
  /\ enrollment \in [Enrollment -> Code \cup {None}]
  /\ certificate \in [Enrollment -> Key \cup {None}]
  /\ op \in [Proc -> Op]
  /\ now \in 0..MaxTime
  /\ answered \subseteq Enrollment \X Request

\* "A new pair learns and then locks the Agent instance UUID" and "First pairing
\* and every rotation are read-only" (docs/wiki/Starry-Control.md:124-126),
\* whatever codes for the name were created, expired, replaced or revoked while
\* claims were running: every step is one the registry promises.
RegistryKept == Registry!RegistrySpec

\* "bind ... one-time secret digest, CSR public key, and instance identity.
\* Repeating the exact claim ... recovers a response"
\* (docs/wiki/Starry-Control.md:114-118): a code answers one request only,
\* however its claims race, fail and are repeated.
OneClaimant ==
  \A x \in answered, y \in answered : x[1] = y[1] => x[2] = y[2]

\* What is managed was claimed with a code for its name, by the instance and
\* the key that code is bound to, and that identity's certificate is for that
\* key, whoever else tried the code.
ManagedWasClaimed ==
  \A m \in Managed : managed[m] # None =>
    LET e == managed[m].identity IN
      /\ e \in claimed
      /\ enrollment[e].managed = m
      /\ enrollment[e].request = [key |-> certificate[e],
                                  instance |-> managed[m].instance]

\* A code that is claimed, revoked or expired stays as it is: a claim that was
\* under way when its code was revoked or replaced completes no more.
ClosedForGood ==
  [][\A e \in Enrollment :
       enrollment[e] # None /\ enrollment[e].state \in {"claimed", "revoked", "expired"}
         => enrollment'[e] = enrollment[e]]_vars

-----------------------------------------------------------------------------
(* The invariant the proofs rest on.                                        *)

Open(e) == enrollment[e] # None /\ enrollment[e].state \in {"pending", "bound"}

Bound(e) == enrollment[e] # None /\ enrollment[e].request # None

CodesBind ==
  \A e \in Enrollment : enrollment[e] # None =>
    LET c == enrollment[e] IN
      /\ c.action = "pair" <=> c.target = None
      /\ c.state = "pending" => c.request = None
      /\ c.state \in {"bound", "claimed"} => c.request # None
      /\ c.request # None => c.target \in {None, c.request.instance}

\* The open codes of a name fit what is managed under it, and exclude each other.
OpenCodesFit ==
  /\ \A e \in Enrollment, f \in Enrollment :
       Open(e) /\ Open(f) /\ enrollment[e].managed = enrollment[f].managed => e = f
  /\ \A e \in Enrollment : Open(e) =>
       LET c == enrollment[e]
           row == managed[c.managed]
       IN IF c.action = "rotate" THEN row # None /\ row.instance = c.target
                                 ELSE row = None

HandlersClaim ==
  \A p \in Proc : op[p].pc # "idle" =>
    LET e == op[p].enrollment IN
      /\ e \in Enrollment /\ Bound(e)
      /\ enrollment[e].request = op[p].request
      /\ op[p].pc # "bound" => certificate[e] = op[p].request.key

CertificatesFit ==
  \A e \in Enrollment : certificate[e] # None =>
    Bound(e) /\ certificate[e] = enrollment[e].request.key

AnswersFit ==
  \A x \in answered : Bound(x[1]) /\ enrollment[x[1]].request = x[2]

\* A name has one open code at a time, which fits the instance managed under
\* it, and handlers, certificates and answers are those of the bound request.
PairingInv ==
  /\ TypeOK
  /\ CodesBind
  /\ OpenCodesFit
  /\ HandlersClaim
  /\ CertificatesFit
  /\ AnswersFit
  /\ ManagedWasClaimed
=============================================================================
