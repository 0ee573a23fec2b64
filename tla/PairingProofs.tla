---------------------------- MODULE PairingProofs ----------------------------
(* Proofs about Pairing, for any number of names, agents, codes and         *)
(* handlers, that it implements ManagedRegistry, and about the codes of     *)
(* relays beside it (Enrollments, RelayEnrollment).                         *)
EXTENDS Enrollments, TLAPS

USE PairingAssumption, NoneAssumption

-----------------------------------------------------------------------------
(* What a change of the codes keeps.                                        *)

\* A bound code keeps its request, so handlers, certificates and answers that
\* are not touched still fit.
LEMMA RequestsKept ==
  ASSUME PairingInv,
         \A e \in Enrollment : Bound(e) =>
           Bound(e)' /\ enrollment'[e].request = enrollment[e].request
  PROVE  /\ op' = op /\ certificate' = certificate => HandlersClaim'
         /\ certificate' = certificate => CertificatesFit'
         /\ answered' = answered => AnswersFit'
<1>1. ASSUME op' = op, certificate' = certificate
      PROVE  HandlersClaim'
  BY <1>1 DEF PairingInv, HandlersClaim
<1>2. ASSUME certificate' = certificate
      PROVE  CertificatesFit'
  BY <1>2 DEF PairingInv, CertificatesFit
<1>3. ASSUME answered' = answered
      PROVE  AnswersFit'
  <2>1. \A x \in answered : x[1] \in Enrollment
    BY DEF PairingInv, TypeOK
  <2> QED
    BY <1>3, <2>1 DEF PairingInv, AnswersFit
<1> QED
  BY <1>1, <1>2, <1>3

\* Codes only close, or are bound, and what is managed stays.
LEMMA OpenCodesKept ==
  ASSUME PairingInv, managed' = managed,
         \A e \in Enrollment : Open(e)' =>
           /\ Open(e)
           /\ enrollment'[e].managed = enrollment[e].managed
           /\ enrollment'[e].action = enrollment[e].action
           /\ enrollment'[e].target = enrollment[e].target
  PROVE  OpenCodesFit'
  BY DEF PairingInv, OpenCodesFit

\* Claimed codes and the identities managed with them stay.
LEMMA ManagedKept ==
  ASSUME PairingInv, certificate' = certificate,
         \A m \in Managed : managed'[m] # None =>
           /\ managed[m] # None
           /\ managed'[m].identity = managed[m].identity
           /\ managed'[m].instance = managed[m].instance,
         \A e \in claimed : enrollment'[e] = enrollment[e]
  PROVE  ManagedWasClaimed'
  BY DEF PairingInv, ManagedWasClaimed, claimed

LEMMA InitInv == Init => PairingInv
<1> SUFFICES ASSUME Init PROVE PairingInv
  OBVIOUS
<1>1. TypeOK
  BY DEF Init, TypeOK, Registry!EmptyTable, Registry!Table, Idle, Op
<1>2. CodesBind /\ OpenCodesFit /\ HandlersClaim /\ CertificatesFit /\ AnswersFit
  BY DEF Init, CodesBind, OpenCodesFit, Open, HandlersClaim, CertificatesFit, AnswersFit, Idle
<1>3. ManagedWasClaimed
  BY DEF Init, ManagedWasClaimed, Registry!EmptyTable
<1> QED
  BY <1>1, <1>2, <1>3 DEF PairingInv

LEMMA MutateType ==
  ASSUME PairingInv, Registry!Mutate
  PROVE  generation' \in 1..MaxGeneration /\ generation' = generation + 1
  BY DEF PairingInv, TypeOK, Registry!Mutate

-----------------------------------------------------------------------------
(* Codes                                                                    *)

LEMMA RevokeInv ==
  ASSUME PairingInv, NEW e \in Enrollment, RevokeEnrollment(e)
  PROVE  PairingInv'
<1> USE DEF RevokeEnrollment
<1>1. /\ enrollment \in [Enrollment -> Code \cup {None}] /\ enrollment[e] \in Code
      /\ enrollment[e].state \in {"pending", "bound"}
  BY DEF PairingInv, TypeOK
<1>2. PICK c \in Code : c = [enrollment[e] EXCEPT !.state = "revoked"]
  BY <1>1 DEF Code, State
<1>3. /\ c # None /\ c.state = "revoked" /\ c.managed = enrollment[e].managed
      /\ c.action = enrollment[e].action /\ c.target = enrollment[e].target
      /\ c.request = enrollment[e].request
  BY <1>1, <1>2 DEF Code
<1>4. /\ enrollment' = [enrollment EXCEPT ![e] = c]
      /\ enrollment' \in [Enrollment -> Code \cup {None}]
  BY <1>1, <1>2
<1>5. TypeOK'
  BY <1>4, MutateType DEF PairingInv, TypeOK
<1>6. CodesBind'
  BY <1>1, <1>3, <1>4 DEF PairingInv, CodesBind
<1>7. OpenCodesFit'
  BY <1>1, <1>3, <1>4, OpenCodesKept DEF Open
<1>8. HandlersClaim' /\ CertificatesFit' /\ AnswersFit'
  BY <1>1, <1>3, <1>4, RequestsKept DEF Bound
<1>9. ManagedWasClaimed'
  BY <1>1, <1>4, ManagedKept DEF claimed
<1> QED
  BY <1>5, <1>6, <1>7, <1>8, <1>9 DEF PairingInv

\* The new code is the only open one of its name: the closed ones are expired,
\* and any other open one would have reserved it.
LEMMA CreateInv ==
  ASSUME PairingInv, NEW e \in Enrollment, NEW action \in {"pair", "adopt", "rotate"},
         NEW m \in Managed, NEW target \in Instance \cup {None},
         CreateEnrollment(e, action, m, target)
  PROVE  PairingInv'
<1> DEFINE Expires(f) == enrollment[f] # None /\ enrollment[f].managed = m /\ Closed(f)
<1>1. /\ enrollment \in [Enrollment -> Code \cup {None}] /\ enrollment[e] = None
      /\ now \in Nat /\ now + CodeTTL \in Nat
  BY DEF PairingInv, TypeOK, CreateEnrollment
<1>2. PICK c \in Code :
        c = [action |-> action, managed |-> m, target |-> target, state |-> "pending",
             expires |-> now + CodeTTL, request |-> None, recoveryUntil |-> 0]
  BY <1>1 DEF Code, State
<1>3. /\ c # None /\ c.state = "pending" /\ c.managed = m /\ c.action = action
      /\ c.target = target /\ c.request = None
  BY <1>2
<1>4. /\ enrollment' = [f \in Enrollment |->
           IF f = e THEN c
           ELSE IF Expires(f) THEN [enrollment[f] EXCEPT !.state = "expired"]
           ELSE enrollment[f]]
      /\ UNCHANGED <<managed, certificate, op, now, answered>> /\ Registry!Mutate
  BY <1>2 DEF CreateEnrollment
<1>5. enrollment'[e] = c
  BY <1>4
<1>6. ASSUME NEW f \in Enrollment, f # e, Expires(f)
      PROVE  /\ enrollment'[f] \in Code /\ enrollment'[f].state = "expired"
             /\ enrollment'[f].managed = enrollment[f].managed
             /\ enrollment'[f].action = enrollment[f].action
             /\ enrollment'[f].target = enrollment[f].target
             /\ enrollment'[f].request = enrollment[f].request
             /\ Open(f)
  <2>1. enrollment[f] \in Code /\ Open(f)
    BY <1>1, <1>6 DEF Closed, Open
  <2>2. enrollment'[f] = [enrollment[f] EXCEPT !.state = "expired"]
    BY <1>4, <1>6
  <2> QED
    BY <2>1, <2>2 DEF Code, State
<1>7. ASSUME NEW f \in Enrollment, f # e, ~Expires(f)
      PROVE  enrollment'[f] = enrollment[f]
  BY <1>4, <1>7
<1>8. enrollment' \in [Enrollment -> Code \cup {None}]
  <2>1. \A f \in Enrollment : enrollment'[f] \in Code \cup {None}
    BY <1>1, <1>5, <1>6, <1>7
  <2> QED
    BY <1>4, <2>1
<1> HIDE DEF Expires
<1>9. TypeOK'
  BY <1>4, <1>8, MutateType DEF PairingInv, TypeOK
<1>10. CodesBind'
  <2>1. action = "pair" <=> target = None
    BY DEF CreateEnrollment, MayCreate
  <2> SUFFICES ASSUME NEW f \in Enrollment, enrollment'[f] # None
               PROVE  LET d == enrollment'[f] IN
                        /\ d.action = "pair" <=> d.target = None
                        /\ d.state = "pending" => d.request = None
                        /\ d.state \in {"bound", "claimed"} => d.request # None
                        /\ d.request # None => d.target \in {None, d.request.instance}
    BY DEF CodesBind
  <2>2. CASE f = e
    BY <1>3, <1>5, <2>1, <2>2
  <2>3. CASE f # e /\ Expires(f)
    BY <1>6, <2>3 DEF PairingInv, CodesBind, Open
  <2>4. CASE f # e /\ ~Expires(f)
    BY <1>7, <2>4 DEF PairingInv, CodesBind
  <2> QED
    BY <2>2, <2>3, <2>4
<1>11. OpenCodesFit'
  <2>1. ASSUME NEW f \in Enrollment, f # e, Open(f)'
        PROVE  Open(f) /\ enrollment'[f] = enrollment[f] /\ enrollment[f].managed # m
    <3>1. ~Expires(f)
      BY <1>6, <2>1 DEF Open
    <3>2. enrollment'[f] = enrollment[f] /\ Open(f)
      BY <1>7, <2>1, <3>1 DEF Open
    <3>3. ~Reserves(f, m)
      BY DEF CreateEnrollment, MayCreate
    <3> QED
      BY <3>1, <3>2, <3>3 DEF Reserves, Open, Expires
  <2>2. ASSUME NEW f \in Enrollment, NEW g \in Enrollment, Open(f)', Open(g)',
               enrollment'[f].managed = enrollment'[g].managed
        PROVE  f = g
    BY <1>3, <1>5, <2>1, <2>2 DEF PairingInv, OpenCodesFit
  <2>3. ASSUME NEW f \in Enrollment, Open(f)'
        PROVE  LET d == enrollment'[f]
                   row == managed[d.managed]
               IN IF d.action = "rotate" THEN row # None /\ row.instance = d.target
                                         ELSE row = None
    <3>1. CASE f = e
      BY <1>3, <1>5, <3>1 DEF CreateEnrollment, MayCreate
    <3>2. CASE f # e
      BY <2>1, <2>3, <3>2 DEF PairingInv, OpenCodesFit
    <3> QED
      BY <3>1, <3>2
  <2> QED
    BY <1>4, <2>2, <2>3 DEF OpenCodesFit
<1>12. HandlersClaim' /\ CertificatesFit' /\ AnswersFit'
  <2>1. ASSUME NEW f \in Enrollment, Bound(f)
        PROVE  Bound(f)' /\ enrollment'[f].request = enrollment[f].request
    BY <1>1, <1>6, <1>7, <2>1 DEF Bound
  <2> QED
    BY <1>4, <2>1, RequestsKept
<1>13. ManagedWasClaimed'
  <2>1. \A f \in claimed : enrollment'[f] = enrollment[f]
    BY <1>1, <1>6, <1>7 DEF claimed, Open
  <2> QED
    BY <1>4, <2>1, ManagedKept
<1> QED
  BY <1>9, <1>10, <1>11, <1>12, <1>13 DEF PairingInv

-----------------------------------------------------------------------------
(* Claims                                                                   *)

\* A handler goes on with, or ends, the claim of a bound code.
LEMMA HandlerGoesOn ==
  ASSUME PairingInv, NEW p \in Proc, NEW x \in Op,
         op' = [op EXCEPT ![p] = x],
         \A e \in Enrollment : Bound(e) =>
           /\ Bound(e)' /\ enrollment'[e].request = enrollment[e].request
           /\ certificate'[e] \in {certificate[e], enrollment[e].request.key},
         x.pc # "idle" =>
           /\ x.enrollment \in Enrollment /\ Bound(x.enrollment)'
           /\ enrollment'[x.enrollment].request = x.request
           /\ x.pc # "bound" => certificate'[x.enrollment] = x.request.key
  PROVE  HandlersClaim' /\ op' \in [Proc -> Op]
<1>1. op \in [Proc -> Op] /\ op' \in [Proc -> Op]
  BY DEF PairingInv, TypeOK
<1>2. ASSUME NEW q \in Proc, NEW y \in Op, y = op'[q], y.pc # "idle"
      PROVE  /\ y.enrollment \in Enrollment /\ Bound(y.enrollment)'
             /\ enrollment'[y.enrollment].request = y.request
             /\ y.pc # "bound" => certificate'[y.enrollment] = y.request.key
  <2>1. CASE q = p
    <3>1. y = x
      BY <1>1, <1>2, <2>1
    <3> QED
      BY <1>2, <3>1
  <2>2. CASE q # p
    <3>1. y = op[q]
      BY <1>1, <1>2, <2>2
    <3>2. /\ y.enrollment \in Enrollment /\ Bound(y.enrollment)
          /\ enrollment[y.enrollment].request = y.request
          /\ y.pc # "bound" => certificate[y.enrollment] = y.request.key
      BY <1>2, <3>1 DEF PairingInv, HandlersClaim
    <3> QED
      BY <3>2
  <2> QED
    BY <2>1, <2>2
<1>3. \A q \in Proc : op'[q] \in Op
  BY <1>1
<1>4. HandlersClaim'
  BY <1>2, <1>3 DEF HandlersClaim, Bound
<1> QED
  BY <1>1, <1>4

LEMMA BindInv ==
  ASSUME PairingInv, NEW p \in Proc, NEW e \in Enrollment, NEW r \in Request,
         BindClaim(p, e, r)
  PROVE  PairingInv'
<1>1. /\ enrollment \in [Enrollment -> Code \cup {None}] /\ enrollment[e] \in Code
      /\ enrollment[e].state = "pending" /\ enrollment[e].request = None
      /\ now + RecoveryTTL \in Nat /\ r # None
  BY DEF PairingInv, TypeOK, CodesBind, BindClaim
<1>2. PICK c \in Code : c = [enrollment[e] EXCEPT !.state = "bound", !.request = r,
                              !.recoveryUntil = now + RecoveryTTL]
  BY <1>1 DEF Code, State
<1>3. /\ c # None /\ c.state = "bound" /\ c.managed = enrollment[e].managed
      /\ c.action = enrollment[e].action /\ c.target = enrollment[e].target
      /\ c.request = r
  BY <1>1, <1>2 DEF Code
<1>4. /\ enrollment' = [enrollment EXCEPT ![e] = c]
      /\ enrollment' \in [Enrollment -> Code \cup {None}]
      /\ UNCHANGED <<managed, certificate, now, answered>> /\ Registry!Mutate
  BY <1>1, <1>2 DEF BindClaim
<1>5. PICK x \in Op : x = [Idle EXCEPT !.pc = "bound", !.enrollment = e, !.request = r]
  BY DEF Idle, Op
<1>6. x.pc = "bound" /\ x.enrollment = e /\ x.request = r
  BY <1>5 DEF Idle
<1>7. op' = [op EXCEPT ![p] = x]
  BY <1>5 DEF BindClaim, StartClaim
<1>8. ASSUME NEW f \in Enrollment, Bound(f)
      PROVE  /\ Bound(f)' /\ enrollment'[f].request = enrollment[f].request
             /\ certificate'[f] \in {certificate[f], enrollment[f].request.key}
  BY <1>1, <1>4, <1>8 DEF Bound
<1>9. HandlersClaim' /\ op' \in [Proc -> Op]
  BY <1>1, <1>3, <1>4, <1>6, <1>7, <1>8, HandlerGoesOn DEF Bound
<1>10. TypeOK'
  BY <1>4, <1>9, MutateType DEF PairingInv, TypeOK
<1>11. CodesBind'
  BY <1>1, <1>3, <1>4 DEF PairingInv, CodesBind, BindClaim
<1>12. OpenCodesFit'
  BY <1>1, <1>3, <1>4, OpenCodesKept DEF Open
<1>13. CertificatesFit' /\ AnswersFit'
  BY <1>4, <1>8, RequestsKept
<1>14. ManagedWasClaimed'
  BY <1>1, <1>4, ManagedKept DEF claimed
<1> QED
  BY <1>9, <1>10, <1>11, <1>12, <1>13, <1>14 DEF PairingInv

\* Steps that change neither codes nor what is managed.
LEMMA QuietInv ==
  ASSUME PairingInv, NEW p \in Proc,
         \/ \E e \in Enrollment, r \in Request : RepeatClaim(p, e, r)
         \/ RecoverControlClaim(p)
         \/ AnswerClaim(p)
         \/ Fail(p)
  PROVE  PairingInv'
<1>1. /\ UNCHANGED <<enrollment, managed, generation, certificate, now>>
      /\ op \in [Proc -> Op] /\ op[p] \in Op /\ Idle \in Op /\ Idle.pc = "idle"
  BY DEF PairingInv, TypeOK, RepeatClaim, RecoverControlClaim, AnswerClaim, Fail,
         registry, Idle, Op
<1>2. ASSUME NEW f \in Enrollment, Bound(f)
      PROVE  /\ Bound(f)' /\ enrollment'[f].request = enrollment[f].request
             /\ certificate'[f] \in {certificate[f], enrollment[f].request.key}
  BY <1>1, <1>2 DEF Bound
<1>3. HandlersClaim' /\ op' \in [Proc -> Op]
  <2>1. ASSUME NEW e \in Enrollment, NEW r \in Request, RepeatClaim(p, e, r)
        PROVE  HandlersClaim' /\ op' \in [Proc -> Op]
    <3>1. PICK x \in Op : x = [Idle EXCEPT !.pc = "bound", !.enrollment = e, !.request = r]
      BY DEF Idle, Op
    <3>2. /\ x.pc = "bound" /\ x.enrollment = e /\ x.request = r
          /\ op' = [op EXCEPT ![p] = x]
      BY <2>1, <3>1 DEF RepeatClaim, StartClaim, Idle
    <3>3. Bound(e) /\ enrollment[e].request = r
      BY <2>1 DEF RepeatClaim, SameClaim, Bound
    <3> QED
      BY <1>1, <1>2, <3>2, <3>3, HandlerGoesOn DEF Bound
  <2>2. CASE RecoverControlClaim(p)
    <3>1. [op[p] EXCEPT !.pc = "completed"] \in Op
      BY <1>1 DEF Op
    <3>2. PICK x \in Op : x = [op[p] EXCEPT !.pc = "completed"]
      BY <3>1
    <3>3. /\ x.pc = "completed" /\ x.enrollment = op[p].enrollment
          /\ x.request = op[p].request /\ op[p].pc = "certified"
          /\ op' = [op EXCEPT ![p] = x]
      BY <1>1, <2>2, <3>2 DEF RecoverControlClaim, Op
    <3>4. /\ x.enrollment \in Enrollment /\ Bound(x.enrollment)
          /\ enrollment[x.enrollment].request = x.request
          /\ certificate[x.enrollment] = x.request.key
      BY <3>3 DEF PairingInv, HandlersClaim
    <3> QED
      BY <1>1, <1>2, <3>3, <3>4, HandlerGoesOn DEF Bound
  <2>3. CASE AnswerClaim(p) \/ Fail(p)
    <3>1. op' = [op EXCEPT ![p] = Idle]
      BY <2>3 DEF AnswerClaim, Fail
    <3> QED
      BY <1>1, <1>2, <3>1, HandlerGoesOn
  <2> QED
    BY <2>1, <2>2, <2>3
<1>4. AnswersFit' /\ answered' \subseteq Enrollment \X Request
  <2>1. CASE answered' = answered
    BY <1>1, <2>1 DEF PairingInv, TypeOK, AnswersFit, Bound
  <2>2. CASE AnswerClaim(p)
    <3>1. /\ op[p].enrollment \in Enrollment /\ Bound(op[p].enrollment)
          /\ enrollment[op[p].enrollment].request = op[p].request
      BY <2>2 DEF PairingInv, HandlersClaim, AnswerClaim
    <3>2. op[p].request \in Request
      BY <1>1, <3>1 DEF Op, Bound
    <3>3. answered' = answered \cup {<<op[p].enrollment, op[p].request>>}
      BY <2>2 DEF AnswerClaim
    <3> QED
      BY <1>1, <3>1, <3>2, <3>3 DEF PairingInv, TypeOK, AnswersFit, Bound
  <2> QED
    BY <2>1, <2>2 DEF RepeatClaim, RecoverControlClaim, Fail
<1>5. TypeOK'
  BY <1>1, <1>3, <1>4 DEF PairingInv, TypeOK
<1>6. CodesBind' /\ OpenCodesFit' /\ CertificatesFit' /\ ManagedWasClaimed'
  BY <1>1 DEF PairingInv, CodesBind, OpenCodesFit, Open, CertificatesFit, Bound,
              ManagedWasClaimed, claimed
<1> QED
  BY <1>3, <1>4, <1>5, <1>6 DEF PairingInv

LEMMA IssueInv ==
  ASSUME PairingInv, NEW p \in Proc, IssueAgentCertificate(p)
  PROVE  PairingInv'
<1>1. /\ op \in [Proc -> Op] /\ op[p] \in Op /\ op[p].pc = "bound"
      /\ op[p].enrollment \in Enrollment /\ Bound(op[p].enrollment)
      /\ enrollment[op[p].enrollment].request = op[p].request
      /\ certificate \in [Enrollment -> Key \cup {None}]
  BY DEF PairingInv, TypeOK, HandlersClaim, IssueAgentCertificate
<1>2. PICK e \in Enrollment : e = op[p].enrollment
  BY <1>1
<1>3. /\ op[p].request \in Request /\ op[p].request.key \in Key
      /\ enrollment[e].request = op[p].request /\ Bound(e)
  BY <1>1, <1>2 DEF Op, Bound, Request
<1>4. [op[p] EXCEPT !.pc = "certified"] \in Op
  BY <1>1 DEF Op
<1>5. PICK x \in Op : x = [op[p] EXCEPT !.pc = "certified"]
  BY <1>4
<1>6. x.pc = "certified" /\ x.enrollment = e /\ x.request = op[p].request
  BY <1>1, <1>2, <1>5 DEF Op
<1>7. /\ op' = [op EXCEPT ![p] = x]
      /\ certificate' = [certificate EXCEPT ![e] = enrollment[e].request.key]
      /\ UNCHANGED <<enrollment, managed, generation, now, answered>>
  BY <1>2, <1>3, <1>5 DEF IssueAgentCertificate, registry
<1>8. ASSUME NEW f \in Enrollment, Bound(f)
      PROVE  /\ Bound(f)' /\ enrollment'[f].request = enrollment[f].request
             /\ certificate'[f] \in {certificate[f], enrollment[f].request.key}
  BY <1>1, <1>7, <1>8 DEF Bound
<1>9. HandlersClaim' /\ op' \in [Proc -> Op]
  BY <1>1, <1>3, <1>6, <1>7, <1>8, HandlerGoesOn DEF Bound
<1>10. TypeOK'
  BY <1>1, <1>3, <1>7, <1>9 DEF PairingInv, TypeOK
<1>11. CodesBind' /\ OpenCodesFit'
  BY <1>7 DEF PairingInv, CodesBind, OpenCodesFit, Open
<1>12. CertificatesFit'
  BY <1>1, <1>3, <1>7 DEF PairingInv, CertificatesFit, Bound
<1>13. AnswersFit'
  BY <1>7, <1>8, RequestsKept
<1>14. ManagedWasClaimed'
  <2> SUFFICES ASSUME NEW m \in Managed, managed[m] # None
               PROVE  LET f == managed[m].identity IN
                        /\ f \in claimed /\ enrollment[f].managed = m
                        /\ enrollment[f].request = [key |-> certificate'[f],
                                                    instance |-> managed[m].instance]
    BY <1>7 DEF ManagedWasClaimed, claimed
  <2>1. PICK f \in Enrollment : f = managed[m].identity
    BY DEF PairingInv, ManagedWasClaimed, claimed
  <2>2. /\ f \in claimed /\ enrollment[f].managed = m
        /\ enrollment[f].request = [key |-> certificate[f], instance |-> managed[m].instance]
    BY <2>1 DEF PairingInv, ManagedWasClaimed
  <2>3. certificate'[f] = certificate[f]
    BY <1>1, <1>7, <2>2
  <2> QED
    BY <2>1, <2>2, <2>3
<1> QED
  BY <1>9, <1>10, <1>11, <1>12, <1>13, <1>14 DEF PairingInv

\* Completing a claim makes the one open code of its name the managed identity.
LEMMA CompleteInv ==
  ASSUME PairingInv, NEW p \in Proc, CompleteControlClaim(p)
  PROVE  /\ PairingInv'
         /\ \E e \in Enrollment, m \in Managed, i \in Instance :
              Registry!Manage(m, i, e)
<1>1. /\ op \in [Proc -> Op] /\ op[p] \in Op /\ op[p].pc = "certified"
      /\ op[p].enrollment \in Enrollment
      /\ enrollment \in [Enrollment -> Code \cup {None}] /\ managed \in Registry!Table
  BY DEF PairingInv, TypeOK, HandlersClaim, CompleteControlClaim
<1>2. PICK e \in Enrollment : e = op[p].enrollment
  BY <1>1
<1>3. /\ Bound(e) /\ enrollment[e].request = op[p].request
      /\ certificate[e] = enrollment[e].request.key
      /\ enrollment[e].state = "bound" /\ Open(e)
  BY <1>1, <1>2
  DEF PairingInv, HandlersClaim, CompleteControlClaim, MayComplete, Bound, Open
<1>4. enrollment[e] \in Code /\ enrollment[e].request \in Request
  BY <1>1, <1>3 DEF Bound, Code
<1>5. PICK m \in Managed : m = enrollment[e].managed
  BY <1>4 DEF Code
<1>6. PICK i \in Instance : i = enrollment[e].request.instance
  BY <1>4 DEF Request
<1>7. PICK row \in Registry!Row : row = [instance |-> i, identity |-> e, readOnly |-> TRUE]
  BY DEF Registry!Row
<1>8. row # None /\ row.instance = i /\ row.identity = e
  BY <1>7
<1>9. PICK c \in Code : c = [enrollment[e] EXCEPT !.state = "claimed"]
  BY <1>4 DEF Code, State
<1>10. /\ c # None /\ c.state = "claimed" /\ c.managed = m
       /\ c.action = enrollment[e].action /\ c.target = enrollment[e].target
       /\ c.request = enrollment[e].request
  BY <1>4, <1>5, <1>9 DEF Code
<1>11. [op[p] EXCEPT !.pc = "completed"] \in Op
  BY <1>1 DEF Op
<1>12. PICK x \in Op : x = [op[p] EXCEPT !.pc = "completed"]
  BY <1>11
<1>13. x.pc = "completed" /\ x.enrollment = e /\ x.request = enrollment[e].request
  BY <1>1, <1>2, <1>3, <1>12 DEF Op
<1>14. /\ op' = [op EXCEPT ![p] = x]
       /\ enrollment' = [enrollment EXCEPT ![e] = c]
       /\ managed' = [managed EXCEPT ![m] = row]
       /\ UNCHANGED <<certificate, now, answered>> /\ Registry!Mutate
       /\ \A n \in Managed : n # m /\ managed[n] # None => managed[n].instance # i
  BY <1>2, <1>5, <1>6, <1>7, <1>9, <1>12 DEF CompleteControlClaim, ClaimedInstance
<1>15. ASSUME NEW f \in Enrollment, Bound(f)
       PROVE  /\ Bound(f)' /\ enrollment'[f].request = enrollment[f].request
              /\ certificate'[f] \in {certificate[f], enrollment[f].request.key}
  BY <1>1, <1>10, <1>14, <1>15 DEF Bound
<1>16. HandlersClaim' /\ op' \in [Proc -> Op]
  BY <1>1, <1>3, <1>4, <1>10, <1>13, <1>14, <1>15, HandlerGoesOn
<1>17. enrollment' \in [Enrollment -> Code \cup {None}] /\ managed' \in Registry!Table
  BY <1>1, <1>14 DEF Registry!Table
<1>18. TypeOK'
  BY <1>14, <1>16, <1>17, MutateType DEF PairingInv, TypeOK
<1>19. CodesBind'
  BY <1>1, <1>3, <1>10, <1>14 DEF PairingInv, CodesBind, Bound
<1>20. OpenCodesFit'
  <2>1. ASSUME NEW f \in Enrollment, Open(f)'
        PROVE  /\ f # e /\ Open(f) /\ enrollment'[f] = enrollment[f]
               /\ enrollment[f].managed \in Managed /\ enrollment[f].managed # m
               /\ managed'[enrollment[f].managed] = managed[enrollment[f].managed]
    <3>1. f # e
      BY <1>1, <1>10, <1>14, <2>1 DEF Open
    <3>2. enrollment'[f] = enrollment[f] /\ Open(f)
      BY <1>1, <1>14, <2>1, <3>1 DEF Open
    <3>3. enrollment[f].managed \in Managed
      BY <1>1, <3>2 DEF Open, Code
    <3>4. enrollment[f].managed # m
      BY <1>3, <1>5, <3>1, <3>2 DEF PairingInv, OpenCodesFit
    <3> QED
      BY <1>1, <1>14, <3>1, <3>2, <3>3, <3>4 DEF Registry!Table
  <2> QED
    BY <2>1 DEF PairingInv, OpenCodesFit
<1>21. CertificatesFit' /\ AnswersFit'
  BY <1>14, <1>15, RequestsKept
<1>22. ManagedWasClaimed'
  <2> SUFFICES ASSUME NEW n \in Managed, managed'[n] # None
               PROVE  LET f == managed'[n].identity IN
                        /\ f \in Enrollment /\ enrollment'[f] # None
                        /\ enrollment'[f].state = "claimed"
                        /\ enrollment'[f].managed = n
                        /\ enrollment'[f].request = [key |-> certificate[f],
                                                     instance |-> managed'[n].instance]
    BY <1>14 DEF ManagedWasClaimed, claimed
  <2>1. CASE n = m
    <3>1. managed'[n] = row /\ enrollment'[e] = c
      BY <1>1, <1>14, <2>1 DEF Registry!Table
    <3>2. enrollment[e].request = [key |-> certificate[e], instance |-> i]
      BY <1>3, <1>4, <1>6 DEF Request
    <3> QED
      BY <1>8, <1>10, <2>1, <3>1, <3>2
  <2>2. CASE n # m
    <3>1. managed'[n] = managed[n]
      BY <1>1, <1>14, <2>2 DEF Registry!Table
    <3>2. PICK f \in Enrollment : f = managed[n].identity
      BY <3>1 DEF PairingInv, ManagedWasClaimed, claimed
    <3>3. /\ enrollment[f] # None /\ enrollment[f].state = "claimed"
          /\ enrollment[f].managed = n
          /\ enrollment[f].request = [key |-> certificate[f],
                                      instance |-> managed[n].instance]
      BY <3>1, <3>2 DEF PairingInv, ManagedWasClaimed, claimed
    <3>4. enrollment'[f] = enrollment[f]
      BY <1>1, <1>3, <1>14, <3>3
    <3> QED
      BY <3>1, <3>2, <3>3, <3>4
  <2> QED
    BY <2>1, <2>2
<1>23. PairingInv'
  BY <1>16, <1>18, <1>19, <1>20, <1>21, <1>22 DEF PairingInv
<1>24. managed[m] # None => managed[m].instance = i
  <2>1. /\ enrollment[e].action = "pair" <=> enrollment[e].target = None
        /\ enrollment[e].target \in {None, i}
    BY <1>3, <1>6 DEF PairingInv, CodesBind, Bound
  <2>2. IF enrollment[e].action = "rotate"
        THEN managed[m] # None /\ managed[m].instance = enrollment[e].target
        ELSE managed[m] = None
    BY <1>3, <1>5 DEF PairingInv, OpenCodesFit
  <2> QED
    BY <2>1, <2>2
<1>25. e \notin claimed /\ claimed' = claimed \cup {e}
  BY <1>1, <1>3, <1>10, <1>14 DEF claimed
<1>26. Registry!Manage(m, i, e)
  BY <1>7, <1>14, <1>24, <1>25 DEF Registry!Manage
<1> QED
  BY <1>23, <1>26

LEMMA PolicyInv ==
  ASSUME PairingInv, NEW m \in Managed, NEW readOnly \in BOOLEAN,
         SetManagedReadOnly(m, readOnly)
  PROVE  PairingInv'
<1>1. /\ managed \in Registry!Table /\ managed[m] # None
      /\ managed' = [managed EXCEPT ![m].readOnly = readOnly] /\ Registry!Mutate
      /\ UNCHANGED <<enrollment, certificate, op, now, answered>>
  BY DEF PairingInv, TypeOK, SetManagedReadOnly
<1>2. PICK row \in Registry!Row : row = [managed[m] EXCEPT !.readOnly = readOnly]
  BY <1>1 DEF Registry!Table, Registry!Row
<1>3. /\ row # None /\ row.instance = managed[m].instance
      /\ row.identity = managed[m].identity
  BY <1>1, <1>2 DEF Registry!Table, Registry!Row
<1>4. managed' = [managed EXCEPT ![m] = row] /\ managed' \in Registry!Table
  BY <1>1, <1>2 DEF Registry!Table
<1>5. \A n \in Managed :
        /\ managed'[n] = None <=> managed[n] = None
        /\ managed'[n] # None =>
             /\ managed[n] # None
             /\ managed'[n].identity = managed[n].identity
             /\ managed'[n].instance = managed[n].instance
  BY <1>1, <1>3, <1>4 DEF Registry!Table
<1>6. TypeOK'
  BY <1>1, <1>4, MutateType DEF PairingInv, TypeOK
<1>7. CodesBind' /\ HandlersClaim' /\ CertificatesFit' /\ AnswersFit'
  BY <1>1 DEF PairingInv, CodesBind, HandlersClaim, CertificatesFit, AnswersFit, Bound
<1>8. OpenCodesFit'
  <2>1. \A e \in Enrollment : Open(e) => enrollment[e].managed \in Managed
    BY DEF PairingInv, TypeOK, Open, Code
  <2> QED
    BY <1>1, <1>5, <2>1 DEF PairingInv, OpenCodesFit, Open
<1>9. ManagedWasClaimed'
  BY <1>1, <1>5, ManagedKept DEF claimed
<1> QED
  BY <1>6, <1>7, <1>8, <1>9 DEF PairingInv

LEMMA NextInv ==
  ASSUME PairingInv, [Next]_vars
  PROVE  PairingInv'
<1>1. ASSUME NEW p \in Proc, ClaimStep(p) \/ Fail(p)
      PROVE  PairingInv'
  BY <1>1, BindInv, QuietInv, IssueInv, CompleteInv DEF ClaimStep
<1>2. ASSUME NEW e \in Enrollment, CodeStep(e)
      PROVE  PairingInv'
  BY <1>2, CreateInv, RevokeInv DEF CodeStep
<1>3. CASE Tick
  <2>1. now' \in 0..MaxTime
    BY <1>3 DEF Tick, PairingInv, TypeOK
  <2> QED
    BY <1>3, <2>1 DEF Tick, registry, PairingInv, TypeOK, CodesBind, OpenCodesFit, Open,
      HandlersClaim, CertificatesFit, AnswersFit, Bound, ManagedWasClaimed, claimed
<1>4. CASE UNCHANGED vars
  BY <1>4 DEF vars, PairingInv, TypeOK, CodesBind, OpenCodesFit, Open,
    HandlersClaim, CertificatesFit, AnswersFit, Bound, ManagedWasClaimed, claimed
<1> QED
  BY <1>1, <1>2, <1>3, <1>4, PolicyInv DEF Next

-----------------------------------------------------------------------------
(* Theorems                                                                 *)

\* PairingInv holds of every behaviour of codes and claims.
THEOREM PairingInvariant == Spec => []PairingInv
  BY InitInv, NextInv, PTL DEF Spec

\* A code answers one request only (BeginClaim and ClaimPairing).
THEOREM OneClaimantOnly == Spec => []OneClaimant
<1>1. PairingInv => OneClaimant
  BY DEF PairingInv, AnswersFit, OneClaimant
<1> QED
  BY <1>1, PairingInvariant, PTL

\* What is managed was claimed, with the bound request, and its certificate is
\* for the bound key (CompleteControlClaim and IssueAgentCertificate).
THEOREM ManagedWasAlwaysClaimed == Spec => []ManagedWasClaimed
<1>1. PairingInv => ManagedWasClaimed
  BY DEF PairingInv
<1> QED
  BY <1>1, PairingInvariant, PTL

\* Closed codes stay closed, for every step.
LEMMA StepsCloseForGood ==
  ASSUME PairingInv, [Next]_vars
  PROVE  \A e \in Enrollment :
           enrollment[e] # None /\ enrollment[e].state \in {"claimed", "revoked", "expired"}
             => enrollment'[e] = enrollment[e]
<1> SUFFICES ASSUME NEW e \in Enrollment, enrollment[e] # None,
                    enrollment[e].state \in {"claimed", "revoked", "expired"}
             PROVE  enrollment'[e] = enrollment[e]
  OBVIOUS
<1>1. enrollment \in [Enrollment -> Code \cup {None}]
  BY DEF PairingInv, TypeOK
<1>2. ASSUME NEW p \in Proc, ClaimStep(p) \/ Fail(p)
      PROVE  enrollment'[e] = enrollment[e]
  <2>1. CASE CompleteControlClaim(p)
    BY <1>1, <2>1 DEF CompleteControlClaim, MayComplete, PairingInv, HandlersClaim
  <2>2. CASE \E f \in Enrollment, r \in Request : BindClaim(p, f, r)
    BY <1>1, <2>2 DEF BindClaim
  <2>3. CASE UNCHANGED enrollment
    BY <2>3
  <2> QED
    BY <1>2, <2>1, <2>2, <2>3 DEF ClaimStep, RepeatClaim, IssueAgentCertificate,
      RecoverControlClaim, AnswerClaim, Fail, registry
<1>3. ASSUME NEW f \in Enrollment, RevokeEnrollment(f)
      PROVE  enrollment'[e] = enrollment[e]
  BY <1>1, <1>3 DEF RevokeEnrollment
<1>4. ASSUME NEW f \in Enrollment, NEW action \in {"pair", "adopt", "rotate"},
             NEW m \in Managed, NEW target \in Instance \cup {None},
             CreateEnrollment(f, action, m, target)
      PROVE  enrollment'[e] = enrollment[e]
  <2>1. e # f /\ ~Closed(e)
    BY <1>4 DEF CreateEnrollment, Closed
  <2> QED
    BY <1>4, <2>1 DEF CreateEnrollment
<1>5. CASE Tick \/ UNCHANGED vars \/ \E m \in Managed, readOnly \in BOOLEAN : SetManagedReadOnly(m, readOnly)
  BY <1>5 DEF Tick, registry, vars, SetManagedReadOnly
<1> QED
  BY <1>2, <1>3, <1>4, <1>5 DEF Next, CodeStep

\* A claim under way completes no more once its code is revoked or replaced.
THEOREM CodesCloseForGood == Spec => ClosedForGood
<1>1. PairingInv /\ [Next]_vars =>
        [\A e \in Enrollment :
           enrollment[e] # None /\ enrollment[e].state \in {"claimed", "revoked", "expired"}
             => enrollment'[e] = enrollment[e]]_vars
  BY StepsCloseForGood
<1> QED
  BY <1>1, PairingInvariant, PTL DEF Spec, ClosedForGood

\* Every step is one the registry promises its readers, or changes nothing of it.
LEMMA StepsKeepRegistry ==
  ASSUME PairingInv, [Next]_vars
  PROVE  [Registry!RegistryNext]_(Registry!registry)
<1>1. /\ enrollment \in [Enrollment -> Code \cup {None}]
      /\ \A e \in Enrollment : enrollment[e] # None /\ enrollment[e].state = "pending"
           => enrollment[e].request = None
  BY DEF PairingInv, TypeOK, CodesBind
<1>2. ASSUME UNCHANGED registry
      PROVE  UNCHANGED Registry!registry
  BY <1>2 DEF registry, claimed, Registry!registry
<1>3. ASSUME Registry!Mutate, managed' = managed, claimed' = claimed
      PROVE  Registry!RegistryNext
  BY <1>3 DEF Registry!ChangeCode, Registry!RegistryNext
<1>4. ASSUME NEW p \in Proc, ClaimStep(p) \/ Fail(p)
      PROVE  [Registry!RegistryNext]_(Registry!registry)
  <2>1. CASE CompleteControlClaim(p)
    BY <2>1, CompleteInv DEF Registry!RegistryNext
  <2>2. ASSUME NEW f \in Enrollment, NEW r \in Request, BindClaim(p, f, r)
        PROVE  [Registry!RegistryNext]_(Registry!registry)
    <3>1. \A g \in Enrollment : g # f => enrollment'[g] = enrollment[g]
      BY <1>1, <2>2 DEF BindClaim
    <3>2. PICK c \in Code : c = enrollment[f]
      BY <1>1, <2>2 DEF BindClaim
    <3>3. enrollment'[f].state = "bound"
      BY <1>1, <2>2, <3>2 DEF BindClaim, Code
    <3>4. claimed' = claimed
      BY <2>2, <3>1, <3>3 DEF claimed, BindClaim
    <3> QED
      BY <1>3, <2>2, <3>4 DEF BindClaim
  <2>3. CASE UNCHANGED registry
    BY <1>2, <2>3
  <2> QED
    BY <1>4, <2>1, <2>2, <2>3 DEF ClaimStep, RepeatClaim, IssueAgentCertificate,
      RecoverControlClaim, AnswerClaim, Fail
<1>5. ASSUME NEW f \in Enrollment, RevokeEnrollment(f)
      PROVE  [Registry!RegistryNext]_(Registry!registry)
  <2>1. \A g \in Enrollment : g # f => enrollment'[g] = enrollment[g]
    BY <1>1, <1>5 DEF RevokeEnrollment
  <2>2. PICK c \in Code : c = enrollment[f]
    BY <1>1, <1>5 DEF RevokeEnrollment
  <2>3. enrollment'[f].state = "revoked"
    BY <1>1, <1>5, <2>2 DEF RevokeEnrollment, Code
  <2>4. claimed' = claimed
    BY <1>5, <2>1, <2>3 DEF claimed, RevokeEnrollment
  <2> QED
    BY <1>3, <1>5, <2>4 DEF RevokeEnrollment
<1>6. ASSUME NEW f \in Enrollment, NEW action \in {"pair", "adopt", "rotate"},
             NEW m \in Managed, NEW target \in Instance \cup {None},
             CreateEnrollment(f, action, m, target)
      PROVE  [Registry!RegistryNext]_(Registry!registry)
  <2>1. enrollment'[f].state = "pending" /\ enrollment[f] = None
    BY <1>6 DEF CreateEnrollment
  <2>2. ASSUME NEW g \in Enrollment, g # f
        PROVE  g \in claimed <=> enrollment'[g] # None /\ enrollment'[g].state = "claimed"
    <3> DEFINE expires == enrollment[g] # None /\ enrollment[g].managed = m /\ Closed(g)
    <3>1. CASE ~expires
      <4>1. enrollment'[g] = enrollment[g]
        BY <1>6, <2>2, <3>1 DEF CreateEnrollment
      <4> QED
        BY <4>1 DEF claimed
    <3>2. CASE expires
      <4>1. PICK c \in Code : c = enrollment[g]
        BY <1>1, <3>2
      <4>2. enrollment'[g] = [c EXCEPT !.state = "expired"]
        BY <1>6, <2>2, <3>2, <4>1 DEF CreateEnrollment
      <4>3. enrollment'[g].state = "expired"
        BY <4>2 DEF Code
      <4>4. enrollment[g].state # "claimed"
        BY <3>2 DEF Closed
      <4> QED
        BY <4>3, <4>4 DEF claimed
    <3> QED
      BY <3>1, <3>2
  <2>3. claimed' = claimed
    BY <2>1, <2>2 DEF claimed
  <2> QED
    BY <1>3, <1>6, <2>3 DEF CreateEnrollment
<1>7. ASSUME NEW m \in Managed, NEW readOnly \in BOOLEAN, SetManagedReadOnly(m, readOnly)
      PROVE  [Registry!RegistryNext]_(Registry!registry)
  BY <1>7
  DEF SetManagedReadOnly, claimed, Registry!SetManagedReadOnly, Registry!RegistryNext
<1>8. CASE Tick \/ UNCHANGED vars
  BY <1>2, <1>8 DEF Tick, vars, registry
<1> QED
  BY <1>4, <1>5, <1>6, <1>7, <1>8 DEF Next, CodeStep

\* Pairing implements ManagedRegistry: a name keeps its instance, and every
\* pairing and rotation is read-only, whatever codes raced for the name.
THEOREM PairingImplementsRegistry == Spec => RegistryKept
<1>1. Init => Registry!RegistryInit
  BY DEF Init, Registry!RegistryInit, claimed
<1>2. PairingInv /\ [Next]_vars => [Registry!RegistryNext]_(Registry!registry)
  BY StepsKeepRegistry
<1> QED
  BY <1>1, <1>2, PairingInvariant, PTL DEF Spec, RegistryKept, Registry!RegistrySpec

-----------------------------------------------------------------------------
(* The codes of relays.  Every lemma says first what its step changes, then  *)
(* why each part of the invariant holds after it.                            *)

USE RelayAssumption, RelayNoneAssumption

LEMMA PrepareKeepsRelay ==
  ASSUME Relay!RelayInv, NEW h \in Creator, NEW e \in Enrollment, Relay!PrepareAtAgent(h, e)
  PROVE  Relay!RelayInv'
<1> USE DEF Relay!RelayInv
<1>1. /\ relay'[e] \in Relay!AgentEnrollment
      /\ relay' \in [Enrollment -> Relay!AgentEnrollment \cup {None}]
  BY DEF Relay!TypeOK, Relay!PrepareAtAgent, Relay!AgentFollows,
     Relay!AgentEnrollment, Relay!AgentState
<1>2. /\ relay'[e] # None
      /\ \A x \in Enrollment : x # e => relay'[x] = relay[x]
      /\ relay'[e].state = "pending_claim" /\ relay'[e].request = None
      /\ relay[e] # None => relay[e].request = None /\ relay[e].state = "pending_claim"
      /\ repeated' = IF relay[e] = None THEN repeated ELSE repeated \cup {e}
  BY <1>1 DEF Relay!TypeOK, Relay!PrepareAtAgent, Relay!AgentFollows
<1>3. /\ creator'[h] \in Relay!Create
      /\ creator' \in [Creator -> Relay!Create]
  BY <1>2 DEF Relay!TypeOK, Relay!PrepareAtAgent,
     Relay!Create
<1>4. /\ \A k \in Creator : k # h => creator'[k] = creator[k]
      /\ creator'[h].pc = "prepared" /\ creator'[h].e = e
      /\ creator[h].pc = "idle"
  BY <1>2, <1>3 DEF Relay!TypeOK, Relay!PrepareAtAgent
<1>5. UNCHANGED <<code, claimer, revoker, given, asked>>
  BY <1>2, <1>4 DEF Relay!PrepareAtAgent
<1>6. \A x \in given : x[1] \in Enrollment /\ x[2] \in RelayRequest
  BY DEF Relay!TypeOK
<1>7. Relay!TypeOK'
  BY <1>1, <1>2, <1>3, <1>4, <1>5 DEF Relay!TypeOK
<1>8. Relay!CodesFit'
  BY <1>2, <1>4, <1>5 DEF Relay!CodesFit
<1>9. Relay!AgentFollows'
  BY <1>2, <1>4, <1>5 DEF Relay!AgentFollows, Relay!CodesFit
<1>10. Relay!CreatorsFit'
  BY <1>2, <1>4, <1>5 DEF Relay!CreatorsFit
<1>11. Relay!ClaimsFit'
  BY <1>2, <1>4, <1>5 DEF Relay!ClaimsFit, Relay!CodesFit, Relay!AgentFollows
<1>12. Relay!RevocationsFit'
  BY <1>2, <1>4, <1>5 DEF Relay!RevocationsFit, Relay!CodesFit
<1>13. Relay!AnswersFit'
  BY <1>2, <1>4, <1>5 DEF Relay!AnswersFit, Relay!ClaimsFit, Relay!CodesFit
<1>14. Relay!RelayAgreement'
  BY <1>2, <1>4, <1>5, <1>6
  DEF Relay!RelayAgreement, Relay!AnswersFit, Relay!ClaimsFit, Relay!AgentFollows,
    Relay!CodesFit
<1>15. Relay!CreationsApart' /\ Relay!UndoneOnlyWhenRepeated'
  BY <1>2, <1>4, <1>5, <1>6 DEF Relay!CodesFit, Relay!CreatorsFit,
     Relay!RevocationsFit, Relay!CreationsApart, Relay!UndoneOnlyWhenRepeated
<1> QED
  BY <1>7, <1>8, <1>9, <1>10, <1>11, <1>12, <1>13, <1>14, <1>15

LEMMA CreateRowKeepsRelay ==
  ASSUME Relay!RelayInv, NEW h \in Creator, Relay!CreateEnrollment(h)
  PROVE  Relay!RelayInv'
<1> USE DEF Relay!RelayInv
<1>1. /\ creator[h].pc = "prepared" /\ creator[h].e \in Enrollment
      /\ relay[creator[h].e] # None /\ code[creator[h].e] = None
  BY DEF Relay!CreateEnrollment, Relay!InsertCode, Relay!CreatorsFit
<1>2. /\ code'[creator[h].e] \in Relay!Code
      /\ code' \in [Enrollment -> Relay!Code \cup {None}]
  BY <1>1 DEF Relay!TypeOK, Relay!CreateEnrollment, Relay!InsertCode,
     Relay!Code
<1>3. /\ code'[creator[h].e] # None
      /\ \A x \in Enrollment : x # creator[h].e => code'[x] = code[x]
      /\ code'[creator[h].e].state = "pending" /\ code'[creator[h].e].request = None
  BY <1>1, <1>2 DEF Relay!TypeOK, Relay!CreateEnrollment, Relay!InsertCode
<1>4. /\ creator'[h] \in Relay!Create
      /\ creator' \in [Creator -> Relay!Create]
  BY <1>1, <1>3 DEF Relay!TypeOK, Relay!CreateEnrollment, Relay!InsertCode,
     Relay!Create
<1>5. /\ \A k \in Creator : k # h => creator'[k] = creator[k]
      /\ creator'[h].pc = "done" /\ creator'[h].e = creator[h].e
  BY <1>1, <1>3, <1>4 DEF Relay!TypeOK, Relay!CreateEnrollment, Relay!InsertCode
<1>6. UNCHANGED <<relay, claimer, revoker, given, asked, repeated>>
  BY <1>1, <1>3, <1>5 DEF Relay!CreateEnrollment, Relay!InsertCode
<1>7. \A x \in given : x[1] \in Enrollment /\ x[2] \in RelayRequest
  BY DEF Relay!TypeOK
<1>8. Relay!TypeOK'
  BY <1>1, <1>2, <1>3, <1>4, <1>5, <1>6 DEF Relay!TypeOK
<1>9. Relay!CodesFit'
  BY <1>1, <1>3, <1>5, <1>6 DEF Relay!CodesFit
<1>10. Relay!AgentFollows'
  BY <1>1, <1>3, <1>5, <1>6 DEF Relay!AgentFollows, Relay!CodesFit
<1>11. Relay!CreatorsFit'
  BY <1>1, <1>3, <1>5, <1>6 DEF Relay!CreatorsFit
<1>12. Relay!ClaimsFit'
  BY <1>1, <1>3, <1>5, <1>6 DEF Relay!ClaimsFit, Relay!CodesFit, Relay!AgentFollows
<1>13. Relay!RevocationsFit'
  BY <1>1, <1>3, <1>5, <1>6 DEF Relay!RevocationsFit, Relay!CodesFit
<1>14. Relay!AnswersFit'
  BY <1>1, <1>3, <1>5, <1>6 DEF Relay!AnswersFit, Relay!ClaimsFit, Relay!CodesFit
<1>15. Relay!RelayAgreement'
  BY <1>1, <1>3, <1>5, <1>6, <1>7
  DEF Relay!RelayAgreement, Relay!AnswersFit, Relay!ClaimsFit, Relay!AgentFollows,
    Relay!CodesFit
<1>16. Relay!CreationsApart' /\ Relay!UndoneOnlyWhenRepeated'
  BY <1>1, <1>3, <1>5, <1>6, <1>7 DEF Relay!CodesFit, Relay!CreatorsFit,
     Relay!RevocationsFit, Relay!CreationsApart, Relay!UndoneOnlyWhenRepeated
<1> QED
  BY <1>8, <1>9, <1>10, <1>11, <1>12, <1>13, <1>14, <1>15, <1>16

LEMMA CompensateKeepsRelay ==
  ASSUME Relay!RelayInv, NEW h \in Creator, Relay!CompensateAtAgent(h)
  PROVE  Relay!RelayInv'
<1> USE DEF Relay!RelayInv
<1>1. creator[h].pc = "compensate" /\ creator[h].e \in Enrollment
  BY DEF Relay!CompensateAtAgent, Relay!CreatorsFit
<1>2. /\ relay[creator[h].e] \in Relay!AgentEnrollment
      /\ relay'[creator[h].e] \in Relay!AgentEnrollment
      /\ relay' \in [Enrollment -> Relay!AgentEnrollment \cup {None}]
  BY <1>1 DEF Relay!TypeOK, Relay!CompensateAtAgent, Relay!RevokeAtAgent, Relay!CreatorsFit,
     Relay!AgentEnrollment, Relay!AgentState
<1>3. /\ relay[creator[h].e] # None
      /\ relay'[creator[h].e] # None
      /\ \A x \in Enrollment : x # creator[h].e => relay'[x] = relay[x]
      /\ relay'[creator[h].e].state = "revoked"
      /\ relay'[creator[h].e].request = relay[creator[h].e].request
  BY <1>1, <1>2
  DEF Relay!TypeOK, Relay!CompensateAtAgent, Relay!RevokeAtAgent, Relay!CreatorsFit
<1>4. /\ creator'[h] \in Relay!Create
      /\ creator' \in [Creator -> Relay!Create]
  BY <1>1, <1>3 DEF Relay!TypeOK, Relay!CompensateAtAgent,
     Relay!Create
<1>5. /\ \A k \in Creator : k # h => creator'[k] = creator[k]
      /\ creator'[h].pc = "done" /\ creator'[h].e = creator[h].e
  BY <1>1, <1>3, <1>4 DEF Relay!TypeOK, Relay!CompensateAtAgent
<1>6. UNCHANGED <<code, claimer, revoker, given, asked, repeated>>
  BY <1>1, <1>3, <1>5 DEF Relay!CompensateAtAgent
<1>7. \A x \in given : x[1] \in Enrollment /\ x[2] \in RelayRequest
  BY DEF Relay!TypeOK
<1>8. Relay!TypeOK'
  BY <1>1, <1>2, <1>3, <1>4, <1>5, <1>6 DEF Relay!TypeOK
<1>9. Relay!CodesFit'
  BY <1>1, <1>3, <1>5, <1>6 DEF Relay!CodesFit
<1>10. Relay!AgentFollows'
  BY <1>1, <1>3, <1>5, <1>6 DEF Relay!AgentFollows, Relay!CodesFit
<1>11. Relay!CreatorsFit'
  BY <1>1, <1>3, <1>5, <1>6 DEF Relay!CreatorsFit
<1>12. Relay!ClaimsFit'
  BY <1>1, <1>3, <1>5, <1>6 DEF Relay!ClaimsFit, Relay!CodesFit, Relay!AgentFollows
<1>13. Relay!RevocationsFit'
  BY <1>1, <1>3, <1>5, <1>6 DEF Relay!RevocationsFit, Relay!CodesFit
<1>14. Relay!AnswersFit'
  BY <1>1, <1>3, <1>5, <1>6 DEF Relay!AnswersFit, Relay!ClaimsFit, Relay!CodesFit
<1>15. Relay!RelayAgreement'
  BY <1>1, <1>3, <1>5, <1>6, <1>7
  DEF Relay!RelayAgreement, Relay!AnswersFit, Relay!ClaimsFit, Relay!AgentFollows,
    Relay!CodesFit
<1>16. Relay!CreationsApart' /\ Relay!UndoneOnlyWhenRepeated'
  BY <1>1, <1>3, <1>5, <1>6, <1>7 DEF Relay!CodesFit, Relay!CreatorsFit,
     Relay!RevocationsFit, Relay!CreationsApart, Relay!UndoneOnlyWhenRepeated
<1> QED
  BY <1>8, <1>9, <1>10, <1>11, <1>12, <1>13, <1>14, <1>15, <1>16

LEMMA CreateEndsKeepsRelay ==
  ASSUME Relay!RelayInv, NEW h \in Creator, Relay!CreateFails(h) \/ Relay!CreatorStops(h)
  PROVE  Relay!RelayInv'
<1> USE DEF Relay!RelayInv
<1>1. creator[h].pc \in {"prepared", "compensate"}
  BY DEF Relay!CreateFails, Relay!CreatorStops
<1>2. /\ creator'[h] \in Relay!Create
      /\ creator' \in [Creator -> Relay!Create]
  BY <1>1 DEF Relay!TypeOK, Relay!CreateFails, Relay!CreatorStops,
     Relay!Create
<1>3. /\ \A k \in Creator : k # h => creator'[k] = creator[k]
      /\ creator'[h].pc \in {"compensate", "done"} /\ creator'[h].e = creator[h].e
  BY <1>1, <1>2 DEF Relay!TypeOK, Relay!Create, Relay!CreateFails, Relay!CreatorStops
<1>4. UNCHANGED <<relay, code, claimer, revoker, given, asked, repeated>>
  BY <1>1, <1>3 DEF Relay!CreateFails, Relay!CreatorStops
<1>5. \A x \in given : x[1] \in Enrollment /\ x[2] \in RelayRequest
  BY DEF Relay!TypeOK
<1>6. Relay!TypeOK'
  BY <1>1, <1>2, <1>3, <1>4 DEF Relay!TypeOK
<1>7. Relay!CodesFit'
  BY <1>1, <1>3, <1>4 DEF Relay!CodesFit
<1>8. Relay!AgentFollows'
  BY <1>1, <1>3, <1>4 DEF Relay!AgentFollows, Relay!CodesFit
<1>9. Relay!CreatorsFit'
  BY <1>1, <1>3, <1>4 DEF Relay!CreatorsFit
<1>10. Relay!ClaimsFit'
  BY <1>1, <1>3, <1>4 DEF Relay!ClaimsFit, Relay!CodesFit, Relay!AgentFollows
<1>11. Relay!RevocationsFit'
  BY <1>1, <1>3, <1>4 DEF Relay!RevocationsFit, Relay!CodesFit
<1>12. Relay!AnswersFit'
  BY <1>1, <1>3, <1>4 DEF Relay!AnswersFit, Relay!ClaimsFit, Relay!CodesFit
<1>13. Relay!RelayAgreement'
  BY <1>1, <1>3, <1>4, <1>5
  DEF Relay!RelayAgreement, Relay!AnswersFit, Relay!ClaimsFit, Relay!AgentFollows,
    Relay!CodesFit
<1>14. Relay!CreationsApart' /\ Relay!UndoneOnlyWhenRepeated'
  BY <1>1, <1>3, <1>4, <1>5 DEF Relay!CodesFit, Relay!CreatorsFit,
     Relay!RevocationsFit, Relay!CreationsApart, Relay!UndoneOnlyWhenRepeated
<1> QED
  BY <1>6, <1>7, <1>8, <1>9, <1>10, <1>11, <1>12, <1>13, <1>14

LEMMA BindKeepsRelay ==
  ASSUME Relay!RelayInv, NEW h \in Claimer, NEW e \in Enrollment, NEW r \in RelayRequest,
         Relay!BeginClaim(h, e, r)
  PROVE  Relay!RelayInv'
<1> USE DEF Relay!RelayInv
<1>1. /\ code[e] \in Relay!Code
      /\ code'[e] \in Relay!Code
      /\ code' \in [Enrollment -> Relay!Code \cup {None}]
  <2>1. code[e] \in Relay!Code
    BY DEF Relay!TypeOK, Relay!BeginClaim
  <2>2. CASE code' = code
    BY <2>1, <2>2 DEF Relay!TypeOK
  <2>3. CASE code' = [code EXCEPT ![e] = [state |-> "bound", request |-> r, open |-> TRUE]]
    BY <2>1, <2>3 DEF Relay!TypeOK, Relay!Code
  <2> QED
    BY <2>1, <2>2, <2>3 DEF Relay!BeginClaim, Relay!Recovers
<1>2. /\ code[e] # None
      /\ code'[e] # None
      /\ \A x \in Enrollment : x # e => code'[x] = code[x]
      /\ code'[e].state \in {"bound", "claimed"} /\ code'[e].request = r
      /\ \/ code[e].state = "pending" /\ code[e].request = None /\ code'[e].state = "bound"
         \/ code'[e] = code[e]
  BY <1>1 DEF Relay!TypeOK, Relay!BeginClaim, Relay!Recovers, Relay!CodesFit
<1>3. /\ claimer'[h] \in Relay!Claim
      /\ claimer' \in [Claimer -> Relay!Claim]
  BY <1>2 DEF Relay!TypeOK, Relay!BeginClaim,
     Relay!Claim
<1>4. /\ \A k \in Claimer : k # h => claimer'[k] = claimer[k]
      /\ claimer'[h].pc = "complete" /\ claimer'[h].e = e /\ claimer'[h].request = r
  BY <1>2, <1>3 DEF Relay!TypeOK, Relay!BeginClaim
<1>5. UNCHANGED <<relay, creator, revoker, given, asked, repeated>>
  BY <1>2, <1>4 DEF Relay!BeginClaim
<1>6. \A x \in given : x[1] \in Enrollment /\ x[2] \in RelayRequest
  BY DEF Relay!TypeOK
<1>7. Relay!TypeOK'
  BY <1>1, <1>2, <1>3, <1>4, <1>5 DEF Relay!TypeOK
<1>8. Relay!CodesFit'
  BY <1>2, <1>4, <1>5 DEF Relay!CodesFit
<1>9. Relay!AgentFollows'
  BY <1>2, <1>4, <1>5 DEF Relay!AgentFollows, Relay!CodesFit
<1>10. Relay!CreatorsFit'
  BY <1>2, <1>4, <1>5 DEF Relay!CreatorsFit
<1>11. Relay!ClaimsFit'
  BY <1>2, <1>4, <1>5 DEF Relay!ClaimsFit, Relay!CodesFit, Relay!AgentFollows
<1>12. Relay!RevocationsFit'
  BY <1>2, <1>4, <1>5 DEF Relay!RevocationsFit, Relay!CodesFit
<1>13. Relay!AnswersFit'
  BY <1>2, <1>4, <1>5 DEF Relay!AnswersFit, Relay!ClaimsFit, Relay!CodesFit
<1>14. Relay!RelayAgreement'
  BY <1>2, <1>4, <1>5, <1>6
  DEF Relay!RelayAgreement, Relay!AnswersFit, Relay!ClaimsFit, Relay!AgentFollows,
    Relay!CodesFit
<1>15. Relay!CreationsApart' /\ Relay!UndoneOnlyWhenRepeated'
  BY <1>2, <1>4, <1>5, <1>6 DEF Relay!CodesFit, Relay!CreatorsFit,
     Relay!RevocationsFit, Relay!CreationsApart, Relay!UndoneOnlyWhenRepeated
<1> QED
  BY <1>7, <1>8, <1>9, <1>10, <1>11, <1>12, <1>13, <1>14, <1>15

LEMMA CompleteKeepsRelay ==
  ASSUME Relay!RelayInv, NEW h \in Claimer, Relay!CompleteAtAgent(h)
  PROVE  Relay!RelayInv'
<1> USE DEF Relay!RelayInv
<1>1. /\ claimer[h].pc = "complete" /\ claimer[h].e \in Enrollment
      /\ claimer[h].request # None /\ claimer[h].request \in RelayRequest
      /\ code[claimer[h].e] # None /\ code[claimer[h].e].request = claimer[h].request
  BY DEF Relay!TypeOK, Relay!Claim, Relay!CompleteAtAgent, Relay!ClaimsFit
<1>2. /\ relay[claimer[h].e] \in Relay!AgentEnrollment
      /\ relay'[claimer[h].e] \in Relay!AgentEnrollment
      /\ relay' \in [Enrollment -> Relay!AgentEnrollment \cup {None}]
  BY <1>1 DEF Relay!TypeOK, Relay!CompleteAtAgent, Relay!CodesFit, Relay!AgentFollows,
     Relay!AgentEnrollment, Relay!AgentState
<1>3. /\ relay[claimer[h].e] # None
      /\ relay'[claimer[h].e] # None
      /\ \A x \in Enrollment : x # claimer[h].e => relay'[x] = relay[x]
      /\ relay'[claimer[h].e].request = claimer[h].request
      /\ \/ /\ relay[claimer[h].e].state = "pending_claim" /\ relay[claimer[h].e].request = None
            /\ relay'[claimer[h].e].state = "claimed"
         \/ relay'[claimer[h].e] = relay[claimer[h].e]
  BY <1>1, <1>2 DEF Relay!TypeOK, Relay!CompleteAtAgent, Relay!CodesFit, Relay!AgentFollows
<1>4. /\ claimer'[h] \in Relay!Claim
      /\ claimer' \in [Claimer -> Relay!Claim]
  BY <1>1, <1>3 DEF Relay!TypeOK, Relay!CompleteAtAgent,
     Relay!Claim
<1>5. /\ \A k \in Claimer : k # h => claimer'[k] = claimer[k]
      /\ claimer'[h].pc = "record"
      /\ claimer'[h].e = claimer[h].e /\ claimer'[h].request = claimer[h].request
  BY <1>1, <1>3, <1>4 DEF Relay!TypeOK, Relay!CompleteAtAgent
<1>6. UNCHANGED <<code, creator, revoker, given, asked, repeated>>
  BY <1>1, <1>3, <1>5 DEF Relay!CompleteAtAgent
<1>7. \A x \in given : x[1] \in Enrollment /\ x[2] \in RelayRequest
  BY DEF Relay!TypeOK
<1>8. Relay!TypeOK'
  BY <1>1, <1>2, <1>3, <1>4, <1>5, <1>6 DEF Relay!TypeOK
<1>9. Relay!CodesFit'
  BY <1>1, <1>3, <1>5, <1>6 DEF Relay!CodesFit
<1>10. Relay!AgentFollows'
  BY <1>1, <1>3, <1>5, <1>6 DEF Relay!AgentFollows, Relay!CodesFit
<1>11. Relay!CreatorsFit'
  BY <1>1, <1>3, <1>5, <1>6 DEF Relay!CreatorsFit
<1>12. Relay!ClaimsFit'
  BY <1>1, <1>3, <1>5, <1>6 DEF Relay!ClaimsFit, Relay!CodesFit, Relay!AgentFollows
<1>13. Relay!RevocationsFit'
  BY <1>1, <1>3, <1>5, <1>6 DEF Relay!RevocationsFit, Relay!CodesFit
<1>14. Relay!AnswersFit'
  BY <1>1, <1>3, <1>5, <1>6 DEF Relay!AnswersFit, Relay!ClaimsFit, Relay!CodesFit
<1>15. Relay!RelayAgreement'
  BY <1>1, <1>3, <1>5, <1>6, <1>7
  DEF Relay!RelayAgreement, Relay!AnswersFit, Relay!ClaimsFit, Relay!AgentFollows,
    Relay!CodesFit
<1>16. Relay!CreationsApart' /\ Relay!UndoneOnlyWhenRepeated'
  BY <1>1, <1>3, <1>5, <1>6, <1>7 DEF Relay!CodesFit, Relay!CreatorsFit,
     Relay!RevocationsFit, Relay!CreationsApart, Relay!UndoneOnlyWhenRepeated
<1> QED
  BY <1>8, <1>9, <1>10, <1>11, <1>12, <1>13, <1>14, <1>15, <1>16

LEMMA RecordKeepsRelay ==
  ASSUME Relay!RelayInv, NEW h \in Claimer, Relay!CompleteRelayClaim(h)
  PROVE  Relay!RelayInv'
<1> USE DEF Relay!RelayInv
<1>1. claimer[h].pc = "record" /\ claimer[h].e \in Enrollment
  BY DEF Relay!CompleteRelayClaim, Relay!ClaimsFit
<1>2. /\ code[claimer[h].e] \in Relay!Code
      /\ code'[claimer[h].e] \in Relay!Code
      /\ code' \in [Enrollment -> Relay!Code \cup {None}]
  BY <1>1 DEF Relay!TypeOK, Relay!CompleteRelayClaim, Relay!ClaimsFit,
     Relay!Code
<1>3. /\ code[claimer[h].e] # None
      /\ code'[claimer[h].e] # None
      /\ \A x \in Enrollment : x # claimer[h].e => code'[x] = code[x]
      /\ code[claimer[h].e].state \in {"bound", "claimed"}
      /\ code'[claimer[h].e].state = "claimed"
      /\ code'[claimer[h].e].request = code[claimer[h].e].request
  BY <1>1, <1>2 DEF Relay!TypeOK, Relay!CompleteRelayClaim, Relay!ClaimsFit
<1>4. /\ claimer'[h] \in Relay!Claim
      /\ claimer' \in [Claimer -> Relay!Claim]
  BY <1>1, <1>3 DEF Relay!TypeOK, Relay!CompleteRelayClaim,
     Relay!Claim
<1>5. /\ \A k \in Claimer : k # h => claimer'[k] = claimer[k]
      /\ claimer'[h].pc = "answer"
      /\ claimer'[h].e = claimer[h].e /\ claimer'[h].request = claimer[h].request
  BY <1>1, <1>3, <1>4 DEF Relay!TypeOK, Relay!CompleteRelayClaim
<1>6. UNCHANGED <<relay, creator, revoker, given, asked, repeated>>
  BY <1>1, <1>3, <1>5 DEF Relay!CompleteRelayClaim
<1>7. \A x \in given : x[1] \in Enrollment /\ x[2] \in RelayRequest
  BY DEF Relay!TypeOK
<1>8. Relay!TypeOK'
  BY <1>1, <1>2, <1>3, <1>4, <1>5, <1>6 DEF Relay!TypeOK
<1>9. Relay!CodesFit'
  BY <1>1, <1>3, <1>5, <1>6 DEF Relay!CodesFit
<1>10. Relay!AgentFollows'
  BY <1>1, <1>3, <1>5, <1>6 DEF Relay!AgentFollows, Relay!CodesFit
<1>11. Relay!CreatorsFit'
  BY <1>1, <1>3, <1>5, <1>6 DEF Relay!CreatorsFit
<1>12. Relay!ClaimsFit'
  BY <1>1, <1>3, <1>5, <1>6 DEF Relay!ClaimsFit, Relay!CodesFit, Relay!AgentFollows
<1>13. Relay!RevocationsFit'
  BY <1>1, <1>3, <1>5, <1>6 DEF Relay!RevocationsFit, Relay!CodesFit
<1>14. Relay!AnswersFit'
  BY <1>1, <1>3, <1>5, <1>6 DEF Relay!AnswersFit, Relay!ClaimsFit, Relay!CodesFit
<1>15. Relay!RelayAgreement'
  BY <1>1, <1>3, <1>5, <1>6, <1>7
  DEF Relay!RelayAgreement, Relay!AnswersFit, Relay!ClaimsFit, Relay!AgentFollows,
    Relay!CodesFit
<1>16. Relay!CreationsApart' /\ Relay!UndoneOnlyWhenRepeated'
  BY <1>1, <1>3, <1>5, <1>6, <1>7 DEF Relay!CodesFit, Relay!CreatorsFit,
     Relay!RevocationsFit, Relay!CreationsApart, Relay!UndoneOnlyWhenRepeated
<1> QED
  BY <1>8, <1>9, <1>10, <1>11, <1>12, <1>13, <1>14, <1>15, <1>16

LEMMA AnswerKeepsRelay ==
  ASSUME Relay!RelayInv, NEW h \in Claimer, Relay!AnswerClaim(h) \/ Relay!ClaimStops(h)
  PROVE  Relay!RelayInv'
<1> USE DEF Relay!RelayInv
<1>1. /\ claimer'[h] \in Relay!Claim
      /\ claimer' \in [Claimer -> Relay!Claim]
  BY DEF Relay!TypeOK, Relay!AnswerClaim, Relay!ClaimStops, Relay!NoClaim,
     Relay!Claim
<1>2. /\ \A k \in Claimer : k # h => claimer'[k] = claimer[k]
      /\ claimer'[h].pc = "idle"
  BY <1>1 DEF Relay!TypeOK, Relay!AnswerClaim, Relay!ClaimStops, Relay!NoClaim
<1>3. \/ given' = given
      \/ /\ claimer[h].pc = "answer" /\ claimer[h].e \in Enrollment /\ claimer[h].request \in RelayRequest
         /\ given' = given \cup {<<claimer[h].e, claimer[h].request>>}
         /\ relay[claimer[h].e].request = claimer[h].request /\ code[claimer[h].e].state = "claimed"
  BY DEF Relay!TypeOK, Relay!Claim, Relay!AnswerClaim, Relay!ClaimStops, Relay!ClaimsFit
<1>4. UNCHANGED <<relay, code, creator, revoker, asked, repeated>>
  BY <1>2, <1>3 DEF Relay!AnswerClaim, Relay!ClaimStops
<1>5. \A x \in given : x[1] \in Enrollment /\ x[2] \in RelayRequest
  BY DEF Relay!TypeOK
<1>6. Relay!TypeOK'
  BY <1>1, <1>2, <1>3, <1>4 DEF Relay!TypeOK
<1>7. Relay!CodesFit'
  BY <1>2, <1>3, <1>4 DEF Relay!CodesFit
<1>8. Relay!AgentFollows'
  BY <1>2, <1>3, <1>4 DEF Relay!AgentFollows, Relay!CodesFit
<1>9. Relay!CreatorsFit'
  BY <1>2, <1>3, <1>4 DEF Relay!CreatorsFit
<1>10. Relay!ClaimsFit'
  BY <1>2, <1>3, <1>4 DEF Relay!ClaimsFit, Relay!CodesFit, Relay!AgentFollows
<1>11. Relay!RevocationsFit'
  BY <1>2, <1>3, <1>4 DEF Relay!RevocationsFit, Relay!CodesFit
<1>12. Relay!AnswersFit'
  BY <1>2, <1>3, <1>4 DEF Relay!AnswersFit, Relay!ClaimsFit, Relay!CodesFit
<1>13. Relay!RelayAgreement'
  BY <1>2, <1>3, <1>4, <1>5
  DEF Relay!RelayAgreement, Relay!AnswersFit, Relay!ClaimsFit, Relay!AgentFollows,
    Relay!CodesFit
<1>14. Relay!CreationsApart' /\ Relay!UndoneOnlyWhenRepeated'
  BY <1>2, <1>3, <1>4, <1>5 DEF Relay!CodesFit, Relay!CreatorsFit,
     Relay!RevocationsFit, Relay!CreationsApart, Relay!UndoneOnlyWhenRepeated
<1> QED
  BY <1>6, <1>7, <1>8, <1>9, <1>10, <1>11, <1>12, <1>13, <1>14

LEMMA AskRevokeKeepsRelay ==
  ASSUME Relay!RelayInv, NEW h \in Revoker, NEW e \in Enrollment, Relay!BeginRevoke(h, e)
  PROVE  Relay!RelayInv'
<1> USE DEF Relay!RelayInv
<1>1. /\ revoker'[h] \in Relay!Revoke
      /\ revoker' \in [Revoker -> Relay!Revoke]
  BY DEF Relay!TypeOK, Relay!BeginRevoke,
     Relay!Revoke
<1>2. /\ \A k \in Revoker : k # h => revoker'[k] = revoker[k]
      /\ revoker'[h].pc = "call" /\ revoker'[h].e = e /\ ~revoker'[h].found
  BY <1>1 DEF Relay!TypeOK, Relay!BeginRevoke
<1>3. relay[e] # None /\ asked' = asked \cup {e}
  BY <1>2 DEF Relay!BeginRevoke
<1>4. UNCHANGED <<relay, code, creator, claimer, given, repeated>>
  BY <1>2, <1>3 DEF Relay!BeginRevoke
<1>5. \A x \in given : x[1] \in Enrollment /\ x[2] \in RelayRequest
  BY DEF Relay!TypeOK
<1>6. Relay!TypeOK'
  BY <1>1, <1>2, <1>3, <1>4 DEF Relay!TypeOK
<1>7. Relay!CodesFit'
  BY <1>2, <1>3, <1>4 DEF Relay!CodesFit
<1>8. Relay!AgentFollows'
  BY <1>2, <1>3, <1>4 DEF Relay!AgentFollows, Relay!CodesFit
<1>9. Relay!CreatorsFit'
  BY <1>2, <1>3, <1>4 DEF Relay!CreatorsFit
<1>10. Relay!ClaimsFit'
  BY <1>2, <1>3, <1>4 DEF Relay!ClaimsFit, Relay!CodesFit, Relay!AgentFollows
<1>11. Relay!RevocationsFit'
  BY <1>2, <1>3, <1>4 DEF Relay!RevocationsFit, Relay!CodesFit
<1>12. Relay!AnswersFit'
  BY <1>2, <1>3, <1>4 DEF Relay!AnswersFit, Relay!ClaimsFit, Relay!CodesFit
<1>13. Relay!RelayAgreement'
  BY <1>2, <1>3, <1>4, <1>5
  DEF Relay!RelayAgreement, Relay!AnswersFit, Relay!ClaimsFit, Relay!AgentFollows,
    Relay!CodesFit
<1>14. Relay!CreationsApart' /\ Relay!UndoneOnlyWhenRepeated'
  BY <1>2, <1>3, <1>4, <1>5 DEF Relay!CodesFit, Relay!CreatorsFit,
     Relay!RevocationsFit, Relay!CreationsApart, Relay!UndoneOnlyWhenRepeated
<1> QED
  BY <1>6, <1>7, <1>8, <1>9, <1>10, <1>11, <1>12, <1>13, <1>14

LEMMA RevokeKeepsRelay ==
  ASSUME Relay!RelayInv, NEW h \in Revoker, Relay!RevokeCall(h)
  PROVE  Relay!RelayInv'
<1> USE DEF Relay!RelayInv
<1>1. revoker[h].pc = "call" /\ revoker[h].e \in Enrollment /\ revoker[h].e \in asked
  BY DEF Relay!RevokeCall, Relay!RevocationsFit
<1>2. /\ relay[revoker[h].e] \in Relay!AgentEnrollment
      /\ relay'[revoker[h].e] \in Relay!AgentEnrollment
      /\ relay' \in [Enrollment -> Relay!AgentEnrollment \cup {None}]
  BY <1>1 DEF Relay!TypeOK, Relay!RevokeCall, Relay!RevokeAtAgent, Relay!RevocationsFit,
     Relay!AgentEnrollment, Relay!AgentState
<1>3. /\ relay[revoker[h].e] # None
      /\ relay'[revoker[h].e] # None
      /\ \A x \in Enrollment : x # revoker[h].e => relay'[x] = relay[x]
      /\ relay'[revoker[h].e].state = "revoked"
      /\ relay'[revoker[h].e].request = relay[revoker[h].e].request
  BY <1>1, <1>2
  DEF Relay!TypeOK, Relay!RevokeCall, Relay!RevokeAtAgent, Relay!RevocationsFit
<1>4. /\ revoker'[h] \in Relay!Revoke
      /\ revoker' \in [Revoker -> Relay!Revoke]
  BY <1>1, <1>3 DEF Relay!TypeOK, Relay!RevokeCall,
     Relay!Revoke
<1>5. /\ \A k \in Revoker : k # h => revoker'[k] = revoker[k]
      /\ revoker'[h].pc = "read" /\ revoker'[h].e = revoker[h].e
      /\ revoker'[h].found = revoker[h].found
  BY <1>1, <1>3, <1>4 DEF Relay!TypeOK, Relay!RevokeCall
<1>6. UNCHANGED <<code, creator, claimer, given, asked, repeated>>
  BY <1>1, <1>3, <1>5 DEF Relay!RevokeCall
<1>7. \A x \in given : x[1] \in Enrollment /\ x[2] \in RelayRequest
  BY DEF Relay!TypeOK
<1>8. Relay!TypeOK'
  BY <1>1, <1>2, <1>3, <1>4, <1>5, <1>6 DEF Relay!TypeOK
<1>9. Relay!CodesFit'
  BY <1>1, <1>3, <1>5, <1>6 DEF Relay!CodesFit
<1>10. Relay!AgentFollows'
  BY <1>1, <1>3, <1>5, <1>6 DEF Relay!AgentFollows, Relay!CodesFit
<1>11. Relay!CreatorsFit'
  BY <1>1, <1>3, <1>5, <1>6 DEF Relay!CreatorsFit
<1>12. Relay!ClaimsFit'
  BY <1>1, <1>3, <1>5, <1>6 DEF Relay!ClaimsFit, Relay!CodesFit, Relay!AgentFollows
<1>13. Relay!RevocationsFit'
  BY <1>1, <1>3, <1>5, <1>6 DEF Relay!RevocationsFit, Relay!CodesFit
<1>14. Relay!AnswersFit'
  BY <1>1, <1>3, <1>5, <1>6 DEF Relay!AnswersFit, Relay!ClaimsFit, Relay!CodesFit
<1>15. Relay!RelayAgreement'
  BY <1>1, <1>3, <1>5, <1>6, <1>7
  DEF Relay!RelayAgreement, Relay!AnswersFit, Relay!ClaimsFit, Relay!AgentFollows,
    Relay!CodesFit
<1>16. Relay!CreationsApart' /\ Relay!UndoneOnlyWhenRepeated'
  BY <1>1, <1>3, <1>5, <1>6, <1>7 DEF Relay!CodesFit, Relay!CreatorsFit,
     Relay!RevocationsFit, Relay!CreationsApart, Relay!UndoneOnlyWhenRepeated
<1> QED
  BY <1>8, <1>9, <1>10, <1>11, <1>12, <1>13, <1>14, <1>15, <1>16

LEMMA RevokeReadKeepsRelay ==
  ASSUME Relay!RelayInv, NEW h \in Revoker, Relay!ReadCode(h)
  PROVE  Relay!RelayInv'
<1> USE DEF Relay!RelayInv
<1>1. revoker[h].pc = "read" /\ revoker[h].e \in Enrollment
  BY DEF Relay!ReadCode, Relay!RevocationsFit
<1>2. /\ revoker'[h] \in Relay!Revoke
      /\ revoker' \in [Revoker -> Relay!Revoke]
  BY <1>1 DEF Relay!TypeOK, Relay!ReadCode, Relay!Revocable,
     Relay!Revoke
<1>3. /\ \A k \in Revoker : k # h => revoker'[k] = revoker[k]
      /\ revoker'[h].pc \in {"write", "done"} /\ revoker'[h].e = revoker[h].e
      /\ revoker'[h].found = (code[revoker[h].e] # None)
      /\ revoker'[h].pc = "write" => code[revoker[h].e] # None
      /\ revoker'[h].pc = "done" /\ code[revoker[h].e] # None =>
           code[revoker[h].e].state \notin {"pending", "bound"}
  BY <1>1, <1>2 DEF Relay!TypeOK, Relay!ReadCode, Relay!Revocable
<1>4. UNCHANGED <<relay, code, creator, claimer, given, asked, repeated>>
  BY <1>1, <1>3 DEF Relay!ReadCode
<1>5. \A x \in given : x[1] \in Enrollment /\ x[2] \in RelayRequest
  BY DEF Relay!TypeOK
<1>6. Relay!TypeOK'
  BY <1>1, <1>2, <1>3, <1>4 DEF Relay!TypeOK
<1>7. Relay!CodesFit'
  BY <1>1, <1>3, <1>4 DEF Relay!CodesFit
<1>8. Relay!AgentFollows'
  BY <1>1, <1>3, <1>4 DEF Relay!AgentFollows, Relay!CodesFit
<1>9. Relay!CreatorsFit'
  BY <1>1, <1>3, <1>4 DEF Relay!CreatorsFit
<1>10. Relay!ClaimsFit'
  BY <1>1, <1>3, <1>4 DEF Relay!ClaimsFit, Relay!CodesFit, Relay!AgentFollows
<1>11. Relay!RevocationsFit'
  <2> SUFFICES ASSUME NEW k \in Revoker
               PROVE  LET e == revoker'[k].e IN
                      /\ revoker'[k].pc \in {"call", "read", "write"} =>
                           e \in Enrollment /\ relay[e] # None /\ e \in asked
                      /\ revoker'[k].pc = "write" => revoker'[k].found
                      /\ revoker'[k].found => e \in Enrollment /\ code[e] # None
                      /\ revoker'[k].pc \in {"read", "write"} \/ revoker'[k].found =>
                           relay[e].state = "revoked"
                      /\ revoker'[k].pc = "done" /\ revoker'[k].found =>
                           code[e].state \notin {"pending", "bound"}
    BY <1>4 DEF Relay!RevocationsFit
  <2>1. CASE k = h
    BY <1>1, <1>3, <1>4, <2>1 DEF Relay!RevocationsFit
  <2>2. CASE k # h
    BY <1>3, <1>4, <2>2 DEF Relay!RevocationsFit
  <2> QED
    BY <2>1, <2>2
<1>12. Relay!AnswersFit'
  BY <1>1, <1>3, <1>4 DEF Relay!AnswersFit, Relay!ClaimsFit, Relay!CodesFit
<1>13. Relay!RelayAgreement'
  BY <1>1, <1>3, <1>4, <1>5
  DEF Relay!RelayAgreement, Relay!AnswersFit, Relay!ClaimsFit, Relay!AgentFollows,
    Relay!CodesFit
<1>14. Relay!CreationsApart' /\ Relay!UndoneOnlyWhenRepeated'
  BY <1>1, <1>3, <1>4, <1>5 DEF Relay!CodesFit, Relay!CreatorsFit,
     Relay!RevocationsFit, Relay!CreationsApart, Relay!UndoneOnlyWhenRepeated
<1> QED
  BY <1>6, <1>7, <1>8, <1>9, <1>10, <1>11, <1>12, <1>13, <1>14

LEMMA RevokeStopKeepsRelay ==
  ASSUME Relay!RelayInv, NEW h \in Revoker, Relay!RevokeStops(h)
  PROVE  Relay!RelayInv'
<1> USE DEF Relay!RelayInv
<1>1. /\ revoker'[h] \in Relay!Revoke
      /\ revoker' \in [Revoker -> Relay!Revoke]
  BY DEF Relay!TypeOK, Relay!RevokeStops, Relay!Ended,
     Relay!Revoke
<1>2. /\ \A k \in Revoker : k # h => revoker'[k] = revoker[k]
      /\ revoker'[h].pc = "done" /\ ~revoker'[h].found
  BY <1>1 DEF Relay!TypeOK, Relay!RevokeStops, Relay!Ended
<1>3. UNCHANGED <<relay, code, creator, claimer, given, asked, repeated>>
  BY <1>2 DEF Relay!RevokeStops
<1>4. \A x \in given : x[1] \in Enrollment /\ x[2] \in RelayRequest
  BY DEF Relay!TypeOK
<1>5. Relay!TypeOK'
  BY <1>1, <1>2, <1>3 DEF Relay!TypeOK
<1>6. Relay!CodesFit'
  BY <1>2, <1>3 DEF Relay!CodesFit
<1>7. Relay!AgentFollows'
  BY <1>2, <1>3 DEF Relay!AgentFollows, Relay!CodesFit
<1>8. Relay!CreatorsFit'
  BY <1>2, <1>3 DEF Relay!CreatorsFit
<1>9. Relay!ClaimsFit'
  BY <1>2, <1>3 DEF Relay!ClaimsFit, Relay!CodesFit, Relay!AgentFollows
<1>10. Relay!RevocationsFit'
  BY <1>2, <1>3 DEF Relay!RevocationsFit, Relay!CodesFit
<1>11. Relay!AnswersFit'
  BY <1>2, <1>3 DEF Relay!AnswersFit, Relay!ClaimsFit, Relay!CodesFit
<1>12. Relay!RelayAgreement'
  BY <1>2, <1>3, <1>4
  DEF Relay!RelayAgreement, Relay!AnswersFit, Relay!ClaimsFit, Relay!AgentFollows,
    Relay!CodesFit
<1>13. Relay!CreationsApart' /\ Relay!UndoneOnlyWhenRepeated'
  BY <1>2, <1>3, <1>4 DEF Relay!CodesFit, Relay!CreatorsFit,
     Relay!RevocationsFit, Relay!CreationsApart, Relay!UndoneOnlyWhenRepeated
<1> QED
  BY <1>5, <1>6, <1>7, <1>8, <1>9, <1>10, <1>11, <1>12, <1>13

LEMMA RevokeWriteKeepsRelay ==
  ASSUME Relay!RelayInv, NEW h \in Revoker, Relay!RevokeEnrollment(h)
  PROVE  Relay!RelayInv'
<1> USE DEF Relay!RelayInv
<1>1. revoker[h].pc = "write" /\ revoker[h].e \in Enrollment /\ revoker[h].found
  BY DEF Relay!RevokeEnrollment, Relay!RevocationsFit
<1>2. /\ code[revoker[h].e] \in Relay!Code /\ code[revoker[h].e] # None
      /\ revoker[h] \in Relay!Revoke
  BY <1>1 DEF Relay!TypeOK, Relay!RevocationsFit
<1>3. /\ code' \in [Enrollment -> Relay!Code \cup {None}]
      /\ code'[revoker[h].e] # None
      /\ code'[revoker[h].e].request = code[revoker[h].e].request
      /\ \A x \in Enrollment : x # revoker[h].e => code'[x] = code[x]
      /\ \/ /\ code[revoker[h].e].state \in {"pending", "bound"}
            /\ code'[revoker[h].e].state = "revoked"
            /\ revoker' = [revoker EXCEPT ![h].pc = "done"]
         \/ code' = code /\ revoker' = [revoker EXCEPT ![h] = Relay!Ended]
  <2>1. CASE code[revoker[h].e].state \in {"pending", "bound"}
    BY <1>1, <1>2, <2>1 DEF Relay!TypeOK, Relay!RevokeEnrollment, Relay!Code
  <2>2. CASE code[revoker[h].e].state \notin {"pending", "bound"}
    BY <1>1, <1>2, <2>2 DEF Relay!TypeOK, Relay!RevokeEnrollment
  <2> QED
    BY <2>1, <2>2
<1>4. revoker' \in [Revoker -> Relay!Revoke]
  <2>1. [revoker[h] EXCEPT !.pc = "done"] \in Relay!Revoke /\ Relay!Ended \in Relay!Revoke
    BY <1>2 DEF Relay!Revoke, Relay!Ended
  <2> QED
    BY <1>3, <2>1 DEF Relay!TypeOK
<1>5. /\ \A k \in Revoker : k # h => revoker'[k] = revoker[k]
      /\ revoker'[h].pc = "done"
      /\ revoker'[h].found =>
           revoker'[h].e = revoker[h].e /\ code'[revoker[h].e].state = "revoked"
  BY <1>2, <1>3 DEF Relay!TypeOK, Relay!Ended, Relay!Revoke
<1>6. UNCHANGED <<relay, creator, claimer, given, asked, repeated>>
  BY DEF Relay!RevokeEnrollment
<1>7. \A x \in given : x[1] \in Enrollment /\ x[2] \in RelayRequest
  BY DEF Relay!TypeOK
<1>8. Relay!TypeOK'
  BY <1>1, <1>2, <1>3, <1>4, <1>5, <1>6 DEF Relay!TypeOK
<1>9. Relay!CodesFit'
  BY <1>1, <1>2, <1>3, <1>5, <1>6 DEF Relay!CodesFit
<1>10. Relay!AgentFollows'
  BY <1>1, <1>2, <1>3, <1>5, <1>6 DEF Relay!AgentFollows, Relay!CodesFit
<1>11. Relay!CreatorsFit'
  BY <1>1, <1>2, <1>3, <1>5, <1>6 DEF Relay!CreatorsFit
<1>12. Relay!ClaimsFit'
  BY <1>1, <1>2, <1>3, <1>5, <1>6 DEF Relay!ClaimsFit, Relay!CodesFit, Relay!AgentFollows
<1>13. Relay!RevocationsFit'
  BY <1>1, <1>2, <1>3, <1>5, <1>6 DEF Relay!RevocationsFit, Relay!CodesFit
<1>14. Relay!AnswersFit'
  BY <1>1, <1>2, <1>3, <1>5, <1>6 DEF Relay!AnswersFit, Relay!ClaimsFit, Relay!CodesFit
<1>15. Relay!RelayAgreement'
  BY <1>1, <1>3, <1>5, <1>6, <1>7
  DEF Relay!RelayAgreement, Relay!AnswersFit, Relay!ClaimsFit, Relay!AgentFollows,
    Relay!CodesFit
<1>16. Relay!CreationsApart' /\ Relay!UndoneOnlyWhenRepeated'
  BY <1>1, <1>3, <1>5, <1>6, <1>7 DEF Relay!CodesFit, Relay!CreatorsFit,
     Relay!RevocationsFit, Relay!CreationsApart, Relay!UndoneOnlyWhenRepeated
<1> QED
  BY <1>8, <1>9, <1>10, <1>11, <1>12, <1>13, <1>14, <1>15, <1>16

LEMMA ActivatesKeepsRelay ==
  ASSUME Relay!RelayInv, NEW e \in Enrollment, Relay!Activate(e)
  PROVE  Relay!RelayInv'
<1> USE DEF Relay!RelayInv
<1>1. /\ relay[e] \in Relay!AgentEnrollment
      /\ relay'[e] \in Relay!AgentEnrollment
      /\ relay' \in [Enrollment -> Relay!AgentEnrollment \cup {None}]
  BY DEF Relay!TypeOK, Relay!Activate,
     Relay!AgentEnrollment, Relay!AgentState
<1>2. /\ relay[e] # None
      /\ relay'[e] # None
      /\ \A x \in Enrollment : x # e => relay'[x] = relay[x]
      /\ relay[e].state = "claimed" /\ relay'[e].state = "active"
      /\ relay'[e].request = relay[e].request
  BY <1>1 DEF Relay!TypeOK, Relay!Activate
<1>3. UNCHANGED <<code, creator, claimer, revoker, given, asked, repeated>>
  BY <1>2 DEF Relay!Activate, Relay!handlers
<1>4. \A x \in given : x[1] \in Enrollment /\ x[2] \in RelayRequest
  BY DEF Relay!TypeOK
<1>5. Relay!TypeOK'
  BY <1>1, <1>2, <1>3 DEF Relay!TypeOK
<1>6. Relay!CodesFit'
  BY <1>2, <1>3 DEF Relay!CodesFit
<1>7. Relay!AgentFollows'
  BY <1>2, <1>3 DEF Relay!AgentFollows, Relay!CodesFit
<1>8. Relay!CreatorsFit'
  BY <1>2, <1>3 DEF Relay!CreatorsFit
<1>9. Relay!ClaimsFit'
  BY <1>2, <1>3 DEF Relay!ClaimsFit, Relay!CodesFit, Relay!AgentFollows
<1>10. Relay!RevocationsFit'
  BY <1>2, <1>3 DEF Relay!RevocationsFit, Relay!CodesFit
<1>11. Relay!AnswersFit'
  BY <1>2, <1>3 DEF Relay!AnswersFit, Relay!ClaimsFit, Relay!CodesFit
<1>12. Relay!RelayAgreement'
  BY <1>2, <1>3, <1>4
  DEF Relay!RelayAgreement, Relay!AnswersFit, Relay!ClaimsFit, Relay!AgentFollows,
    Relay!CodesFit
<1>13. Relay!CreationsApart' /\ Relay!UndoneOnlyWhenRepeated'
  BY <1>2, <1>3, <1>4 DEF Relay!CodesFit, Relay!CreatorsFit,
     Relay!RevocationsFit, Relay!CreationsApart, Relay!UndoneOnlyWhenRepeated
<1> QED
  BY <1>5, <1>6, <1>7, <1>8, <1>9, <1>10, <1>11, <1>12, <1>13

LEMMA ClosesKeepsRelay ==
  ASSUME Relay!RelayInv, NEW e \in Enrollment, Relay!Close(e)
  PROVE  Relay!RelayInv'
<1> USE DEF Relay!RelayInv
<1>1. /\ code[e] \in Relay!Code
      /\ code'[e] \in Relay!Code
      /\ code' \in [Enrollment -> Relay!Code \cup {None}]
  <2>1. code[e] \in Relay!Code
    BY DEF Relay!TypeOK, Relay!Close
  <2>2. [code[e] EXCEPT !.open = FALSE] \in Relay!Code
    BY <2>1 DEF Relay!Code
  <2> QED
    BY <2>1, <2>2 DEF Relay!TypeOK, Relay!Close
<1>2. /\ code[e] # None
      /\ code'[e] # None
      /\ \A x \in Enrollment : x # e => code'[x] = code[x]
      /\ code'[e].state = code[e].state /\ code'[e].request = code[e].request
  BY <1>1 DEF Relay!TypeOK, Relay!Close, Relay!Code
<1>3. UNCHANGED <<relay, creator, claimer, revoker, given, asked, repeated>>
  BY <1>2 DEF Relay!Close, Relay!handlers
<1>4. \A x \in given : x[1] \in Enrollment /\ x[2] \in RelayRequest
  BY DEF Relay!TypeOK
<1>5. Relay!TypeOK'
  BY <1>1, <1>2, <1>3 DEF Relay!TypeOK
<1>6. Relay!CodesFit'
  BY <1>2, <1>3 DEF Relay!CodesFit
<1>7. Relay!AgentFollows'
  BY <1>2, <1>3 DEF Relay!AgentFollows, Relay!CodesFit
<1>8. Relay!CreatorsFit'
  BY <1>2, <1>3 DEF Relay!CreatorsFit
<1>9. Relay!ClaimsFit'
  BY <1>2, <1>3 DEF Relay!ClaimsFit, Relay!CodesFit, Relay!AgentFollows
<1>10. Relay!RevocationsFit'
  BY <1>2, <1>3 DEF Relay!RevocationsFit, Relay!CodesFit
<1>11. Relay!AnswersFit'
  BY <1>2, <1>3 DEF Relay!AnswersFit, Relay!ClaimsFit, Relay!CodesFit
<1>12. Relay!RelayAgreement'
  BY <1>2, <1>3, <1>4
  DEF Relay!RelayAgreement, Relay!AnswersFit, Relay!ClaimsFit, Relay!AgentFollows,
    Relay!CodesFit
<1>13. Relay!CreationsApart' /\ Relay!UndoneOnlyWhenRepeated'
  BY <1>2, <1>3, <1>4 DEF Relay!CodesFit, Relay!CreatorsFit,
     Relay!RevocationsFit, Relay!CreationsApart, Relay!UndoneOnlyWhenRepeated
<1> QED
  BY <1>5, <1>6, <1>7, <1>8, <1>9, <1>10, <1>11, <1>12, <1>13

LEMMA RelayInit == Relay!Init => Relay!RelayInv
<1> SUFFICES ASSUME Relay!Init PROVE Relay!RelayInv
  OBVIOUS
<1>1. Relay!TypeOK
  BY DEF Relay!Init, Relay!TypeOK, Relay!Create, Relay!Claim, Relay!Revoke, Relay!NoClaim
<1> QED
  BY <1>1 DEF Relay!Init, Relay!RelayInv, Relay!CodesFit, Relay!AgentFollows,
    Relay!CreatorsFit, Relay!ClaimsFit, Relay!NoClaim, Relay!RevocationsFit,
    Relay!AnswersFit, Relay!RelayAgreement, Relay!CreationsApart, Relay!UndoneOnlyWhenRepeated

LEMMA RelayNext == Relay!RelayInv /\ [Relay!Next]_(Relay!vars) => Relay!RelayInv'
<1> SUFFICES ASSUME Relay!RelayInv, [Relay!Next]_(Relay!vars)
             PROVE  Relay!RelayInv'
  OBVIOUS
<1>1. ASSUME NEW h \in Creator, Relay!CreateStep(h)
      PROVE  Relay!RelayInv'
  BY <1>1, PrepareKeepsRelay, CreateRowKeepsRelay, CompensateKeepsRelay, CreateEndsKeepsRelay
  DEF Relay!CreateStep
<1>2. ASSUME NEW h \in Claimer, Relay!ClaimStep(h)
      PROVE  Relay!RelayInv'
  BY <1>2, BindKeepsRelay, CompleteKeepsRelay, RecordKeepsRelay, AnswerKeepsRelay
  DEF Relay!ClaimStep
<1>3. ASSUME NEW h \in Revoker, Relay!RevokeStep(h)
      PROVE  Relay!RelayInv'
  BY <1>3, AskRevokeKeepsRelay, RevokeKeepsRelay, RevokeReadKeepsRelay, RevokeStopKeepsRelay,
     RevokeWriteKeepsRelay
  DEF Relay!RevokeStep
<1>4. ASSUME NEW e \in Enrollment, Relay!Activate(e) \/ Relay!Close(e)
      PROVE  Relay!RelayInv'
  BY <1>4, ActivatesKeepsRelay, ClosesKeepsRelay
<1>5. CASE UNCHANGED Relay!vars
  BY <1>5 DEF Relay!vars, Relay!handlers, Relay!RelayInv, Relay!TypeOK, Relay!CodesFit,
    Relay!AgentFollows, Relay!CreatorsFit, Relay!ClaimsFit, Relay!RevocationsFit,
    Relay!AnswersFit, Relay!RelayAgreement, Relay!CreationsApart, Relay!UndoneOnlyWhenRepeated
<1> QED
  BY <1>1, <1>2, <1>3, <1>4, <1>5 DEF Relay!Next

\* Side by side, the relays take RelayEnrollment's steps or none.
LEMMA RelaysAmongBoth == Both => Relay!Spec
<1>1. BothInit => Relay!Init
  BY DEF BothInit
<1>2. [BothNext]_<<vars, relays>> => [Relay!Next]_(Relay!vars)
  BY DEF BothNext, relays, Relay!vars, Relay!handlers
<1> QED
  BY <1>1, <1>2, PTL DEF Both, Relay!Spec

\* What the steps of both keep: the agents' and the registry's records fit.
THEOREM RelayInvariant == Both => []Relay!RelayInv
<1>1. Relay!Spec => []Relay!RelayInv
  BY RelayInit, RelayNext, PTL DEF Relay!Spec
<1> QED
  BY <1>1, RelaysAmongBoth, PTL

\* The agent and the registry agree whose an enrollment is.
THEOREM RelaysAgree == Both => []RelayAgreement
<1>1. Relay!RelayInv => RelayAgreement
  BY DEF Relay!RelayInv, RelayAgreement
<1> QED
  BY <1>1, RelayInvariant, PTL

\* A revocation answered as done leaves the enrollment usable at neither.
THEOREM RevocationsClose == Both => []RevokedMeansClosed
<1>1. Relay!RelayInv => RevokedMeansClosed
  BY DEF Relay!RelayInv, Relay!RevocationsFit, RevokedMeansClosed, Relay!RevokedMeansClosed
<1> QED
  BY <1>1, RelayInvariant, PTL

\* Only a creation repeated with a used key can undo a code that was handed
\* out.
THEOREM OnlyRepeatsUndo == Both => []UndoneOnlyWhenRepeated
<1>1. Relay!RelayInv => UndoneOnlyWhenRepeated
  BY DEF Relay!RelayInv, UndoneOnlyWhenRepeated
<1> QED
  BY <1>1, RelayInvariant, PTL
=============================================================================
