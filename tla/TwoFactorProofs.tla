--------------------------- MODULE TwoFactorProofs ---------------------------
(* Proofs about TwoFactor for any number of users, secrets, challenges and  *)
(* handlers, any lifetimes and any number of attempts; the second half shows *)
(* that TwoFactor implements SignIn.                                        *)
EXTENDS TwoFactor, TLAPS

USE TwoFactorAssumption, ChallengeAssumption

-----------------------------------------------------------------------------
LEMMA Constants ==
  /\ NoFactor \in Factor /\ Idle \in Op
  /\ NoFactor.secret = NoSecret /\ NoFactor.pending = NoSecret
  /\ NoFactor.enabled = FALSE /\ NoFactor.lastUsed = 0
  /\ Idle.pc = "idle" /\ Idle.secret = NoSecret
  BY DEF NoFactor, Factor, Idle, Op, OpPC

\* What confirming a setup leaves in the user's row.
Enabled(k, step) ==
  [NoFactor EXCEPT !.secret = k, !.enabled = TRUE, !.lastUsed = step]

LEMMA EnabledFields ==
  ASSUME NEW k \in Secret, NEW step \in Nat
  PROVE  /\ Enabled(k, step) \in Factor
         /\ Enabled(k, step).secret = k /\ Enabled(k, step).pending = NoSecret
         /\ Enabled(k, step).enabled = TRUE /\ Enabled(k, step).lastUsed = step
  BY DEF Enabled, NoFactor, Factor

\* A step of a handler towards its session touches nothing else.
SignInStep(p) ==
  \/ \E u \in User : VerifyPassword(p, u)
  \/ CheckFactor(p) \/ RecheckFactor(p)
  \/ \E t \in tokens : Grant(p, t)
  \/ IssueToken(p) \/ Fail(p)

LEMMA SignInType ==
  ASSUME TypeOK, CopiesAreOlder, NEW p \in Proc, SignInStep(p)
  PROVE  TypeOK'
<1>1. ASSUME NEW u \in User, VerifyPassword(p, u)
      PROVE  TypeOK'
  BY <1>1 DEF TypeOK, VerifyPassword, Op, OpPC, history
<1>2. CASE CheckFactor(p)
  BY <1>2 DEF TypeOK, CheckFactor, Op, OpPC, history
<1>3. CASE RecheckFactor(p)
  BY <1>3 DEF TypeOK, RecheckFactor, Op, OpPC, history
<1>4. ASSUME NEW t \in tokens, Grant(p, t)
      PROVE  TypeOK'
  BY <1>4 DEF TypeOK, Grant, Op, OpPC, Token, history
<1>5. CASE IssueToken(p)
  <2>1. [user |-> op[p].user, version |-> op[p].version, secret |-> op[p].secret]
          \in Token
    BY <1>5 DEF TypeOK, CopiesAreOlder, IssueToken, Op, Token
  <2> QED
    BY <1>5, <2>1, Constants DEF TypeOK, IssueToken, IssuedVersion, history
<1>6. CASE Fail(p)
  BY <1>6, Constants DEF TypeOK, Fail, history
<1> QED
  BY <1>1, <1>2, <1>3, <1>4, <1>5, <1>6 DEF SignInStep

LEMMA BumpType ==
  ASSUME TypeOK, NEW u \in User, BumpAuthVersionAndRevoke(u)
  PROVE  version' \in [User -> 1..MaxVersion] /\ tokens' \subseteq Token
  BY DEF TypeOK, BumpAuthVersionAndRevoke

LEMMA FactorStepType ==
  ASSUME TypeOK, NEW u \in User, FactorStep(u)
  PROVE  TypeOK'
<1>1. ASSUME NEW code \in Code, ConfirmSetup(u, code)
      PROVE  TypeOK'
  <2>1. /\ factor[u].pending \in Secret /\ code.step \in Nat
        /\ factor' = [factor EXCEPT ![u] = Enabled(factor[u].pending, code.step)]
    BY <1>1 DEF TypeOK, ConfirmSetup, Factor, Code, Enabled
  <2>2. factor' \in [User -> Factor]
    BY <2>1, EnabledFields DEF TypeOK
  <2> QED
    BY <1>1, <2>2, BumpType DEF TypeOK, ConfirmSetup
<1>2. ASSUME NEW code \in Code, Disable(u, code)
      PROVE  TypeOK'
  BY <1>2, BumpType, Constants DEF TypeOK, Disable
<1>3. CASE ResetTwoFactor(u)
  BY <1>3, BumpType, Constants DEF TypeOK, ResetTwoFactor, history
<1>4. CASE InvalidateSessions(u)
  BY <1>4, BumpType DEF TypeOK, InvalidateSessions, history
<1> QED
  BY <1>1, <1>2, <1>3, <1>4 DEF FactorStep

LEMMA TypeStep ==
  ASSUME TypeOK, CopiesAreOlder, Next
  PROVE  TypeOK'
<1>1. ASSUME NEW p \in Proc, NEW u \in User, NEW k \in Secret, BeginSetup(p, u, k)
      PROVE  TypeOK'
  BY <1>1 DEF TypeOK, BeginSetup, Op, OpPC, history
<1>2. ASSUME NEW p \in Proc, StoreSetup(p)
      PROVE  TypeOK'
  <2>1. op[p].user \in User /\ op[p].secret \in Secret /\ now + PendingTTL \in Nat
    BY <1>2 DEF TypeOK, CopiesAreOlder, StoreSetup
  <2>2. factor' \in [User -> Factor]
    BY <1>2, <2>1 DEF TypeOK, StoreSetup, Factor
  <2> QED
    BY <1>2, <2>2, Constants DEF TypeOK, StoreSetup, history
<1>3. ASSUME NEW p \in Proc, NEW c \in Challenge, CreateLoginChallenge(p, c)
      PROVE  TypeOK'
  <2>1. [user |-> op[p].user, expires |-> now + ChallengeTTL, attempts |-> 0,
         used |-> FALSE] \in Row
    BY <1>3 DEF TypeOK, CopiesAreOlder, CreateLoginChallenge, Row
  <2> QED
    BY <1>3, <2>1, Constants DEF TypeOK, CreateLoginChallenge, history
<1>4. ASSUME NEW p \in Proc, NEW c \in Challenge, NEW code \in Code,
             CompleteLoginChallenge(p, c, code)
      PROVE  TypeOK'
  <2>1. challenge[c] \in Row /\ challenge[c].attempts < MaxAttempts
        /\ code.step \in Nat
    BY <1>4 DEF CompleteLoginChallenge, MayAnswer, Code
  <2>2. [challenge[c] EXCEPT !.used = TRUE, !.attempts = @ + 1] \in Row
    <3>1. challenge[c].attempts + 1 \in 0..MaxAttempts
      BY <2>1 DEF Row
    <3> QED
      BY <2>1, <3>1 DEF Row
  <2>3. challenge' \in [Challenge -> Row \cup {NoChallenge, Deleted}]
    BY <1>4, <2>2 DEF TypeOK, CompleteLoginChallenge
  <2>4. factor' \in [User -> Factor]
    BY <1>4, <2>1 DEF TypeOK, CompleteLoginChallenge, Factor, Row
  <2>5. op' \in [Proc -> Op]
    BY <1>4, <2>1 DEF TypeOK, CompleteLoginChallenge, Op, OpPC, Row, Factor
  <2>6. /\ accepted' \in [Code -> Nat]
        /\ guessed' \in [Challenge -> Nat] /\ completed' \in [Challenge -> Nat]
    BY <1>4 DEF TypeOK, CompleteLoginChallenge
  <2>7. version' = version /\ tokens' = tokens /\ drawn' = drawn /\ now' = now
    BY <1>4 DEF CompleteLoginChallenge
  <2> QED
    BY <2>3, <2>4, <2>5, <2>6, <2>7 DEF TypeOK
<1>5. ASSUME NEW c \in Challenge, RefuseCode(c)
      PROVE  TypeOK'
  <2>1. challenge[c] \in Row /\ challenge[c].attempts < MaxAttempts
    BY <1>5 DEF RefuseCode, MayAnswer
  <2>2. [challenge[c] EXCEPT !.attempts = @ + 1] \in Row
    BY <2>1 DEF Row
  <2> QED
    BY <1>5, <2>2 DEF TypeOK, RefuseCode
<1>6. CASE Tick
  BY <1>6 DEF TypeOK, Tick, history
<1> QED
  BY <1>1, <1>2, <1>3, <1>4, <1>5, <1>6, SignInType, FactorStepType
  DEF Next, HandlerStep, SignInStep
-----------------------------------------------------------------------------
(* Versions: a copy of a user from before a factor was enabled, and every   *)
(* session made of it, carries an old version.                              *)

VersionsInv == CopiesAreOlder /\ IssuesEnforced /\ SecondFactorEnforced

\* What VersionsInv says of one handler, and of one session.
HandlerOK(p) ==
  /\ op[p].pc \notin {"idle", "setup"} =>
       op[p].user \in User /\ op[p].version <= version[op[p].user]
  /\ op[p].pc = "setup" => op[p].user \in User /\ op[p].secret \in Secret
  /\ op[p].pc = "verified" => op[p].secret = NoSecret
  /\ op[p].pc = "issue" /\ op[p].version = version[op[p].user]
     /\ factor[op[p].user].enabled
       => op[p].secret = factor[op[p].user].secret

SessionOK(t) ==
  /\ t.version <= version[t.user]
  /\ t.version = version[t.user] /\ factor[t.user].enabled
       => t.secret = factor[t.user].secret

LEMMA Pointwise ==
  VersionsInv <=> (\A p \in Proc : HandlerOK(p)) /\ (\A t \in tokens : SessionOK(t))
  BY DEF VersionsInv, CopiesAreOlder, IssuesEnforced, SecondFactorEnforced,
         HandlerOK, SessionOK

LEMMA PointwiseNext ==
  ASSUME \A p \in Proc : HandlerOK(p)', \A t \in tokens' : SessionOK(t)'
  PROVE  VersionsInv'
  BY DEF VersionsInv, CopiesAreOlder, IssuesEnforced, SecondFactorEnforced,
         HandlerOK, SessionOK

\* The users, their factors' secrets and the sessions are left as they are.
UsersKept ==
  /\ version' = version
  /\ \A u \in User : factor'[u].enabled = factor[u].enabled
                     /\ factor'[u].secret = factor[u].secret

LEMMA HandlerKept ==
  ASSUME TypeOK, UsersKept, NEW p \in Proc, HandlerOK(p), op'[p] = op[p]
  PROVE  HandlerOK(p)'
  BY Constants DEF HandlerOK, UsersKept, TypeOK, Op, OpPC

LEMMA SessionKept ==
  ASSUME TypeOK, UsersKept, NEW t \in tokens, SessionOK(t)
  PROVE  SessionOK(t)'
  BY DEF SessionOK, UsersKept, TypeOK, Token

LEMMA OneHandlerMoves ==
  ASSUME TypeOK, VersionsInv, UsersKept, tokens' = tokens,
         NEW p \in Proc, HandlerOK(p)',
         \A q \in Proc : q # p => op'[q] = op[q]
  PROVE  VersionsInv'
<1>1. \A q \in Proc : HandlerOK(q)'
  BY HandlerKept, Pointwise
<1>2. \A t \in tokens' : SessionOK(t)'
  BY SessionKept, Pointwise
<1> QED
  BY <1>1, <1>2, PointwiseNext

LEMMA VersionsSignIn ==
  ASSUME TypeOK, VersionsInv, NEW p \in Proc, SignInStep(p)
  PROVE  VersionsInv'
<1>a. HandlerOK(p)
  BY Pointwise
<1>1. ASSUME NEW u \in User, VerifyPassword(p, u)
      PROVE  VersionsInv'
  <2>1. HandlerOK(p)'
    BY <1>1 DEF HandlerOK, VerifyPassword, TypeOK
  <2> QED
    BY <1>1, <2>1, OneHandlerMoves DEF VerifyPassword, UsersKept, TypeOK
<1>2. CASE CheckFactor(p)
  <2>1. HandlerOK(p)'
    BY <1>2, <1>a DEF HandlerOK, CheckFactor, TypeOK, Op
  <2> QED
    BY <1>2, <2>1, OneHandlerMoves DEF CheckFactor, UsersKept, TypeOK
<1>3. CASE RecheckFactor(p)
  <2>1. HandlerOK(p)'
    BY <1>3, <1>a DEF HandlerOK, RecheckFactor, TypeOK, Op
  <2> QED
    BY <1>3, <2>1, OneHandlerMoves DEF RecheckFactor, UsersKept, TypeOK
<1>4. ASSUME NEW t \in tokens, Grant(p, t)
      PROVE  VersionsInv'
  <2>1. SessionOK(t) /\ t \in Token
    BY Pointwise DEF TypeOK
  <2>2. HandlerOK(p)'
    BY <1>4, <2>1 DEF HandlerOK, SessionOK, Grant, TypeOK, Token
  <2> QED
    BY <1>4, <2>2, OneHandlerMoves DEF Grant, UsersKept, TypeOK
<1>5. CASE IssueToken(p)
  <2> DEFINE new == [user |-> op[p].user, version |-> op[p].version,
                     secret |-> op[p].secret]
  <2>1. SessionOK(new)
    BY <1>5, <1>a DEF SessionOK, HandlerOK, IssueToken
  <2>2. PICK t : t = new
    OBVIOUS
  <2>3. SessionOK(t)'
    BY <1>5, <2>1, <2>2 DEF SessionOK, IssueToken
  <2>4. \A s \in tokens : SessionOK(s)'
    BY <1>5, SessionKept, Pointwise DEF IssueToken, UsersKept
  <2>5. tokens' = tokens \cup {t}
    BY <1>5, <2>2 DEF IssueToken, IssuedVersion
  <2>6. \A s \in tokens' : SessionOK(s)'
    BY <2>3, <2>4, <2>5
  <2>7. \A q \in Proc : HandlerOK(q)'
    <3> SUFFICES ASSUME NEW q \in Proc
                 PROVE  HandlerOK(q)'
      OBVIOUS
    <3>1. CASE q = p
      BY <1>5, <3>1, Constants DEF HandlerOK, IssueToken, TypeOK
    <3>2. CASE q # p
      BY <1>5, <3>2, HandlerKept, Pointwise DEF IssueToken, UsersKept, TypeOK
    <3> QED
      BY <3>1, <3>2
  <2> QED
    BY <2>6, <2>7, PointwiseNext
<1>6. CASE Fail(p)
  <2>1. HandlerOK(p)'
    BY <1>6, Constants DEF HandlerOK, Fail, TypeOK
  <2> QED
    BY <1>6, <2>1, OneHandlerMoves DEF Fail, UsersKept, TypeOK
<1> QED
  BY <1>1, <1>2, <1>3, <1>4, <1>5, <1>6 DEF SignInStep

\* A user's factor changes only together with the version, and with it go all
\* the sessions and all the copies of the user.
LEMMA VersionsBump ==
  ASSUME TypeOK, VersionsInv, NEW u \in User, BumpAuthVersionAndRevoke(u),
         op' = op, \A v \in User : v # u => factor'[v] = factor[v]
  PROVE  VersionsInv'
<1>1. /\ version'[u] = version[u] + 1
      /\ \A v \in User : v # u => version'[v] = version[v]
      /\ \A v \in User : version[v] \in Nat /\ version'[v] \in Nat
  BY DEF BumpAuthVersionAndRevoke, TypeOK
<1>2. ASSUME NEW p \in Proc
      PROVE  HandlerOK(p)'
  <2>1. HandlerOK(p) /\ op[p] \in Op
    BY Pointwise DEF TypeOK
  <2>2. op[p].version \in Nat
    BY <2>1 DEF Op
  <2>3. CASE op[p].pc \in {"idle", "setup"}
    BY <2>1, <2>3 DEF HandlerOK
  <2>4. CASE op[p].pc \notin {"idle", "setup"} /\ op[p].user = u
    BY <1>1, <2>1, <2>2, <2>4 DEF HandlerOK
  <2>5. CASE op[p].pc \notin {"idle", "setup"} /\ op[p].user # u
    BY <1>1, <2>1, <2>2, <2>5 DEF HandlerOK
  <2> QED
    BY <2>3, <2>4, <2>5
<1>3. ASSUME NEW t \in tokens'
      PROVE  SessionOK(t)'
  <2>1. t \in tokens /\ t.user # u
    BY <1>3 DEF BumpAuthVersionAndRevoke
  <2>2. SessionOK(t) /\ t.user \in User
    BY <2>1, Pointwise DEF TypeOK, Token
  <2> QED
    BY <1>1, <2>1, <2>2 DEF SessionOK
<1> QED
  BY <1>2, <1>3, PointwiseNext

LEMMA VersionsStep ==
  ASSUME TypeOK, VersionsInv, Next
  PROVE  VersionsInv'
<1>1. ASSUME NEW p \in Proc, NEW u \in User, NEW k \in Secret, BeginSetup(p, u, k)
      PROVE  VersionsInv'
  <2>1. HandlerOK(p)'
    BY <1>1 DEF HandlerOK, BeginSetup, TypeOK
  <2> QED
    BY <1>1, <2>1, OneHandlerMoves DEF BeginSetup, UsersKept, TypeOK
<1>2. ASSUME NEW p \in Proc, StoreSetup(p)
      PROVE  VersionsInv'
  <2>1. HandlerOK(p)'
    BY <1>2, Constants DEF HandlerOK, StoreSetup, TypeOK
  <2>2. op[p].user \in User
    BY <1>2 DEF VersionsInv, CopiesAreOlder, StoreSetup
  <2>3. UsersKept
    BY <1>2, <2>2 DEF StoreSetup, UsersKept, TypeOK, Factor
  <2> QED
    BY <1>2, <2>1, <2>3, OneHandlerMoves DEF StoreSetup, TypeOK
<1>3. ASSUME NEW p \in Proc, NEW c \in Challenge, CreateLoginChallenge(p, c)
      PROVE  VersionsInv'
  <2>1. HandlerOK(p)'
    BY <1>3, Constants DEF HandlerOK, CreateLoginChallenge, TypeOK
  <2> QED
    BY <1>3, <2>1, OneHandlerMoves DEF CreateLoginChallenge, UsersKept, TypeOK
<1>4. ASSUME NEW p \in Proc, NEW c \in Challenge, NEW code \in Code,
             CompleteLoginChallenge(p, c, code)
      PROVE  VersionsInv'
  <2>1. challenge[c].user \in User
    BY <1>4 DEF CompleteLoginChallenge, MayAnswer, Row
  <2>2. UsersKept
    BY <1>4, <2>1 DEF CompleteLoginChallenge, UsersKept, TypeOK, Factor
  <2>3. op'[p] = [pc |-> "issue", user |-> challenge[c].user,
                  version |-> version[challenge[c].user],
                  secret |-> factor[challenge[c].user].secret]
    BY <1>4 DEF CompleteLoginChallenge, TypeOK
  <2>4. HandlerOK(p)'
    BY <2>1, <2>2, <2>3 DEF HandlerOK, UsersKept, TypeOK
  <2> QED
    BY <1>4, <2>2, <2>4, OneHandlerMoves DEF CompleteLoginChallenge, TypeOK
<1>5. ASSUME NEW c \in Challenge, RefuseCode(c)
      PROVE  VersionsInv'
  BY <1>5 DEF RefuseCode, VersionsInv, CopiesAreOlder, IssuesEnforced,
              SecondFactorEnforced
<1>6. CASE Tick
  BY <1>6 DEF Tick, VersionsInv, CopiesAreOlder, IssuesEnforced, SecondFactorEnforced
<1>7. ASSUME NEW u \in User, FactorStep(u)
      PROVE  VersionsInv'
  <2>1. BumpAuthVersionAndRevoke(u) /\ op' = op
    BY <1>7 DEF FactorStep, ConfirmSetup, Disable, ResetTwoFactor, InvalidateSessions
  <2>2. \A v \in User : v # u => factor'[v] = factor[v]
    BY <1>7 DEF FactorStep, ConfirmSetup, Disable, ResetTwoFactor,
                InvalidateSessions, TypeOK
  <2> QED
    BY <2>1, <2>2, VersionsBump
<1> QED
  BY <1>1, <1>2, <1>3, <1>4, <1>5, <1>6, <1>7, VersionsSignIn
  DEF Next, HandlerStep, SignInStep
-----------------------------------------------------------------------------
(* Secrets: each is in one place, on its way from a setup to a pending and  *)
(* an enabled factor, and its codes are spent in the order of their steps.  *)

SecretsInv == SecretsApart /\ CodesInOrder /\ CodeUsedOnce

UnspentNext(k) == \A code \in Code : code.secret = k => accepted'[code] = 0

\* No secret moves: each stays with its factor and handler, or is gone.
SecretsStay ==
  /\ drawn' = drawn
  /\ \A u \in User :
       \/ factor'[u] = NoFactor
       \/ /\ factor'[u].enabled = factor[u].enabled
          /\ factor'[u].secret = factor[u].secret
          /\ factor'[u].pending = factor[u].pending
  /\ \A p \in Proc : op'[p].pc = "setup" => op'[p] = op[p]

LEMMA StayApart ==
  ASSUME TypeOK, SecretsApart, SecretsStay
  PROVE  SecretsApart'
<1>1. /\ \A u \in User : factor'[u].enabled <=> factor'[u].secret # NoSecret
      /\ \A u \in User : {factor'[u].secret, factor'[u].pending}
                            \subseteq drawn' \cup {NoSecret}
      /\ \A p \in Proc : op'[p].pc = "setup" => op'[p].secret \in drawn'
  BY Constants DEF SecretsApart, SecretsStay
<1>2. ASSUME NEW u \in User, NEW v \in User
      PROVE  /\ factor'[u].secret # NoSecret =>
                  /\ factor'[u].secret # factor'[v].pending
                  /\ factor'[u].secret = factor'[v].secret => u = v
             /\ factor'[u].pending # NoSecret
                /\ factor'[u].pending = factor'[v].pending => u = v
  BY Constants DEF SecretsApart, SecretsStay
<1>3. ASSUME NEW p \in Proc, NEW u \in User, op'[p].pc = "setup"
      PROVE  op'[p].secret \notin {factor'[u].secret, factor'[u].pending}
  <2>1. op'[p] = op[p] /\ op[p].pc = "setup"
    BY <1>3 DEF SecretsStay
  <2>2. op[p].secret \notin {factor[u].secret, factor[u].pending}
    BY <2>1 DEF SecretsApart
  <2>3. op[p].secret # NoSecret
    BY <2>1 DEF SecretsApart, TypeOK
  <2> QED
    BY <2>1, <2>2, <2>3, Constants DEF SecretsStay
<1>4. ASSUME NEW p \in Proc, NEW q \in Proc,
             op'[p].pc = "setup", op'[q].pc = "setup", op'[p].secret = op'[q].secret
      PROVE  p = q
  BY <1>4 DEF SecretsApart, SecretsStay
<1> QED
  BY <1>1, <1>2, <1>3, <1>4 DEF SecretsApart

LEMMA StayInOrder ==
  ASSUME TypeOK, SecretsInv, SecretsStay, accepted' = accepted,
         \A u \in User : factor'[u] = NoFactor
                         \/ factor'[u].lastUsed = factor[u].lastUsed
  PROVE  SecretsInv'
<1>1. SecretsApart'
  BY StayApart DEF SecretsInv
<1>2. /\ \A k \in Secret \ drawn' : UnspentNext(k)
      /\ \A p \in Proc : op'[p].pc = "setup" => UnspentNext(op[p].secret)
      /\ \A p \in Proc : op'[p].pc = "setup" => op'[p] = op[p]
  BY DEF SecretsInv, CodesInOrder, SecretsStay, Unspent, UnspentNext
<1>3. \A u \in User : factor'[u].pending # NoSecret => UnspentNext(factor'[u].pending)
  BY Constants DEF SecretsInv, CodesInOrder, SecretsStay, Unspent, UnspentNext
<1>4. ASSUME NEW u \in User, NEW code \in Code,
             code.secret = factor'[u].secret, accepted'[code] # 0
      PROVE  code.step <= factor'[u].lastUsed
  <2>1. factor'[u] # NoFactor
    BY <1>4, Constants DEF Code
  <2> QED
    BY <1>4, <2>1 DEF SecretsInv, CodesInOrder, SecretsStay
<1>5. CodesInOrder'
  BY <1>2, <1>3, <1>4 DEF CodesInOrder, Unspent, UnspentNext
<1>6. CodeUsedOnce'
  BY DEF SecretsInv, CodeUsedOnce
<1> QED
  BY <1>1, <1>5, <1>6 DEF SecretsInv

\* A code of the enabled factor that is accepted was never accepted before.
LEMMA AcceptedIsNew ==
  ASSUME TypeOK, SecretsInv, NEW u \in User, NEW code \in Code,
         Accepts(factor[u].secret, code, factor[u].lastUsed)
  PROVE  accepted[code] = 0
<1>1. code.secret = factor[u].secret /\ code.step > factor[u].lastUsed
  BY DEF Accepts
<1>2. code.step \in Nat /\ factor[u].lastUsed \in Nat
  BY DEF TypeOK, Code, Factor
<1> QED
  BY <1>1, <1>2 DEF SecretsInv, CodesInOrder

LEMMA SecretsBegin ==
  ASSUME TypeOK, SecretsInv, NEW p \in Proc, NEW u \in User, NEW k \in Secret,
         BeginSetup(p, u, k)
  PROVE  SecretsInv'
<1>1. /\ k \notin drawn /\ drawn' = drawn \cup {k} /\ k # NoSecret
      /\ factor' = factor /\ accepted' = accepted
      /\ op'[p].pc = "setup" /\ op'[p].secret = k
      /\ \A q \in Proc : q # p => op'[q] = op[q]
  BY DEF BeginSetup, TypeOK, history
<1>2. /\ \A v \in User : k \notin {factor[v].secret, factor[v].pending}
      /\ \A q \in Proc : op[q].pc = "setup" => op[q].secret # k
  BY <1>1 DEF SecretsInv, SecretsApart
<1>3. SecretsApart'
  BY <1>1, <1>2 DEF SecretsInv, SecretsApart
<1>4. Unspent(k)
  BY <1>1 DEF SecretsInv, CodesInOrder
<1>5. CodesInOrder'
  <2>1. \A j \in Secret \ drawn' : UnspentNext(j)
    BY <1>1 DEF SecretsInv, CodesInOrder, Unspent, UnspentNext
  <2>2. \A q \in Proc : op'[q].pc = "setup" => UnspentNext(op'[q].secret)
    BY <1>1, <1>4 DEF SecretsInv, CodesInOrder, Unspent, UnspentNext
  <2>3. \A v \in User : factor'[v].pending # NoSecret => UnspentNext(factor'[v].pending)
    BY <1>1 DEF SecretsInv, CodesInOrder, Unspent, UnspentNext
  <2> QED
    BY <1>1, <2>1, <2>2, <2>3 DEF SecretsInv, CodesInOrder, Unspent, UnspentNext
<1> QED
  BY <1>1, <1>3, <1>5 DEF SecretsInv, CodeUsedOnce

LEMMA SecretsStore ==
  ASSUME TypeOK, CopiesAreOlder, SecretsInv, NEW p \in Proc, StoreSetup(p)
  PROVE  SecretsInv'
<1>1. PICK u \in User, k \in Secret : u = op[p].user /\ k = op[p].secret
  BY DEF CopiesAreOlder, StoreSetup
<1>2. /\ op[p].pc = "setup" /\ op[p].secret = k
      /\ drawn' = drawn /\ accepted' = accepted
      /\ op'[p].pc = "idle" /\ \A q \in Proc : q # p => op'[q] = op[q]
  BY <1>1, Constants DEF StoreSetup, TypeOK, history
<1>3. /\ factor'[u].enabled = factor[u].enabled
      /\ factor'[u].secret = factor[u].secret
      /\ factor'[u].pending = k /\ factor'[u].lastUsed = factor[u].lastUsed
      /\ \A v \in User : v # u => factor'[v] = factor[v]
  BY <1>1 DEF StoreSetup, TypeOK, Factor
<1>4. /\ k \in drawn /\ k # NoSecret
      /\ \A v \in User : k \notin {factor[v].secret, factor[v].pending}
      /\ \A q \in Proc : op[q].pc = "setup" /\ q # p => op[q].secret # k
  BY <1>1, <1>2 DEF SecretsInv, SecretsApart
<1>5. SecretsApart'
  <2>1. /\ \A v \in User : factor'[v].enabled <=> factor'[v].secret # NoSecret
        /\ \A v \in User : {factor'[v].secret, factor'[v].pending}
                              \subseteq drawn' \cup {NoSecret}
        /\ \A q \in Proc : op'[q].pc = "setup" => op'[q].secret \in drawn'
    BY <1>2, <1>3, <1>4 DEF SecretsInv, SecretsApart
  <2>2. \A v \in User, w \in User :
          /\ factor'[v].secret # NoSecret =>
               /\ factor'[v].secret # factor'[w].pending
               /\ factor'[v].secret = factor'[w].secret => v = w
          /\ factor'[v].pending # NoSecret
             /\ factor'[v].pending = factor'[w].pending => v = w
    BY <1>3, <1>4 DEF SecretsInv, SecretsApart
  <2>3. \A q \in Proc, v \in User : op'[q].pc = "setup" =>
          op'[q].secret \notin {factor'[v].secret, factor'[v].pending}
    BY <1>2, <1>3, <1>4 DEF SecretsInv, SecretsApart
  <2>4. \A q \in Proc, r \in Proc :
          op'[q].pc = "setup" /\ op'[r].pc = "setup" /\ op'[q].secret = op'[r].secret
            => q = r
    BY <1>2 DEF SecretsInv, SecretsApart
  <2> QED
    BY <2>1, <2>2, <2>3, <2>4 DEF SecretsApart
<1>6. CodesInOrder'
  <2>1. Unspent(k)
    BY <1>1, <1>2 DEF SecretsInv, CodesInOrder
  <2>2. \A j \in Secret \ drawn' : UnspentNext(j)
    BY <1>2 DEF SecretsInv, CodesInOrder, Unspent, UnspentNext
  <2>3. \A q \in Proc : op'[q].pc = "setup" => UnspentNext(op'[q].secret)
    BY <1>2 DEF SecretsInv, CodesInOrder, Unspent, UnspentNext
  <2>4. \A v \in User : factor'[v].pending # NoSecret => UnspentNext(factor'[v].pending)
    BY <1>2, <1>3, <2>1 DEF SecretsInv, CodesInOrder, Unspent, UnspentNext
  <2>5. \A v \in User, code \in Code :
          code.secret = factor'[v].secret /\ accepted'[code] # 0
            => code.step <= factor'[v].lastUsed
    BY <1>2, <1>3 DEF SecretsInv, CodesInOrder
  <2> QED
    BY <2>2, <2>3, <2>4, <2>5 DEF CodesInOrder, Unspent, UnspentNext
<1> QED
  BY <1>2, <1>5, <1>6 DEF SecretsInv, CodeUsedOnce

LEMMA SecretsConfirm ==
  ASSUME TypeOK, SecretsInv, NEW u \in User, NEW code \in Code, ConfirmSetup(u, code)
  PROVE  SecretsInv'
<1>1. PICK k \in Secret : k = factor[u].pending
  BY DEF ConfirmSetup, TypeOK, Factor
<1>2. /\ code.secret = k /\ code.step \in Nat /\ k # NoSecret
      /\ drawn' = drawn /\ op' = op
      /\ accepted' = [accepted EXCEPT ![code] = @ + 1]
  BY <1>1 DEF ConfirmSetup, Accepts, Code
<1>3. /\ factor'[u].enabled = TRUE /\ factor'[u].secret = k
      /\ factor'[u].pending = NoSecret /\ factor'[u].lastUsed = code.step
      /\ \A v \in User : v # u => factor'[v] = factor[v]
  <2>1. factor' = [factor EXCEPT ![u] = Enabled(k, code.step)]
    BY <1>1 DEF ConfirmSetup, Enabled
  <2>2. /\ factor'[u] = Enabled(k, code.step)
        /\ \A v \in User : v # u => factor'[v] = factor[v]
    BY <2>1 DEF TypeOK
  <2>3. /\ Enabled(k, code.step).secret = k
        /\ Enabled(k, code.step).pending = NoSecret
        /\ Enabled(k, code.step).enabled = TRUE
        /\ Enabled(k, code.step).lastUsed = code.step
    <3>1. code.step \in Nat
      BY <1>2
    <3> QED
      BY <3>1, EnabledFields
  <2> QED
    BY <2>2, <2>3
<1>4. /\ k \in drawn
      /\ \A v \in User : v # u => k \notin {factor[v].secret, factor[v].pending}
      /\ \A q \in Proc : op[q].pc = "setup" => op[q].secret # k
  BY <1>1, <1>2 DEF SecretsInv, SecretsApart
<1>5. SecretsApart'
  <2>1. /\ \A v \in User : factor'[v].enabled <=> factor'[v].secret # NoSecret
        /\ \A v \in User : {factor'[v].secret, factor'[v].pending}
                              \subseteq drawn' \cup {NoSecret}
        /\ \A q \in Proc : op'[q].pc = "setup" => op'[q].secret \in drawn'
    BY <1>2, <1>3, <1>4 DEF SecretsInv, SecretsApart
  <2>2. ASSUME NEW v \in User, NEW w \in User
        PROVE  /\ factor'[v].secret # NoSecret =>
                    /\ factor'[v].secret # factor'[w].pending
                    /\ factor'[v].secret = factor'[w].secret => v = w
               /\ factor'[v].pending # NoSecret
                  /\ factor'[v].pending = factor'[w].pending => v = w
    BY <1>3, <1>4 DEF SecretsInv, SecretsApart
  <2>3. \A q \in Proc, v \in User : op'[q].pc = "setup" =>
          op'[q].secret \notin {factor'[v].secret, factor'[v].pending}
    <3> SUFFICES ASSUME NEW q \in Proc, NEW v \in User, op'[q].pc = "setup"
                 PROVE  op'[q].secret \notin {factor'[v].secret, factor'[v].pending}
      OBVIOUS
    <3>1. /\ op[q].pc = "setup" /\ op'[q].secret = op[q].secret
          /\ op[q].secret # k /\ op[q].secret \in Secret
      BY <1>2, <1>4 DEF SecretsInv, SecretsApart, TypeOK
    <3> QED
      BY <1>3, <3>1 DEF SecretsInv, SecretsApart
  <2>4. \A q \in Proc, r \in Proc :
          op'[q].pc = "setup" /\ op'[r].pc = "setup" /\ op'[q].secret = op'[r].secret
            => q = r
    BY <1>2 DEF SecretsInv, SecretsApart
  <2> QED
    BY <2>1, <2>2, <2>3, <2>4 DEF SecretsApart
<1>6. Unspent(k)
  BY <1>1, <1>2 DEF SecretsInv, CodesInOrder
<1>7. /\ accepted[code] = 0 /\ accepted'[code] = 1
      /\ \A d \in Code : d # code => accepted'[d] = accepted[d]
  BY <1>2, <1>6 DEF Unspent, UnspentNext, TypeOK
<1>8. \A j \in Secret : j # k /\ Unspent(j) => UnspentNext(j)
  BY <1>2, <1>7 DEF Unspent, UnspentNext
<1>9. CodesInOrder'
  <2>1. \A j \in Secret \ drawn' : UnspentNext(j)
    BY <1>2, <1>4, <1>8 DEF SecretsInv, CodesInOrder
  <2>2. ASSUME NEW q \in Proc, op'[q].pc = "setup"
        PROVE  UnspentNext(op'[q].secret)
    <3>1. op[q].pc = "setup" /\ op[q].secret \in Secret /\ op[q].secret # k
      BY <1>2, <1>4, <2>2 DEF SecretsInv, SecretsApart, TypeOK
    <3> QED
      BY <1>2, <1>7, <3>1 DEF SecretsInv, CodesInOrder, Unspent, UnspentNext
  <2>3. ASSUME NEW v \in User, factor'[v].pending # NoSecret
        PROVE  UnspentNext(factor'[v].pending)
    <3>1. v # u /\ factor'[v] = factor[v] /\ factor[v].pending # k
      BY <1>3, <1>4, <2>3
    <3> QED
      BY <1>2, <1>7, <2>3, <3>1 DEF SecretsInv, CodesInOrder, Unspent, UnspentNext
  <2>4. ASSUME NEW v \in User, NEW d \in Code,
               d.secret = factor'[v].secret, accepted'[d] # 0
        PROVE  d.step <= factor'[v].lastUsed
    <3>1. CASE v = u
      BY <1>2, <1>3, <1>6, <1>7, <2>4, <3>1 DEF Unspent, UnspentNext, Code
    <3>2. CASE v # u
      BY <1>2, <1>3, <1>4, <1>7, <2>4, <3>2 DEF SecretsInv, CodesInOrder
    <3> QED
      BY <3>1, <3>2
  <2> QED
    BY <2>1, <2>2, <2>3, <2>4 DEF CodesInOrder, Unspent, UnspentNext
<1> QED
  BY <1>5, <1>7, <1>9 DEF SecretsInv, CodeUsedOnce

\* The secret of an enabled factor is nowhere else.
LEMMA SecretElsewhere ==
  ASSUME SecretsApart, NEW u \in User, NEW k \in Secret, k = factor[u].secret
  PROVE  /\ k \in drawn
         /\ \A v \in User : v # u => factor[v].secret # k
         /\ \A v \in User : factor[v].pending # k
         /\ \A q \in Proc : op[q].pc = "setup" => op[q].secret # k
<1>1. k # NoSecret /\ k \in drawn
  BY DEF SecretsApart
<1>2. \A v \in User : v # u => factor[v].secret # k
  BY <1>1 DEF SecretsApart
<1>3. \A v \in User : factor[v].pending # k
  BY <1>1 DEF SecretsApart
<1>4. \A q \in Proc : op[q].pc = "setup" => op[q].secret # k
  BY <1>1 DEF SecretsApart
<1> QED
  BY <1>1, <1>2, <1>3, <1>4

LEMMA SecretsDisable ==
  ASSUME TypeOK, SecretsInv, NEW u \in User, NEW code \in Code, Disable(u, code)
  PROVE  SecretsInv'
<1>1. PICK k \in Secret : k = factor[u].secret /\ k = code.secret
  BY DEF Disable, Accepts, Code
<1>2. /\ k # NoSecret /\ accepted[code] = 0
      /\ drawn' = drawn /\ op' = op /\ factor'[u] = NoFactor
      /\ \A v \in User : v # u => factor'[v] = factor[v]
  BY <1>1, AcceptedIsNew DEF Disable, TypeOK
<1>3. accepted'[code] = 1 /\ \A d \in Code : d # code => accepted'[d] = accepted[d]
  BY <1>2 DEF Disable, TypeOK
<1>4. SecretsApart'
  BY <1>2, StayApart DEF SecretsInv, SecretsStay
<1>5. /\ k \in drawn
      /\ \A v \in User : v # u => k \notin {factor[v].secret, factor[v].pending}
      /\ \A q \in Proc : op[q].pc = "setup" => op[q].secret # k
  BY <1>1, <1>2, SecretElsewhere DEF SecretsInv
<1>6. CodesInOrder'
  <2>1. \A j \in Secret \ drawn' : UnspentNext(j)
    BY <1>1, <1>2, <1>3, <1>5 DEF SecretsInv, CodesInOrder, Unspent, UnspentNext
  <2>2. \A q \in Proc : op'[q].pc = "setup" => UnspentNext(op'[q].secret)
    BY <1>1, <1>2, <1>3, <1>5 DEF SecretsInv, CodesInOrder, Unspent, UnspentNext
  <2>3. ASSUME NEW v \in User, factor'[v].pending # NoSecret
        PROVE  UnspentNext(factor'[v].pending)
    <3>1. v # u /\ factor'[v] = factor[v] /\ factor[v].pending # k
      BY <1>2, <1>5, <2>3, Constants
    <3> QED
      BY <1>1, <1>3, <2>3, <3>1 DEF SecretsInv, CodesInOrder, Unspent, UnspentNext
  <2>4. ASSUME NEW v \in User, NEW d \in Code,
               d.secret = factor'[v].secret, accepted'[d] # 0
        PROVE  d.step <= factor'[v].lastUsed
    <3>1. d.secret \in Secret
      BY DEF Code
    <3>2. v # u /\ factor'[v] = factor[v]
      BY <1>2, <2>4, <3>1, Constants
    <3> QED
      BY <1>1, <1>3, <1>5, <2>4, <3>2 DEF SecretsInv, CodesInOrder
  <2> QED
    BY <2>1, <2>2, <2>3, <2>4 DEF CodesInOrder, Unspent, UnspentNext
<1> QED
  BY <1>3, <1>4, <1>6 DEF SecretsInv, CodeUsedOnce

LEMMA SecretsComplete ==
  ASSUME TypeOK, SecretsInv, NEW p \in Proc, NEW c \in Challenge, NEW code \in Code,
         CompleteLoginChallenge(p, c, code)
  PROVE  SecretsInv'
<1>1. PICK u \in User : u = challenge[c].user
  BY DEF CompleteLoginChallenge, MayAnswer, Row
<1>2. PICK k \in Secret : k = factor[u].secret /\ k = code.secret
  BY <1>1 DEF CompleteLoginChallenge, Accepts, Code
<1>3. /\ code.step > factor[u].lastUsed /\ code.step \in Nat
      /\ factor[u].lastUsed \in Nat /\ k # NoSecret
      /\ accepted[code] = 0 /\ drawn' = drawn
      /\ \A q \in Proc : op'[q].pc = "setup" => op'[q] = op[q]
  BY <1>1, <1>2, AcceptedIsNew
  DEF CompleteLoginChallenge, Accepts, TypeOK, Factor, Code
<1>4. /\ factor'[u].enabled = factor[u].enabled
      /\ factor'[u].secret = k /\ factor'[u].pending = factor[u].pending
      /\ factor'[u].lastUsed = code.step
      /\ \A v \in User : v # u => factor'[v] = factor[v]
  BY <1>1, <1>2 DEF CompleteLoginChallenge, TypeOK, Factor
<1>5. accepted'[code] = 1 /\ \A d \in Code : d # code => accepted'[d] = accepted[d]
  BY <1>3 DEF CompleteLoginChallenge, TypeOK
<1>6. SecretsApart'
  BY <1>2, <1>3, <1>4, StayApart DEF SecretsInv, SecretsStay
<1>7. /\ k \in drawn
      /\ \A v \in User : v # u => factor[v].secret # k
      /\ \A v \in User : factor[v].pending # k
      /\ \A q \in Proc : op[q].pc = "setup" => op[q].secret # k
  BY <1>2, <1>3, SecretElsewhere DEF SecretsInv
<1>8. CodesInOrder'
  <2>1. \A j \in Secret \ drawn' : UnspentNext(j)
    BY <1>2, <1>3, <1>5, <1>7 DEF SecretsInv, CodesInOrder, Unspent, UnspentNext
  <2>2. ASSUME NEW q \in Proc, op'[q].pc = "setup"
        PROVE  UnspentNext(op'[q].secret)
    BY <1>2, <1>3, <1>5, <1>7, <2>2 DEF SecretsInv, CodesInOrder, Unspent, UnspentNext
  <2>3. ASSUME NEW v \in User, factor'[v].pending # NoSecret
        PROVE  UnspentNext(factor'[v].pending)
    <3>1. factor'[v].pending = factor[v].pending /\ factor[v].pending # k
      BY <1>4, <1>7
    <3> QED
      BY <1>2, <1>5, <2>3, <3>1 DEF SecretsInv, CodesInOrder, Unspent, UnspentNext
  <2>4. ASSUME NEW v \in User, NEW d \in Code,
               d.secret = factor'[v].secret, accepted'[d] # 0
        PROVE  d.step <= factor'[v].lastUsed
    <3>1. CASE v = u /\ d = code
      BY <1>3, <1>4, <3>1
    <3>2. CASE v = u /\ d # code
      <4>1. d.secret = factor[u].secret /\ accepted[d] # 0
        BY <1>2, <1>4, <1>5, <2>4, <3>2
      <4>2. d.step <= factor[u].lastUsed
        BY <4>1 DEF SecretsInv, CodesInOrder
      <4>3. d.step \in Nat
        BY DEF Code
      <4> QED
        BY <1>3, <1>4, <3>2, <4>2, <4>3
    <3>3. CASE v # u
      BY <1>2, <1>4, <1>5, <1>7, <2>4, <3>3 DEF SecretsInv, CodesInOrder
    <3> QED
      BY <3>1, <3>2, <3>3
  <2> QED
    BY <2>1, <2>2, <2>3, <2>4 DEF CodesInOrder, Unspent, UnspentNext
<1> QED
  BY <1>5, <1>6, <1>8 DEF SecretsInv, CodeUsedOnce

LEMMA SecretsStep ==
  ASSUME TypeOK, CopiesAreOlder, SecretsInv, Next
  PROVE  SecretsInv'
<1>1. ASSUME NEW p \in Proc, SignInStep(p)
      PROVE  SecretsInv'
  <2>1. drawn' = drawn /\ factor' = factor /\ accepted' = accepted
    BY <1>1 DEF SignInStep, VerifyPassword, CheckFactor, RecheckFactor, Grant,
                IssueToken, Fail, history
  <2>2. \A q \in Proc : q # p => op'[q] = op[q]
    BY <1>1 DEF SignInStep, VerifyPassword, CheckFactor, RecheckFactor, Grant,
                IssueToken, Fail, TypeOK
  <2>3. op'[p].pc # "setup"
    BY <1>1, Constants DEF SignInStep, VerifyPassword, CheckFactor, RecheckFactor,
                           Grant, IssueToken, Fail, TypeOK, Op
  <2> QED
    BY <2>1, <2>2, <2>3, StayInOrder DEF SecretsStay
<1>2. ASSUME NEW p \in Proc, NEW c \in Challenge, CreateLoginChallenge(p, c)
      PROVE  SecretsInv'
  <2>1. /\ drawn' = drawn /\ factor' = factor /\ accepted' = accepted
        /\ op'[p].pc # "setup" /\ \A q \in Proc : q # p => op'[q] = op[q]
    BY <1>2, Constants DEF CreateLoginChallenge, history, TypeOK
  <2> QED
    BY <2>1, StayInOrder DEF SecretsStay
<1>3. ASSUME NEW c \in Challenge, RefuseCode(c)
      PROVE  SecretsInv'
  BY <1>3, StayInOrder DEF RefuseCode, SecretsStay
<1>4. CASE Tick
  BY <1>4, StayInOrder DEF Tick, SecretsStay, history
<1>5. ASSUME NEW u \in User, ResetTwoFactor(u)
      PROVE  SecretsInv'
  <2>1. /\ drawn' = drawn /\ op' = op /\ accepted' = accepted
        /\ factor' = [factor EXCEPT ![u] = NoFactor]
    BY <1>5 DEF ResetTwoFactor, history
  <2> QED
    BY <2>1, StayInOrder DEF SecretsStay, TypeOK
<1>6. ASSUME NEW u \in User, InvalidateSessions(u)
      PROVE  SecretsInv'
  BY <1>6, StayInOrder DEF InvalidateSessions, SecretsStay, history
<1> QED
  BY <1>1, <1>2, <1>3, <1>4, <1>5, <1>6, SecretsBegin, SecretsStore,
     SecretsConfirm, SecretsDisable, SecretsComplete
  DEF Next, HandlerStep, FactorStep, SignInStep
-----------------------------------------------------------------------------
(* Challenges: what was tried and completed is what the row says, until the *)
(* row is deleted for good.                                                 *)

ChallengesInv == ChallengeCounts /\ ChallengeBounded

\* Challenges are deleted at most.
LEMMA ChallengesDeleted ==
  ASSUME TypeOK, ChallengesInv, guessed' = guessed, completed' = completed,
         \A c \in Challenge : challenge'[c] \in {challenge[c], Deleted}
  PROVE  ChallengesInv'
  BY DEF ChallengesInv, ChallengeCounts, ChallengeBounded

\* One more code is tried.
LEMMA CodeTried ==
  ASSUME TypeOK, ChallengesInv, NEW c \in Challenge, MayAnswer(c),
         NEW done \in {0, 1}, challenge'[c] \in Row,
         challenge'[c].attempts = challenge[c].attempts + 1,
         challenge'[c].used <=> done = 1,
         \A d \in Challenge : d # c => challenge'[d] = challenge[d],
         guessed' = [guessed EXCEPT ![c] = @ + 1],
         completed' = [completed EXCEPT ![c] = @ + done]
  PROVE  ChallengesInv'
<1>1. /\ challenge[c] \in Row /\ ~challenge[c].used
      /\ challenge[c].attempts < MaxAttempts
  BY DEF MayAnswer
<1>2. /\ guessed[c] = challenge[c].attempts /\ completed[c] = 0
      /\ challenge[c].attempts \in Nat
  BY <1>1 DEF ChallengesInv, ChallengeCounts, Row
<1>3. /\ guessed'[c] = challenge[c].attempts + 1 /\ completed'[c] = done
      /\ \A d \in Challenge : d # c => /\ guessed'[d] = guessed[d]
                                       /\ completed'[d] = completed[d]
  BY <1>2 DEF TypeOK
<1>4. ChallengeCounts'
  <2>1. completed'[c] = IF challenge'[c].used THEN 1 ELSE 0
    BY <1>3
  <2> QED
    BY <1>3, <2>1 DEF ChallengesInv, ChallengeCounts
<1>5. ChallengeBounded'
  <2>1. guessed'[c] <= MaxAttempts /\ completed'[c] <= 1
    BY <1>1, <1>2, <1>3
  <2> QED
    BY <1>3, <2>1 DEF ChallengesInv, ChallengeBounded
<1> QED
  BY <1>4, <1>5 DEF ChallengesInv

LEMMA ChallengesStep ==
  ASSUME TypeOK, CopiesAreOlder, ChallengesInv, Next
  PROVE  ChallengesInv'
<1>1. ASSUME NEW p \in Proc, NEW c \in Challenge, CreateLoginChallenge(p, c)
      PROVE  ChallengesInv'
  <2>1. /\ challenge[c] = NoChallenge /\ guessed' = guessed /\ completed' = completed
        /\ challenge'[c].attempts = 0 /\ challenge'[c].used = FALSE
        /\ challenge'[c] \in Row
    <3>1. [user |-> op[p].user, expires |-> now + ChallengeTTL, attempts |-> 0,
           used |-> FALSE] \in Row
      BY <1>1 DEF CreateLoginChallenge, TypeOK, CopiesAreOlder, Row
    <3> QED
      BY <1>1, <3>1 DEF CreateLoginChallenge, history, TypeOK
  <2>2. \A d \in Challenge : d # c => challenge'[d] \in {challenge[d], Deleted}
    BY <1>1 DEF CreateLoginChallenge
  <2>3. guessed[c] = 0 /\ completed[c] = 0
    BY <2>1 DEF ChallengesInv, ChallengeCounts
  <2>4. ChallengeCounts'
    <3>1. ASSUME NEW d \in Challenge
          PROVE  /\ challenge'[d] = NoChallenge => guessed'[d] = 0 /\ completed'[d] = 0
                 /\ challenge'[d] \in Row =>
                      /\ guessed'[d] = challenge'[d].attempts
                      /\ completed'[d] = IF challenge'[d].used THEN 1 ELSE 0
      <4>1. CASE d = c
        BY <2>1, <2>3, <4>1
      <4>2. CASE challenge'[d] = Deleted
        BY <4>2
      <4>3. CASE d # c /\ challenge'[d] = challenge[d]
        BY <2>1, <4>3 DEF ChallengesInv, ChallengeCounts
      <4> QED
        BY <2>2, <4>1, <4>2, <4>3
    <3> QED
      BY <3>1 DEF ChallengeCounts
  <2> QED
    BY <2>1, <2>4 DEF ChallengesInv, ChallengeBounded
<1>2. ASSUME NEW p \in Proc, NEW c \in Challenge, NEW code \in Code,
             CompleteLoginChallenge(p, c, code)
      PROVE  ChallengesInv'
  <2>1. /\ MayAnswer(c)
        /\ challenge' = [challenge EXCEPT ![c].used = TRUE, ![c].attempts = @ + 1]
        /\ guessed' = [guessed EXCEPT ![c] = @ + 1]
        /\ completed' = [completed EXCEPT ![c] = @ + 1]
    BY <1>2 DEF CompleteLoginChallenge
  <2>2. /\ challenge'[c].attempts = challenge[c].attempts + 1
        /\ challenge'[c].used = TRUE
        /\ \A d \in Challenge : d # c => challenge'[d] = challenge[d]
        /\ challenge'[c] \in Row
    <3>1. challenge[c] \in Row /\ challenge[c].attempts + 1 \in 0..MaxAttempts
      BY <2>1 DEF MayAnswer, Row
    <3>2. challenge'[c] = [challenge[c] EXCEPT !.used = TRUE, !.attempts = @ + 1]
      BY <2>1 DEF TypeOK
    <3> QED
      BY <2>1, <3>1, <3>2 DEF TypeOK, Row
  <2> QED
    BY <2>1, <2>2, CodeTried
<1>3. ASSUME NEW c \in Challenge, RefuseCode(c)
      PROVE  ChallengesInv'
  <2>1. /\ MayAnswer(c)
        /\ challenge' = [challenge EXCEPT ![c].attempts = @ + 1]
        /\ guessed' = [guessed EXCEPT ![c] = @ + 1]
        /\ completed' = completed
    BY <1>3 DEF RefuseCode
  <2>2. /\ challenge'[c].attempts = challenge[c].attempts + 1
        /\ challenge'[c].used = challenge[c].used /\ ~challenge[c].used
        /\ \A d \in Challenge : d # c => challenge'[d] = challenge[d]
        /\ challenge'[c] \in Row
    <3>1. /\ challenge[c] \in Row /\ challenge[c].attempts + 1 \in 0..MaxAttempts
          /\ ~challenge[c].used
      BY <2>1 DEF MayAnswer, Row
    <3> QED
      BY <2>1, <3>1 DEF TypeOK, Row
  <2>3. completed' = [completed EXCEPT ![c] = @ + 0]
    BY <2>1 DEF TypeOK
  <2>4. challenge'[c].used <=> 0 = 1
    BY <2>2
  <2> QED
    BY <2>1, <2>2, <2>3, <2>4, CodeTried
<1>4. ASSUME NEW u \in User, ResetTwoFactor(u)
      PROVE  ChallengesInv'
  BY <1>4, ChallengesDeleted DEF ResetTwoFactor, history
<1>5. ASSUME UNCHANGED <<challenge, guessed, completed>>
      PROVE  ChallengesInv'
  BY <1>5 DEF ChallengesInv, ChallengeCounts, ChallengeBounded
<1> QED
  BY <1>1, <1>2, <1>3, <1>4, <1>5
  DEF Next, HandlerStep, FactorStep, VerifyPassword, BeginSetup, Grant, CheckFactor,
      RecheckFactor, IssueToken, StoreSetup, Fail, ConfirmSetup, Disable,
      InvalidateSessions, Tick, history

-----------------------------------------------------------------------------
LEMMA TwoFactorInit ==
  ASSUME Init
  PROVE  TwoFactorInv
<1>1. TypeOK
  BY Constants DEF Init, TypeOK
<1>2. \A p \in Proc : op[p].pc = "idle"
  BY Constants DEF Init
<1>3. /\ \A u \in User : factor[u] = NoFactor
      /\ \A code \in Code : accepted[code] = 0
      /\ \A c \in Challenge : /\ challenge[c] = NoChallenge
                              /\ guessed[c] = 0 /\ completed[c] = 0
      /\ tokens = {}
  BY DEF Init
<1>4. SecretsInv
  BY <1>2, <1>3, Constants
  DEF SecretsInv, SecretsApart, CodesInOrder, CodeUsedOnce, Unspent, Code
<1>5. ChallengesInv
  BY <1>3 DEF ChallengesInv, ChallengeCounts, ChallengeBounded
<1>6. VersionsInv
  BY <1>2, <1>3 DEF VersionsInv, CopiesAreOlder, IssuesEnforced, SecondFactorEnforced
<1> QED
  BY <1>1, <1>4, <1>5, <1>6 DEF TwoFactorInv, SecretsInv, ChallengesInv, VersionsInv

LEMMA TwoFactorNext ==
  ASSUME TwoFactorInv, [Next]_vars
  PROVE  TwoFactorInv'
<1>1. TypeOK /\ SecretsInv /\ ChallengesInv /\ VersionsInv /\ CopiesAreOlder
  BY DEF TwoFactorInv, SecretsInv, ChallengesInv, VersionsInv
<1>2. CASE Next
  <2>1. TypeOK' /\ SecretsInv' /\ ChallengesInv' /\ VersionsInv'
    BY <1>1, <1>2, TypeStep, SecretsStep, ChallengesStep, VersionsStep
  <2> QED
    BY <2>1 DEF TwoFactorInv, SecretsInv, ChallengesInv, VersionsInv
<1>3. CASE UNCHANGED vars
  <2>1. TypeOK'
    BY <1>1, <1>3 DEF TypeOK, vars
  <2>2. SecretsInv'
    BY <1>1, <1>3 DEF SecretsInv, SecretsApart, CodesInOrder, CodeUsedOnce, Unspent, vars
  <2>3. ChallengesInv' /\ VersionsInv'
    BY <1>1, <1>3 DEF ChallengesInv, ChallengeCounts, ChallengeBounded, VersionsInv,
       CopiesAreOlder, IssuesEnforced, SecondFactorEnforced, vars
  <2> QED
    BY <2>1, <2>2, <2>3 DEF TwoFactorInv, SecretsInv, ChallengesInv, VersionsInv
<1> QED
  BY <1>2, <1>3

\* The inductive invariant of the second factor (TwoFactorInv), for any number
\* of users, secrets, challenges and handlers.
THEOREM TwoFactorInvariant == Spec => []TwoFactorInv
  BY TwoFactorInit, TwoFactorNext, PTL DEF Spec

\* No code is accepted twice (CodeUsedOnce; verifyTOTP and last_used_step).
THEOREM CodeAcceptedAtMostOnce == Spec => []CodeUsedOnce
<1>1. TwoFactorInv => CodeUsedOnce
  BY DEF TwoFactorInv
<1> QED
  BY <1>1, TwoFactorInvariant, PTL

\* A challenge admits MaxAttempts codes and one completion (ChallengeBounded;
\* CompleteLoginChallenge).
THEOREM ChallengeAlwaysBounded == Spec => []ChallengeBounded
<1>1. TwoFactorInv => ChallengeBounded
  BY DEF TwoFactorInv
<1> QED
  BY <1>1, TwoFactorInvariant, PTL

\* Every accepted session of a user with an enabled factor goes back to a code
\* of that factor (SecondFactorEnforced; api/login.go, bumpAuthVersionAndRevoke).
THEOREM SecondFactorAlwaysEnforced == Spec => []SecondFactorEnforced
<1>1. TwoFactorInv => SecondFactorEnforced
  BY DEF TwoFactorInv
<1> QED
  BY <1>1, TwoFactorInvariant, PTL

-----------------------------------------------------------------------------
(* What SignIn allows.  The handlers' steps are its permit steps, or steps   *)
(* that leave permits alone; each step is compared in what it maps to.       *)

LEMMA MappedAlike ==
  /\ UsersKept => Protection' = Protection
  /\ version' = version /\ tokens' = tokens => Sessions' = Sessions
  /\ accepted' = accepted => Spent' = Spent
  /\ UNCHANGED <<challenge, guessed, completed>> => Left' = Left
  BY DEF UsersKept, Protection, Sessions, Current, Spent, Left

LEMMA PermitsAre ==
  /\ Permits = [p \in Proc |-> IF Permitted(p) THEN Pass(op[p].user, op[p].secret)
                               ELSE Promise!NoPermit]
  /\ Permits' = [p \in Proc |-> IF Permitted(p)' THEN Pass(op'[p].user, op'[p].secret)
                                ELSE Promise!NoPermit]
  BY DEF Permits, Pass, Promise!NoPermit, Promise!Pass

\* The user of a handler that may issue is one.
LEMMA PermitsOfUsers ==
  ASSUME VersionsInv
  PROVE  \A p \in Proc : /\ Permits[p] = Promise!NoPermit <=> ~Permitted(p)
                         /\ \A u \in User : Permits[p].user = u
                              <=> Permitted(p) /\ op[p].user = u
<1> SUFFICES ASSUME NEW p \in Proc
             PROVE  /\ Permits[p] = Promise!NoPermit <=> ~Permitted(p)
                    /\ \A u \in User : Permits[p].user = u
                         <=> Permitted(p) /\ op[p].user = u
  OBVIOUS
<1>1. Permitted(p) => op[p].user \in User
  BY DEF VersionsInv, CopiesAreOlder, Permitted
<1>2. CASE Permitted(p)
  <2>1. Permits[p] = Pass(op[p].user, op[p].secret)
    BY <1>2, PermitsAre
  <2>2. Permits[p].user = op[p].user /\ Promise!NoPermit.user = NoUser
    BY <2>1 DEF Pass, Promise!NoPermit, Promise!Pass
  <2> QED
    BY <1>1, <1>2, <2>2
<1>3. CASE ~Permitted(p)
  <2>1. Permits[p] = Promise!NoPermit
    BY <1>3, PermitsAre
  <2>2. Permits[p].user = NoUser
    BY <2>1 DEF Promise!NoPermit, Promise!Pass
  <2> QED
    BY <1>3, <2>1, <2>2
<1> QED
  BY <1>2, <1>3

\* What a challenge still takes.
LEMMA LeftIs ==
  \A c \in Challenge :
    /\ Left[c] = IF challenge[c] = Deleted \/ completed[c] # 0 THEN 0
                 ELSE MaxAttempts - guessed[c]
    /\ Left'[c] = IF challenge'[c] = Deleted \/ completed'[c] # 0 THEN 0
                  ELSE MaxAttempts - guessed'[c]
  BY DEF Left

LEMMA OthersPermits ==
  ASSUME version' = version, NEW p \in Proc, \A q \in Proc : q # p => op'[q] = op[q]
  PROVE  /\ \A q \in Proc : q # p => Permits'[q] = Permits[q]
         /\ Permits' = [Permits EXCEPT ![p] = Permits'[p]]
  BY DEF Permits, Permitted

LEMMA LeftFits ==
  ASSUME TypeOK', ChallengesInv'
  PROVE  Left' \in [Challenge -> 0..MaxAttempts]
<1>1. \A c \in Challenge : guessed'[c] \in 0..MaxAttempts
  BY DEF TypeOK, ChallengesInv, ChallengeBounded
<1>2. \A c \in Challenge : Left'[c] \in 0..MaxAttempts
  BY <1>1, LeftIs
<1> QED
  BY <1>2 DEF Left

LEMMA AnswerableIsLeft ==
  ASSUME TypeOK, ChallengesInv, NEW c \in Challenge, MayAnswer(c)
  PROVE  Left[c] = MaxAttempts - guessed[c] /\ Left[c] > 0 /\ completed[c] = 0
         /\ challenge[c] # Deleted
<1>1. /\ challenge[c] \in Row /\ challenge[c] # Deleted /\ ~challenge[c].used
      /\ challenge[c].attempts < MaxAttempts
  BY DEF MayAnswer
<1>2. guessed[c] = challenge[c].attempts /\ completed[c] = 0
  BY <1>1 DEF ChallengesInv, ChallengeCounts
<1>3. challenge[c].attempts \in Nat
  BY <1>1 DEF Row
<1> QED
  BY <1>1, <1>2, <1>3, LeftIs

-----------------------------------------------------------------------------
\* A handler that does not issue afterwards has dropped what it might have had.
LEMMA HandlerDrops ==
  ASSUME UsersKept, UNCHANGED <<tokens, accepted, challenge, guessed, completed>>,
         NEW p \in Proc, \A q \in Proc : q # p => op'[q] = op[q], ~Permitted(p)'
  PROVE  Promise!SignInNext
<1>1. Permits' = [Permits EXCEPT ![p] = Promise!NoPermit]
  BY OthersPermits, PermitsAre DEF UsersKept
<1>2. Protection' = Protection /\ Sessions' = Sessions /\ Spent' = Spent /\ Left' = Left
  BY MappedAlike DEF UsersKept
<1>3. Promise!Drop(p)
  BY <1>1, <1>2 DEF Promise!Drop
<1> QED
  BY <1>2, <1>3 DEF Promise!SignInNext, Promise!PermitStep

\* CheckFactor lets a sign-in without a code pass where the user has no factor.
LEMMA CheckAllows ==
  ASSUME TypeOK, SecretsInv, VersionsInv, NEW p \in Proc, CheckFactor(p)
  PROVE  Promise!SignInNext
<1>1. /\ UsersKept /\ UNCHANGED <<tokens, accepted, challenge, guessed, completed>>
      /\ \A q \in Proc : q # p => op'[q] = op[q]
      /\ op[p].pc = "verified"
      /\ op'[p] = [op[p] EXCEPT !.pc = IF factor[op[p].user].enabled
                                         THEN "challenge" ELSE "issue"]
  BY DEF CheckFactor, UsersKept, TypeOK, history
<1>2. op[p].user \in User /\ op[p].secret = NoSecret
  BY <1>1 DEF VersionsInv, CopiesAreOlder
<1>3. CASE ~Permitted(p)'
  BY <1>1, <1>3, HandlerDrops
<1>4. CASE Permitted(p)'
  <2> DEFINE u == op[p].user
  <2>1. op'[p].pc = "issue" /\ op'[p].user = u /\ op'[p].secret = NoSecret
    BY <1>1, <1>2, <1>4 DEF Permitted, TypeOK, Op
  <2>2. ~factor[u].enabled
    BY <1>1, <2>1 DEF TypeOK, Op
  <2>3. Protection[u] = NoSecret
    BY <1>2, <2>2 DEF Protection, SecretsInv, SecretsApart
  <2>4. Permits' = [Permits EXCEPT ![p] = Pass(u, NoSecret)] /\ Permits[p] = Promise!NoPermit
    <3>1. ~Permitted(p) /\ version' = version
      BY <1>1 DEF Permitted, UsersKept
    <3>2. Permits'[p] = Pass(op'[p].user, op'[p].secret) /\ Permits[p] = Promise!NoPermit
      BY <1>4, <3>1, PermitsAre
    <3>3. Permits' = [Permits EXCEPT ![p] = Permits'[p]]
      BY <1>1, <3>1, OthersPermits
    <3> HIDE DEF u
    <3>4. op'[p].user = u
      BY <2>1
    <3> QED
      BY <2>1, <3>2, <3>3, <3>4
  <2>5. Protection' = Protection /\ Sessions' = Sessions /\ Spent' = Spent /\ Left' = Left
    BY <1>1, MappedAlike DEF UsersKept
  <2>6. Promise!Allow(p, u)
    BY <2>3, <2>4, <2>5 DEF Promise!Allow, Promise!Permit, Promise!Pass, Pass
  <2> QED
    BY <1>2, <2>5, <2>6 DEF Promise!SignInNext, Promise!PermitStep
<1> QED
  BY <1>3, <1>4

\* A right code, which nothing was done with before, opens the way to a session.
LEMMA CompleteAnswers ==
  ASSUME TypeOK, SecretsInv, ChallengesInv, VersionsInv,
         NEW p \in Proc, NEW c \in Challenge, NEW code \in Code,
         CompleteLoginChallenge(p, c, code)
  PROVE  Promise!SignInNext
<1> DEFINE u == challenge[c].user
           k == factor[u].secret
<1>1. /\ MayAnswer(c) /\ op[p].pc = "idle"
      /\ Accepts(k, code, factor[u].lastUsed)
      /\ factor' = [factor EXCEPT ![u].lastUsed = code.step]
      /\ op' = [op EXCEPT ![p] = [pc |-> "issue", user |-> u, version |-> version[u], secret |-> k]]
      /\ accepted' = [accepted EXCEPT ![code] = @ + 1]
      /\ guessed' = [guessed EXCEPT ![c] = @ + 1]
      /\ completed' = [completed EXCEPT ![c] = @ + 1]
      /\ challenge' = [challenge EXCEPT ![c].used = TRUE, ![c].attempts = @ + 1]
      /\ version' = version /\ tokens' = tokens
  BY DEF CompleteLoginChallenge
<1>2. u \in User /\ k # NoSecret /\ code.secret = k
  BY <1>1 DEF MayAnswer, Row, SecretsInv, SecretsApart, Accepts
<1>3. UsersKept
  BY <1>1 DEF UsersKept, TypeOK, Factor
<1>4. Protection' = Protection /\ Sessions' = Sessions /\ Protection[u] = k
  BY <1>1, <1>2, <1>3, MappedAlike DEF Protection
<1>5. Permits' = [Permits EXCEPT ![p] = Pass(u, k)] /\ Permits[p] = Promise!NoPermit
  <2>1. /\ \A q \in Proc : q # p => op'[q] = op[q]
        /\ op'[p] = [pc |-> "issue", user |-> u, version |-> version[u], secret |-> k]
    BY <1>1 DEF TypeOK
  <2>2. Permitted(p)' /\ ~Permitted(p)
    BY <1>1, <2>1 DEF Permitted
  <2> QED
    BY <1>1, <2>1, <2>2, OthersPermits, PermitsAre
<1>6. Spent' = Spent \cup {code} /\ code \notin Spent
  <2>1. accepted[code] = 0
    BY <1>1, <1>2, AcceptedIsNew
  <2>2. accepted'[code] = 1 /\ \A d \in Code : d # code => accepted'[d] = accepted[d]
    BY <1>1, <2>1 DEF TypeOK
  <2> QED
    BY <2>1, <2>2 DEF Spent
<1>7. Left[c] > 0 /\ Left' = [Left EXCEPT ![c] = 0]
  <2>1. completed'[c] = 1 /\ Left[c] > 0
    BY <1>1, AnswerableIsLeft DEF TypeOK
  <2>2. \A d \in Challenge : d # c => /\ challenge'[d] = challenge[d]
                                      /\ completed'[d] = completed[d] /\ guessed'[d] = guessed[d]
    BY <1>1 DEF TypeOK
  <2>3. Left'[c] = 0 /\ \A d \in Challenge : d # c => Left'[d] = Left[d]
    BY <2>1, <2>2, LeftIs
  <2> QED
    BY <2>1, <2>3 DEF Left
<1>8. Promise!Answer(p, u, c)
  <2>1. Promise!Permit(p, Promise!Pass(u, Protection[u]))
    BY <1>4, <1>5 DEF Promise!Permit, Promise!Pass, Pass
  <2>2. Promise!Spend(Protection[u])
    BY <1>2, <1>4, <1>6 DEF Promise!Spend
  <2> QED
    BY <1>2, <1>4, <1>7, <2>1, <2>2 DEF Promise!Answer
<1> QED
  BY <1>2, <1>4, <1>8 DEF Promise!SignInNext, Promise!PermitStep

LEMMA CodeRefused ==
  ASSUME TypeOK, ChallengesInv, NEW c \in Challenge, RefuseCode(c)
  PROVE  Promise!SignInNext
<1>1. /\ MayAnswer(c)
      /\ challenge' = [challenge EXCEPT ![c].attempts = @ + 1]
      /\ guessed' = [guessed EXCEPT ![c] = @ + 1]
      /\ UNCHANGED <<factor, version, tokens, op, accepted, completed>>
  BY DEF RefuseCode
<1>2. Left[c] > 0 /\ Left' = [Left EXCEPT ![c] = @ - 1]
  <2>1. /\ Left[c] = MaxAttempts - guessed[c] /\ Left[c] > 0 /\ completed[c] = 0
        /\ challenge[c] \in Row
    BY <1>1, AnswerableIsLeft DEF MayAnswer
  <2>2. challenge'[c] # Deleted
    <3>1. challenge'[c] = [challenge[c] EXCEPT !.attempts = @ + 1]
      BY <1>1 DEF TypeOK
    <3>2. challenge[c].attempts + 1 \in 0..MaxAttempts
      BY <1>1, <2>1 DEF MayAnswer, Row
    <3>3. challenge'[c] \in Row
      BY <2>1, <3>1, <3>2 DEF Row
    <3> QED
      BY <3>3
  <2>3. guessed'[c] = guessed[c] + 1 /\ guessed[c] \in Nat
    BY <1>1 DEF TypeOK
  <2>4. \A d \in Challenge : d # c => challenge'[d] = challenge[d] /\ guessed'[d] = guessed[d]
    BY <1>1 DEF TypeOK
  <2>5. Left'[c] = Left[c] - 1
    BY <1>1, <2>1, <2>2, <2>3, LeftIs
  <2>6. \A d \in Challenge : d # c => Left'[d] = Left[d]
    BY <1>1, <2>4, LeftIs
  <2> QED
    BY <2>1, <2>5, <2>6 DEF Left
<1>3. Protection' = Protection /\ Permits' = Permits /\ Sessions' = Sessions /\ Spent' = Spent
  BY <1>1, MappedAlike DEF Protection, Permits, Permitted
<1> QED
  BY <1>2, <1>3 DEF Promise!SignInNext, Promise!Refuse

\* A session that is accepted may become another.
LEMMA GrantRenews ==
  ASSUME TypeOK, VersionsInv, NEW p \in Proc, NEW t \in tokens, Grant(p, t)
  PROVE  Promise!SignInNext
<1>1. /\ UsersKept /\ UNCHANGED <<tokens, accepted, challenge, guessed, completed>>
      /\ \A q \in Proc : q # p => op'[q] = op[q]
      /\ op[p].pc = "idle" /\ t.version = version[t.user]
      /\ op'[p] = [pc |-> "issue", user |-> t.user, version |-> t.version, secret |-> t.secret]
  BY DEF Grant, UsersKept, TypeOK, history
<1>2. Permitted(p)' /\ ~Permitted(p)
  BY <1>1 DEF Permitted, UsersKept
<1>3. /\ Permits' = [Permits EXCEPT ![p] = Pass(t.user, t.secret)]
      /\ Permits[p] = Promise!NoPermit
  BY <1>1, <1>2, OthersPermits, PermitsAre DEF UsersKept
<1>4. Pass(t.user, t.secret) \in Sessions
  BY <1>1 DEF Sessions, Current
<1>5. Protection' = Protection /\ Sessions' = Sessions /\ Spent' = Spent /\ Left' = Left
  BY <1>1, MappedAlike DEF UsersKept
<1>6. Promise!Renew(p, Pass(t.user, t.secret))
  BY <1>3, <1>5 DEF Promise!Renew, Promise!Permit
<1> QED
  BY <1>4, <1>5, <1>6 DEF Promise!SignInNext, Promise!PermitStep

\* A session is stored of a permit; one of an old version is never accepted.
LEMMA IssueStores ==
  ASSUME TypeOK, VersionsInv, NEW p \in Proc, IssueToken(p)
  PROVE  Promise!SignInNext
<1> DEFINE new == [user |-> op[p].user, version |-> op[p].version, secret |-> op[p].secret]
<1>1. /\ UsersKept /\ UNCHANGED <<accepted, challenge, guessed, completed>>
      /\ \A q \in Proc : q # p => op'[q] = op[q]
      /\ op[p].pc = "issue" /\ op'[p] = Idle /\ tokens' = tokens \cup {new}
  BY DEF IssueToken, IssuedVersion, UsersKept, TypeOK, history
<1>2. Permits' = [Permits EXCEPT ![p] = Promise!NoPermit]
  BY <1>1, OthersPermits, PermitsAre, Constants DEF UsersKept, Permitted
<1>3. Protection' = Protection /\ Spent' = Spent /\ Left' = Left
  BY <1>1, MappedAlike
<1>4. CASE Permitted(p)
  <2>1. Current' = Current \cup {new}
    BY <1>1, <1>4 DEF Current, Permitted, UsersKept
  <2>2. Permits[p] = Pass(op[p].user, op[p].secret)
    BY <1>4, PermitsAre
  <2>3. Sessions' = Sessions \cup {Permits[p]}
    <3>1. Pass(new.user, new.secret) = Permits[p]
      BY <2>2
    <3> HIDE DEF new
    <3> QED
      BY <2>1, <3>1 DEF Sessions
  <2>4. Permits[p] # Promise!NoPermit
    BY <1>4, PermitsOfUsers
  <2>5. Promise!Store(p)
    BY <1>2, <1>3, <2>3, <2>4 DEF Promise!Store
  <2> QED
    BY <1>3, <2>5 DEF Promise!SignInNext, Promise!PermitStep
<1>5. CASE ~Permitted(p)
  <2>1. Current' = Current
    BY <1>1, <1>5 DEF Current, Permitted, UsersKept
  <2>2. Sessions' = Sessions
    BY <2>1 DEF Sessions
  <2>3. Promise!Drop(p)
    BY <1>2, <1>3, <2>2 DEF Promise!Drop
  <2> QED
    BY <1>3, <2>3 DEF Promise!SignInNext, Promise!PermitStep
<1> QED
  BY <1>4, <1>5

-----------------------------------------------------------------------------
\* Whatever ends the user's version ends sessions and permits.
LEMMA BumpSignsOut ==
  ASSUME TypeOK, VersionsInv, NEW u \in User, BumpAuthVersionAndRevoke(u), op' = op
  PROVE  Promise!SignOut(u)
<1>1. /\ version'[u] = version[u] + 1
      /\ \A v \in User : v # u => version'[v] = version[v]
      /\ \A v \in User : version[v] \in Nat
      /\ tokens' = {t \in tokens : t.user # u}
  BY DEF BumpAuthVersionAndRevoke, TypeOK
<1>2. Permits' = [p \in Proc |-> IF Permits[p].user = u THEN Promise!NoPermit ELSE Permits[p]]
  <2>1. ASSUME NEW p \in Proc
        PROVE  Permits'[p] = IF Permits[p].user = u THEN Promise!NoPermit ELSE Permits[p]
    <3>1. op[p].pc = "issue" => /\ op[p].user \in User /\ op[p].version \in Nat
                                /\ op[p].version <= version[op[p].user]
      BY DEF VersionsInv, CopiesAreOlder, TypeOK, Op
    <3>2. CASE op[p].user = u
      <4>1. ~Permitted(p)'
        BY <1>1, <3>1, <3>2 DEF Permitted
      <4>2. Permits'[p] = Promise!NoPermit
        BY <4>1, PermitsAre
      <4>3. Permitted(p) => Permits[p].user = u
        BY <3>2, PermitsOfUsers
      <4>4. ~Permitted(p) => Permits[p] = Promise!NoPermit
        BY PermitsAre
      <4> QED
        BY <4>2, <4>3, <4>4
    <3>3. CASE op[p].user # u
      <4>1. Permitted(p)' <=> Permitted(p)
        BY <1>1, <3>1, <3>3 DEF Permitted
      <4>2. Permits'[p] = Permits[p]
        BY <4>1, PermitsAre
      <4>3. Permits[p].user # u
        BY <3>3, PermitsOfUsers
      <4> QED
        BY <4>2, <4>3
    <3> QED
      BY <3>2, <3>3
  <2> QED
    BY <2>1, PermitsAre
<1>3. Sessions' = {s \in Sessions : s.user # u}
  <2>1. \A t \in tokens : t.user \in User
    BY DEF TypeOK, Token
  <2>2. Current' = {t \in Current : t.user # u}
    BY <1>1, <2>1 DEF Current
  <2>3. \A t : Pass(t.user, t.secret).user = t.user
    BY DEF Pass
  <2> QED
    BY <2>2, <2>3 DEF Sessions
<1> QED
  BY <1>2, <1>3 DEF Promise!SignOut

\* The code that enables or disables a factor is new, and spent by that.
LEMMA CodeSpent ==
  ASSUME TypeOK, NEW code \in Code, accepted[code] = 0,
         accepted' = [accepted EXCEPT ![code] = @ + 1]
  PROVE  Promise!Spend(code.secret)
<1>1. accepted'[code] = 1 /\ \A d \in Code : d # code => accepted'[d] = accepted[d]
  BY DEF TypeOK
<1>2. Spent' = Spent \cup {code} /\ code \in Code \ Spent
  BY <1>1 DEF Spent
<1> QED
  BY <1>2 DEF Promise!Spend

LEMMA FactorStepsKeep ==
  ASSUME TypeOK, TypeOK', SecretsInv, ChallengesInv, ChallengesInv', VersionsInv,
         NEW u \in User, FactorStep(u)
  PROVE  Promise!SignInNext
<1>1. Promise!SignOut(u)
  BY BumpSignsOut DEF FactorStep, ConfirmSetup, Disable, ResetTwoFactor, InvalidateSessions
<1>2. ASSUME NEW k, factor' = [factor EXCEPT ![u] = k]
      PROVE  Protection' = [Protection EXCEPT ![u] = k.secret]
  BY <1>2 DEF TypeOK, Protection
<1>3. ASSUME NEW code \in Code, ConfirmSetup(u, code)
      PROVE  Promise!SignInNext
  <2> DEFINE k == factor[u].pending
  <2>1. /\ ~factor[u].enabled /\ k # NoSecret /\ Accepts(k, code, 0)
        /\ factor' = [factor EXCEPT ![u] = Enabled(k, code.step)]
        /\ accepted' = [accepted EXCEPT ![code] = @ + 1]
        /\ UNCHANGED <<challenge, guessed, completed>>
    BY <1>3 DEF ConfirmSetup, Enabled
  <2>2. k \in Secret /\ code.secret = k /\ code.step \in Nat
    BY <2>1 DEF TypeOK, Factor, Accepts, Code
  <2>3. Protection' = [Protection EXCEPT ![u] = k] /\ Protection[u] = NoSecret
    <3>1. Enabled(k, code.step).secret = k
      BY <2>2, EnabledFields
    <3>2. factor[u].secret = NoSecret
      BY <2>1 DEF SecretsInv, SecretsApart
    <3> QED
      BY <1>2, <2>1, <3>1, <3>2 DEF Protection
  <2>4. accepted[code] = 0
    BY <2>1, <2>2 DEF SecretsInv, CodesInOrder, Unspent
  <2>5. Promise!Spend(k) /\ Left' = Left
    BY <2>1, <2>2, <2>4, CodeSpent, MappedAlike
  <2>6. Promise!Protect(u, k)
    BY <1>1, <2>3, <2>5 DEF Promise!Protect
  <2> QED
    BY <2>2, <2>6 DEF Promise!SignInNext, Promise!ProtectionStep
<1>4. ASSUME NEW code \in Code, Disable(u, code)
      PROVE  Promise!SignInNext
  <2>1. /\ factor[u].enabled /\ Accepts(factor[u].secret, code, factor[u].lastUsed)
        /\ factor' = [factor EXCEPT ![u] = NoFactor]
        /\ accepted' = [accepted EXCEPT ![code] = @ + 1]
        /\ UNCHANGED <<challenge, guessed, completed>>
    BY <1>4 DEF Disable
  <2>2. /\ Protection' = [Protection EXCEPT ![u] = NoSecret]
        /\ Protection[u] # NoSecret /\ Protection[u] = code.secret
    <3>1. Protection' = [Protection EXCEPT ![u] = NoSecret]
      BY <1>2, <2>1, Constants
    <3>2. factor[u].secret # NoSecret /\ factor[u].secret = code.secret
      BY <2>1 DEF SecretsInv, SecretsApart, Accepts
    <3> QED
      BY <3>1, <3>2 DEF Protection
  <2>3. Promise!Spend(Protection[u]) /\ Left' = Left
    BY <2>1, <2>2, AcceptedIsNew, CodeSpent, MappedAlike
  <2>4. Promise!Unprotect(u)
    BY <1>1, <2>2, <2>3 DEF Promise!Unprotect
  <2> QED
    BY <2>4 DEF Promise!SignInNext, Promise!ProtectionStep
<1>5. CASE ResetTwoFactor(u)
  <2>1. /\ factor' = [factor EXCEPT ![u] = NoFactor]
        /\ challenge' = [c \in Challenge |->
                           IF challenge[c] \in Row /\ challenge[c].user = u
                             THEN Deleted ELSE challenge[c]]
        /\ UNCHANGED <<accepted, guessed, completed>>
    BY <1>5 DEF ResetTwoFactor, history
  <2>2. Protection' = [Protection EXCEPT ![u] = NoSecret] /\ Spent' = Spent
    BY <1>2, <2>1, Constants, MappedAlike
  <2>3. Left' \in [Challenge -> 0..MaxAttempts] /\ \A c \in Challenge : Left'[c] \in {0, Left[c]}
    <3>1. Left' \in [Challenge -> 0..MaxAttempts]
      BY LeftFits
    <3>2. \A c \in Challenge : challenge'[c] \in {Deleted, challenge[c]}
      BY <2>1
    <3> QED
      BY <2>1, <3>1, <3>2, LeftIs
  <2>4. Promise!Reset(u)
    BY <1>1, <2>2, <2>3 DEF Promise!Reset, Promise!Closing
  <2> QED
    BY <2>4 DEF Promise!SignInNext, Promise!ProtectionStep
<1>6. CASE InvalidateSessions(u)
  <2>1. Protection' = Protection /\ Left' = Left /\ Spent' = Spent
    BY <1>6, MappedAlike DEF InvalidateSessions, history, Protection
  <2>2. Promise!Revoke(u)
    BY <1>1, <2>1 DEF Promise!Revoke
  <2> QED
    BY <2>2 DEF Promise!SignInNext, Promise!ProtectionStep
<1> QED
  BY <1>3, <1>4, <1>5, <1>6 DEF FactorStep

LEMMA ChallengeCloses ==
  ASSUME TypeOK, TypeOK', ChallengesInv, ChallengesInv', VersionsInv,
         NEW p \in Proc, NEW c \in Challenge, CreateLoginChallenge(p, c)
  PROVE  Promise!SignInNext
<1>1. /\ op[p].pc = "create" /\ op'[p] = Idle /\ \A q \in Proc : q # p => op'[q] = op[q]
      /\ challenge[c] = NoChallenge
      /\ \A d \in Challenge : d # c => challenge'[d] \in {Deleted, challenge[d]}
      /\ UNCHANGED <<factor, version, tokens, accepted, guessed, completed>>
  BY DEF CreateLoginChallenge, TypeOK, history
<1>2. challenge[c] # Deleted /\ challenge'[c] # Deleted
  <2>1. challenge'[c] = [user |-> op[p].user, expires |-> now + ChallengeTTL,
                         attempts |-> 0, used |-> FALSE]
    BY DEF CreateLoginChallenge
  <2>2. op[p].user \in User /\ now + ChallengeTTL \in Nat /\ 0 \in 0..MaxAttempts
    BY <1>1 DEF VersionsInv, CopiesAreOlder, TypeOK
  <2>3. challenge'[c] \in Row
    BY <2>1, <2>2 DEF Row
  <2> QED
    BY <1>1, <2>3
<1>3. Permits' = Permits
  BY <1>1, Constants DEF Permits, Permitted
<1>4. Protection' = Protection /\ Sessions' = Sessions /\ Spent' = Spent
  BY <1>1, MappedAlike DEF Protection
<1>5. Left' \in [Challenge -> 0..MaxAttempts] /\ \A d \in Challenge : Left'[d] \in {0, Left[d]}
  <2>1. Left' \in [Challenge -> 0..MaxAttempts]
    BY LeftFits
  <2> QED
    BY <1>1, <1>2, <2>1, LeftIs
<1> QED
  BY <1>3, <1>4, <1>5 DEF Promise!SignInNext, Promise!Close, Promise!Closing

-----------------------------------------------------------------------------
LEMMA StepsKeepPromise ==
  ASSUME TwoFactorInv, TwoFactorInv', [Next]_vars
  PROVE  [Promise!SignInNext]_(Promise!promises)
<1>1. /\ TypeOK /\ SecretsInv /\ ChallengesInv /\ VersionsInv /\ TypeOK' /\ ChallengesInv'
  BY DEF TwoFactorInv, SecretsInv, ChallengesInv, VersionsInv
<1>2. ASSUME UNCHANGED <<factor, challenge, version, tokens, op, history>>
      PROVE  UNCHANGED Promise!promises
  BY <1>2 DEF Promise!promises, Protection, Permits, Permitted, Sessions, Current, Left, Spent,
              history
<1>3. ASSUME NEW p \in Proc, ~Permitted(p)', UsersKept, \A q \in Proc : q # p => op'[q] = op[q],
             UNCHANGED <<tokens, accepted, challenge, guessed, completed>>
      PROVE  Promise!SignInNext
  BY <1>3, HandlerDrops
<1>4. ASSUME NEW p \in Proc, NEW u \in User, VerifyPassword(p, u)
      PROVE  Promise!SignInNext
  BY <1>1, <1>3, <1>4 DEF VerifyPassword, UsersKept, TypeOK, history, Permitted
<1>5. ASSUME NEW p \in Proc, RecheckFactor(p)
      PROVE  Promise!SignInNext
  <2>1. op'[p].pc = "create"
    BY <1>1, <1>5 DEF RecheckFactor, TypeOK, Op
  <2> QED
    BY <1>1, <1>3, <1>5, <2>1 DEF RecheckFactor, UsersKept, TypeOK, history, Permitted
<1>6. ASSUME NEW p \in Proc, NEW u \in User, NEW k \in Secret, BeginSetup(p, u, k)
      PROVE  Promise!SignInNext
  BY <1>1, <1>3, <1>6 DEF BeginSetup, UsersKept, TypeOK, history, Permitted
<1>7. ASSUME NEW p \in Proc, StoreSetup(p)
      PROVE  Promise!SignInNext
  <2>1. op[p].user \in User
    BY <1>1, <1>7 DEF VersionsInv, CopiesAreOlder, StoreSetup
  <2>2. UsersKept
    BY <1>1, <1>7, <2>1 DEF StoreSetup, UsersKept, TypeOK, Factor
  <2> QED
    BY <1>1, <1>3, <1>7, <2>2, Constants DEF StoreSetup, TypeOK, history, Permitted
<1>8. ASSUME NEW p \in Proc, Fail(p)
      PROVE  Promise!SignInNext
  BY <1>1, <1>3, <1>8, Constants DEF Fail, UsersKept, TypeOK, history, Permitted
<1>9. ASSUME NEW p \in Proc, HandlerStep(p)
      PROVE  Promise!SignInNext
  BY <1>1, <1>4, <1>5, <1>6, <1>7, <1>8, <1>9, CheckAllows, CompleteAnswers, GrantRenews,
     IssueStores, ChallengeCloses DEF HandlerStep
<1>10. CASE Tick \/ UNCHANGED vars
  BY <1>2, <1>10 DEF Tick, vars, history
<1> QED
  BY <1>1, <1>9, <1>10, CodeRefused, FactorStepsKeep DEF Next

\* TwoFactor implements SignIn: a session of a protected user costs a code that
\* nothing else was done with, whatever sign-ins, setups and resets overlap.
THEOREM TwoFactorImplementsSignIn == Spec => SignInKept
<1>1. Init => Promise!SignInInit
  <2> SUFFICES ASSUME Init PROVE Promise!SignInInit
    OBVIOUS
  <2>1. /\ \A u \in User : factor[u] = NoFactor
        /\ \A p \in Proc : op[p].pc = "idle"
        /\ \A c \in Challenge : challenge[c] # Deleted /\ guessed[c] = 0 /\ completed[c] = 0
        /\ \A code \in Code : accepted[code] = 0
        /\ tokens = {}
    <3>1. NoChallenge # Deleted
      OBVIOUS
    <3> QED
      BY <3>1, Constants DEF Init
  <2>2. Protection = [u \in User |-> NoSecret]
    BY <2>1, Constants DEF Protection
  <2>3. Permits = [p \in Proc |-> Promise!NoPermit]
    BY <2>1, PermitsAre DEF Permitted
  <2>4. Spent = {} /\ Sessions = {} /\ Left = [c \in Challenge |-> MaxAttempts]
    BY <2>1, LeftIs DEF Spent, Sessions, Current, Left
  <2> QED
    BY <2>2, <2>3, <2>4 DEF Promise!SignInInit
<1>2. TwoFactorInv /\ TwoFactorInv' /\ [Next]_vars => [Promise!SignInNext]_(Promise!promises)
  BY StepsKeepPromise
<1> QED
  BY <1>1, <1>2, TwoFactorInvariant, PTL DEF Spec, SignInKept, Promise!SignInSpec
=============================================================================
