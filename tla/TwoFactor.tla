------------------------------ MODULE TwoFactor ------------------------------
(* The second factor of password sign-ins (service/two_factor.go): setting  *)
(* it up and removing it, the challenge that stands between a verified      *)
(* password and a session, and the sessions themselves.                     *)
(*                                                                          *)
(* Confirming, disabling, answering a challenge and resetting each hold row *)
(* locks from their first read to their commit and are one step.  Setting   *)
(* up and signing in read without locks and are several.                    *)
(*                                                                          *)
(* A code is the secret and the time step it was computed from: two codes   *)
(* of six digits that happen to be equal are not told apart by the server,  *)
(* and are different here.  Sign-ins through a provider or by an existing   *)
(* session are not asked for a code; the latter are Grant.                  *)
EXTENDS Naturals

CONSTANTS
  User, Secret, Proc,
  Challenge,                  \* the random challenge tokens
  NoUser, NoSecret,
  NoChallenge, Deleted,       \* a challenge that is not drawn yet, or deleted
  MaxAttempts,                \* codes a challenge admits
  ChallengeTTL, PendingTTL,   \* lifetimes, in time steps
  MaxTime, MaxVersion         \* bounds: clock and auth_version stop here

VARIABLES
  factor,                     \* user_two_factors
  challenge,                  \* two_factor_login_challenges
  version,                    \* users.auth_version
  tokens,                     \* user_tokens that are not revoked
  op,                         \* what each handler is doing
  drawn,                      \* the secrets that have been drawn
  now,                        \* in time steps of a code
  accepted,                   \* history: how often each code was accepted,
  guessed, completed          \* each challenge was tried and completed

vars == <<factor, challenge, version, tokens, op, drawn, now,
          accepted, guessed, completed>>

history == <<accepted, guessed, completed>>

ASSUME TwoFactorAssumption ==
  /\ NoUser \notin User /\ NoSecret \notin Secret
  /\ MaxAttempts \in Nat \ {0} /\ ChallengeTTL \in Nat /\ PendingTTL \in Nat
  /\ MaxTime \in Nat \ {0} /\ MaxVersion \in Nat \ {0}

-----------------------------------------------------------------------------
Code == [secret : Secret, step : 1..MaxTime + 1]

Factor == [secret : Secret \cup {NoSecret}, pending : Secret \cup {NoSecret},
           pendingExpires : Nat, enabled : BOOLEAN, lastUsed : Nat]

\* No row, or the row a user has before the first and after the last setup.
NoFactor == [secret |-> NoSecret, pending |-> NoSecret, pendingExpires |-> 0,
             enabled |-> FALSE, lastUsed |-> 0]

Row == [user : User, expires : Nat, attempts : 0..MaxAttempts, used : BOOLEAN]

ASSUME ChallengeAssumption ==
  NoChallenge \notin Row /\ Deleted \notin Row /\ NoChallenge # Deleted

Token == [user : User, version : Nat, secret : Secret \cup {NoSecret}]

OpPC == {"idle", "verified", "challenge", "create", "issue", "setup"}

Op == [pc : OpPC, user : User \cup {NoUser}, version : Nat,
       secret : Secret \cup {NoSecret}]

Idle == [pc |-> "idle", user |-> NoUser, version |-> 0, secret |-> NoSecret]

Init ==
  /\ factor = [u \in User |-> NoFactor]
  /\ challenge = [c \in Challenge |-> NoChallenge]
  /\ version = [u \in User |-> 1]
  /\ tokens = {}
  /\ op = [p \in Proc |-> Idle]
  /\ drawn = {}
  /\ now = 1
  /\ accepted = [code \in Code |-> 0]
  /\ guessed = [c \in Challenge |-> 0]
  /\ completed = [c \in Challenge |-> 0]

-----------------------------------------------------------------------------
\* Mutant: the last step used is accepted again.
AcceptsAgain(secret, code, lastUsed) ==
  code.secret = secret /\ code.step \in now - 1..now + 1 /\ code.step >= lastUsed

\* verifyTOTP: a code of the secret, at most one step off, of a later step
\* than any code accepted before.
Accepts(secret, code, lastUsed) ==
  code.secret = secret /\ code.step \in now - 1..now + 1 /\ code.step > lastUsed

\* Mutant: sessions are invalidated by their revocation alone.
RevokeOnly(u) ==
  /\ tokens' = {t \in tokens : t.user # u}
  /\ UNCHANGED version

\* bumpAuthVersionAndRevoke
BumpAuthVersionAndRevoke(u) ==
  /\ version[u] < MaxVersion
  /\ version' = [version EXCEPT ![u] = @ + 1]
  /\ tokens' = {t \in tokens : t.user # u}

-----------------------------------------------------------------------------
(* Setting the factor up, and removing it                                   *)

\* The check, and the new secret, which nobody else ever draws.
BeginSetup(p, u, k) ==
  /\ op[p].pc = "idle"
  /\ ~factor[u].enabled
  /\ k \notin drawn
  /\ drawn' = drawn \cup {k}
  /\ op' = [op EXCEPT ![p] = [pc |-> "setup", user |-> u, version |-> 0,
                              secret |-> k]]
  /\ UNCHANGED <<factor, challenge, version, tokens, now, history>>

\* The secret becomes the pending one, whatever has happened to the row since.
StoreSetup(p) ==
  /\ op[p].pc = "setup"
  /\ factor' = [factor EXCEPT ![op[p].user].pending = op[p].secret,
                              ![op[p].user].pendingExpires = now + PendingTTL]
  /\ op' = [op EXCEPT ![p] = Idle]
  /\ UNCHANGED <<challenge, version, tokens, drawn, now, history>>

ConfirmSetup(u, code) ==
  /\ ~factor[u].enabled
  /\ factor[u].pendingExpires >= now
  /\ factor[u].pending # NoSecret
  /\ Accepts(factor[u].pending, code, 0)
  /\ factor' = [factor EXCEPT ![u] =
                  [NoFactor EXCEPT !.secret = factor[u].pending,
                                   !.enabled = TRUE, !.lastUsed = code.step]]
  /\ BumpAuthVersionAndRevoke(u)
  /\ accepted' = [accepted EXCEPT ![code] = @ + 1]
  /\ UNCHANGED <<challenge, op, drawn, now, guessed, completed>>

Disable(u, code) ==
  /\ factor[u].enabled
  /\ Accepts(factor[u].secret, code, factor[u].lastUsed)
  /\ factor' = [factor EXCEPT ![u] = NoFactor]
  /\ BumpAuthVersionAndRevoke(u)
  /\ accepted' = [accepted EXCEPT ![code] = @ + 1]
  /\ UNCHANGED <<challenge, op, drawn, now, guessed, completed>>

\* The local maintenance command, which also deletes the user's challenges.
ResetTwoFactor(u) ==
  /\ factor' = [factor EXCEPT ![u] = NoFactor]
  /\ challenge' = [c \in Challenge |->
                     IF challenge[c] \in Row /\ challenge[c].user = u
                       THEN Deleted ELSE challenge[c]]
  /\ BumpAuthVersionAndRevoke(u)
  /\ UNCHANGED <<op, drawn, now, history>>

\* A global logout, a password change, a disablement.
InvalidateSessions(u) ==
  /\ BumpAuthVersionAndRevoke(u)
  /\ UNCHANGED <<factor, challenge, op, drawn, now, history>>

-----------------------------------------------------------------------------
(* Signing in                                                               *)

\* InfoByUsernamePassword: the handler goes on with a copy of the user.
VerifyPassword(p, u) ==
  /\ op[p].pc = "idle"
  /\ op' = [op EXCEPT ![p] = [pc |-> "verified", user |-> u,
                              version |-> version[u], secret |-> NoSecret]]
  /\ UNCHANGED <<factor, challenge, version, tokens, drawn, now, history>>

\* EnabledForUser, and again in CreateLoginChallenge.
CheckFactor(p) ==
  /\ op[p].pc = "verified"
  /\ op' = [op EXCEPT ![p].pc = IF factor[op[p].user].enabled
                                  THEN "challenge" ELSE "issue"]
  /\ UNCHANGED <<factor, challenge, version, tokens, drawn, now, history>>

RecheckFactor(p) ==
  /\ op[p].pc = "challenge"
  /\ factor[op[p].user].enabled
  /\ op' = [op EXCEPT ![p].pc = "create"]
  /\ UNCHANGED <<factor, challenge, version, tokens, drawn, now, history>>

\* Expired challenges are deleted before the new one is stored.
CreateLoginChallenge(p, c) ==
  /\ op[p].pc = "create"
  /\ challenge[c] = NoChallenge
  /\ challenge' = [d \in Challenge |->
       IF d = c THEN [user |-> op[p].user, expires |-> now + ChallengeTTL,
                      attempts |-> 0, used |-> FALSE]
       ELSE IF challenge[d] \in Row /\ challenge[d].expires < now THEN Deleted
       ELSE challenge[d]]
  /\ op' = [op EXCEPT ![p] = Idle]
  /\ UNCHANGED <<factor, version, tokens, drawn, now, history>>

\* Mutant: a challenge is answered after it was completed.
MayAnswerUsed(c) ==
  /\ challenge[c] \in Row
  /\ challenge[c].expires >= now
  /\ challenge[c].attempts < MaxAttempts
  /\ factor[challenge[c].user].enabled

MayAnswer(c) ==
  /\ challenge[c] \in Row
  /\ ~challenge[c].used
  /\ challenge[c].expires >= now
  /\ challenge[c].attempts < MaxAttempts
  /\ factor[challenge[c].user].enabled

\* A right code, the challenge spent, and the user as of now.
CompleteLoginChallenge(p, c, code) ==
  LET u == challenge[c].user IN
  /\ op[p].pc = "idle"
  /\ MayAnswer(c)
  /\ Accepts(factor[u].secret, code, factor[u].lastUsed)
  /\ factor' = [factor EXCEPT ![u].lastUsed = code.step]
  /\ challenge' = [challenge EXCEPT ![c].used = TRUE, ![c].attempts = @ + 1]
  /\ op' = [op EXCEPT ![p] = [pc |-> "issue", user |-> u, version |-> version[u],
                              secret |-> factor[u].secret]]
  /\ accepted' = [accepted EXCEPT ![code] = @ + 1]
  /\ guessed' = [guessed EXCEPT ![c] = @ + 1]
  /\ completed' = [completed EXCEPT ![c] = @ + 1]
  /\ UNCHANGED <<version, tokens, drawn, now>>

\* Some code that is not right.
RefuseCode(c) ==
  /\ MayAnswer(c)
  /\ ~\A code \in Code : Accepts(factor[challenge[c].user].secret, code,
                                 factor[challenge[c].user].lastUsed)
  /\ challenge' = [challenge EXCEPT ![c].attempts = @ + 1]
  /\ guessed' = [guessed EXCEPT ![c] = @ + 1]
  /\ UNCHANGED <<factor, version, tokens, op, drawn, now, accepted, completed>>

\* A request made with a session goes on to make another one of it.
Grant(p, t) ==
  /\ op[p].pc = "idle"
  /\ t.version = version[t.user]
  /\ op' = [op EXCEPT ![p] = [pc |-> "issue", user |-> t.user,
                              version |-> t.version, secret |-> t.secret]]
  /\ UNCHANGED <<factor, challenge, version, tokens, drawn, now, history>>

IssuedVersion(p) == op[p].version

IssueToken(p) ==
  /\ op[p].pc = "issue"
  /\ tokens' = tokens \cup {[user |-> op[p].user, version |-> IssuedVersion(p),
                             secret |-> op[p].secret]}
  /\ op' = [op EXCEPT ![p] = Idle]
  /\ UNCHANGED <<factor, challenge, version, drawn, now, history>>

\* An error, a disabled account, a row deleted under a setup, a crash.
Fail(p) ==
  /\ op[p].pc # "idle"
  /\ op' = [op EXCEPT ![p] = Idle]
  /\ UNCHANGED <<factor, challenge, version, tokens, drawn, now, history>>

Tick ==
  /\ now < MaxTime
  /\ now' = now + 1
  /\ UNCHANGED <<factor, challenge, version, tokens, op, drawn, history>>

-----------------------------------------------------------------------------
HandlerStep(p) ==
  \/ \E u \in User : VerifyPassword(p, u)
  \/ \E u \in User, k \in Secret : BeginSetup(p, u, k)
  \/ \E c \in Challenge : CreateLoginChallenge(p, c)
  \/ \E c \in Challenge, code \in Code : CompleteLoginChallenge(p, c, code)
  \/ \E t \in tokens : Grant(p, t)
  \/ CheckFactor(p) \/ RecheckFactor(p) \/ IssueToken(p)
  \/ StoreSetup(p)
  \/ Fail(p)

FactorStep(u) ==
  \/ \E code \in Code : ConfirmSetup(u, code) \/ Disable(u, code)
  \/ ResetTwoFactor(u)
  \/ InvalidateSessions(u)

Next ==
  \/ \E p \in Proc : HandlerStep(p)
  \/ \E u \in User : FactorStep(u)
  \/ \E c \in Challenge : RefuseCode(c)
  \/ Tick

Spec == Init /\ [][Next]_vars

-----------------------------------------------------------------------------
(* What all this is for.  A permit is an issue that is still good: of the   *)
(* user's current version.                                                  *)
Permitted(p) == op[p].pc = "issue" /\ op[p].version = version[op[p].user]

Protection == [u \in User |-> factor[u].secret]

Spent == {code \in Code : accepted[code] # 0}

Left == [c \in Challenge |-> IF challenge[c] = Deleted \/ completed[c] # 0 THEN 0
                            ELSE MaxAttempts - guessed[c]]

Pass(u, k) == [user |-> u, secret |-> k]

Permits == [p \in Proc |-> IF Permitted(p) THEN Pass(op[p].user, op[p].secret)
                           ELSE Pass(NoUser, NoSecret)]

Current == {t \in tokens : t.version = version[t.user]}

Sessions == {Pass(t.user, t.secret) : t \in Current}

Promise == INSTANCE SignIn
  WITH protection <- Protection, spent <- Spent, left <- Left,
       permit <- Permits, sessions <- Sessions

-----------------------------------------------------------------------------
TypeOK ==
  /\ factor \in [User -> Factor]
  /\ challenge \in [Challenge -> Row \cup {NoChallenge, Deleted}]
  /\ version \in [User -> 1..MaxVersion]
  /\ tokens \subseteq Token
  /\ op \in [Proc -> Op]
  /\ drawn \subseteq Secret
  /\ now \in 1..MaxTime
  /\ accepted \in [Code -> Nat]
  /\ guessed \in [Challenge -> Nat] /\ completed \in [Challenge -> Nat]

\* "invalid or replayed two-factor code": each code is accepted at most once,
\* whether by a challenge, a confirmation or a disablement, and whatever
\* setups and resets overlap (verifyTOTP, last_used_step).
CodeUsedOnce == \A code \in Code : accepted[code] <= 1

\* A challenge gives one session at most and admits MaxAttempts codes in all,
\* however its answers overlap and whatever happens to the factor meanwhile.
ChallengeBounded ==
  \A c \in Challenge : guessed[c] <= MaxAttempts /\ completed[c] <= 1

\* "Enabling or disabling TOTP revokes all existing sessions"
\* (docs/wiki/Configuration-Reference.md:53), and those a sign-in is about to
\* store: once a factor is enabled, every session that is accepted was made
\* with a code of that very secret, or with another session that was.
SecondFactorEnforced ==
  \A t \in tokens :
    t.version = version[t.user] /\ factor[t.user].enabled
      => t.secret = factor[t.user].secret

\* The handlers do to users, codes and challenges what SignIn allows: a session
\* of a protected user costs one code that nothing else was done with, or stems
\* from another; and enabling and disabling leave neither sessions nor sign-ins
\* that may still become one.
SignInKept == Promise!SignInSpec

(* Why these hold.  A secret is in one place only, and its codes are spent  *)
(* in the order of their steps; a copy of the user from before the factor   *)
(* was enabled carries an old version.                                      *)
Unspent(k) == \A code \in Code : code.secret = k => accepted[code] = 0

SecretsApart ==
  /\ \A u \in User : factor[u].enabled <=> factor[u].secret # NoSecret
  /\ \A u \in User : {factor[u].secret, factor[u].pending}
                        \subseteq drawn \cup {NoSecret}
  /\ \A p \in Proc : op[p].pc = "setup" => op[p].secret \in drawn
  /\ \A u \in User, v \in User :
       /\ factor[u].secret # NoSecret =>
            /\ factor[u].secret # factor[v].pending
            /\ factor[u].secret = factor[v].secret => u = v
       /\ factor[u].pending # NoSecret /\ factor[u].pending = factor[v].pending
            => u = v
  /\ \A p \in Proc, u \in User : op[p].pc = "setup" =>
       op[p].secret \notin {factor[u].secret, factor[u].pending}
  /\ \A p \in Proc, q \in Proc :
       op[p].pc = "setup" /\ op[q].pc = "setup" /\ op[p].secret = op[q].secret
         => p = q

CodesInOrder ==
  /\ \A k \in Secret \ drawn : Unspent(k)
  /\ \A p \in Proc : op[p].pc = "setup" => Unspent(op[p].secret)
  /\ \A u \in User : factor[u].pending # NoSecret => Unspent(factor[u].pending)
  /\ \A u \in User, code \in Code :
       code.secret = factor[u].secret /\ accepted[code] # 0
         => code.step <= factor[u].lastUsed

ChallengeCounts ==
  \A c \in Challenge :
    /\ challenge[c] = NoChallenge => guessed[c] = 0 /\ completed[c] = 0
    /\ challenge[c] \in Row =>
         /\ guessed[c] = challenge[c].attempts
         /\ completed[c] = IF challenge[c].used THEN 1 ELSE 0

CopiesAreOlder ==
  /\ \A t \in tokens : t.version <= version[t.user]
  /\ \A p \in Proc : op[p].pc \notin {"idle", "setup"} =>
       op[p].user \in User /\ op[p].version <= version[op[p].user]
  /\ \A p \in Proc : op[p].pc = "setup" =>
       op[p].user \in User /\ op[p].secret \in Secret
  /\ \A p \in Proc : op[p].pc = "verified" => op[p].secret = NoSecret

IssuesEnforced ==
  \A p \in Proc :
    /\ op[p].pc = "issue"
    /\ op[p].version = version[op[p].user]
    /\ factor[op[p].user].enabled
    => op[p].secret = factor[op[p].user].secret

TwoFactorInv ==
  /\ TypeOK /\ CodeUsedOnce /\ ChallengeBounded /\ SecondFactorEnforced
  /\ SecretsApart /\ CodesInOrder /\ ChallengeCounts
  /\ CopiesAreOlder /\ IssuesEnforced
=============================================================================
