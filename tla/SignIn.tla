------------------------------- MODULE SignIn -------------------------------
(* What a second factor promises, without its versions, clocks, lookups and  *)
(* rows: a user protected by a secret gets a permit to sign in for a code of  *)
(* that secret, and each code is good for one thing only: one permit, or the  *)
(* protection's beginning or end, which leave the user without sessions and   *)
(* permits.  A session is stored of a permit and may be renewed.  A challenge *)
(* takes a number of codes and, with the right one, closes for good.          *)
EXTENDS Naturals

CONSTANTS
  User, Secret, Code, Challenge,
  Proc,                       \* who may hold a permit
  NoUser, NoSecret, MaxAttempts

VARIABLES
  protection,                 \* the secret that protects each user
  spent,                      \* the codes that were good for something
  left,                       \* codes a challenge still takes
  permit, sessions            \* of whom, and the secret that was asked for

promises == <<protection, permit, sessions, left, spent>>

Pass(u, k) == [user |-> u, secret |-> k]

NoPermit == Pass(NoUser, NoSecret)

SignInInit ==
  /\ protection = [u \in User |-> NoSecret]
  /\ spent = {}
  /\ left = [c \in Challenge |-> MaxAttempts]
  /\ permit = [p \in Proc |-> NoPermit]
  /\ sessions = {}

-----------------------------------------------------------------------------
\* A code of the secret, good for one thing.
Spend(k) ==
  \E code \in Code \ spent :
    code.secret = k /\ spent' = spent \cup {code}

Permit(p, pass) ==
  /\ permit[p] = NoPermit
  /\ permit' = [permit EXCEPT ![p] = pass]
  /\ UNCHANGED sessions

\* Nobody is signed in as the user, nor about to be.
SignOut(u) ==
  /\ permit' = [p \in Proc |-> IF permit[p].user = u THEN NoPermit ELSE permit[p]]
  /\ sessions' = {s \in sessions : s.user # u}

\* A password suffices where nothing protects the user.
Allow(p, u) ==
  /\ protection[u] = NoSecret
  /\ Permit(p, Pass(u, NoSecret))
  /\ UNCHANGED <<left, spent>>

\* A right code is all a challenge is for.
Answer(p, u, c) ==
  /\ protection[u] # NoSecret
  /\ Permit(p, Pass(u, protection[u]))
  /\ left[c] > 0
  /\ left' = [left EXCEPT ![c] = 0]
  /\ Spend(protection[u])

Refuse(c) ==
  /\ left[c] > 0
  /\ left' = [left EXCEPT ![c] = @ - 1]
  /\ UNCHANGED <<protection, permit, sessions, spent>>

\* Some challenges are over.
Closing ==
  /\ left' \in [Challenge -> 0..MaxAttempts]
  /\ \A c \in Challenge : left'[c] \in {0, left[c]}

\* They expire.
Close == Closing /\ UNCHANGED <<protection, permit, sessions, spent>>

\* s is a session.
Renew(p, s) ==
  /\ Permit(p, s)
  /\ UNCHANGED <<left, spent>>

Store(p) ==
  /\ permit[p] # NoPermit
  /\ sessions' = sessions \cup {permit[p]}
  /\ permit' = [permit EXCEPT ![p] = NoPermit]
  /\ UNCHANGED <<left, spent>>

Drop(p) ==
  /\ permit' = [permit EXCEPT ![p] = NoPermit]
  /\ UNCHANGED <<sessions, left, spent>>

-----------------------------------------------------------------------------
\* The first code of a secret puts it in force.
Protect(u, k) ==
  /\ protection[u] = NoSecret
  /\ protection' = [protection EXCEPT ![u] = k]
  /\ Spend(k)
  /\ SignOut(u)
  /\ UNCHANGED left

Unprotect(u) ==
  /\ protection[u] # NoSecret
  /\ protection' = [protection EXCEPT ![u] = NoSecret]
  /\ Spend(protection[u])
  /\ SignOut(u)
  /\ UNCHANGED left

\* By the operator of the server, who needs no code.
Reset(u) ==
  /\ protection' = [protection EXCEPT ![u] = NoSecret]
  /\ Closing
  /\ SignOut(u)
  /\ UNCHANGED spent

Revoke(u) ==
  /\ SignOut(u)
  /\ UNCHANGED <<protection, left, spent>>

-----------------------------------------------------------------------------
PermitStep(p) ==
  /\ UNCHANGED protection
  /\ \/ Drop(p) \/ Store(p)
     \/ \E u \in User : Allow(p, u)
     \/ \E u \in User, c \in Challenge : Answer(p, u, c)
     \/ \E s \in sessions : Renew(p, s)

ProtectionStep(u) ==
  \/ \E k \in Secret : Protect(u, k)
  \/ Unprotect(u) \/ Reset(u) \/ Revoke(u)

SignInNext ==
  \/ \E p \in Proc : PermitStep(p)
  \/ \E u \in User : ProtectionStep(u)
  \/ \E c \in Challenge : Refuse(c)
  \/ Close

SignInSpec == SignInInit /\ [][SignInNext]_promises
=============================================================================
