SPECIFICATION Spec
CONSTANTS
  User = {u1}
  Secret = {k1, k2}
  Proc = {p1, p2}
  Challenge = {c1, c2}
  NoUser = NoUser
  NoSecret = NoSecret
  NoChallenge = NoChallenge
  Deleted = Deleted
  MaxAttempts = 2
  ChallengeTTL = 1
  PendingTTL = 1
  MaxTime = 3
  MaxVersion = 3
SYMMETRY Symmetry
INVARIANTS CodeUsedOnce SecondFactorEnforced
PROPERTY SignInKept
