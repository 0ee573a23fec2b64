SPECIFICATION HSpec
CONSTANTS
  User = {u1, u2}
  Token = {t1}
  Proc = {p1, p2}
  NoUser = NoUser
  NoToken = NoToken
  NoProc = NoProc
  Form <- SmallForms
  MaxVersion = 3
  LdapUser = {u1}
SYMMETRY Symmetry
INVARIANTS
  AdminExists
  KilledNeverAcceptedLocally
