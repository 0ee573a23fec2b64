SPECIFICATION Both
CONSTANTS
  State = {s1, s2}
  User = {u1, u2}
  OpenId = {o1, o2}
  Proc = {p1, p2}
  NoState = NoState
  NoUser = NoUser
  NoOpenId = NoOpenId
  NoItem = NoItem
  MaxStates = 1
  Lifetime = 2
  MaxTime = 4
  Ip = {a1}
  NoIp = NoIp
  Handler = {p1, p2}
  Captcha = {s1, s2}
  CaptchaThreshold = 1
  BanThreshold = 3
  AttemptsWindow = 2
  BanDuration = 2
  CaptchaTTL = 1
  MaxActiveCaptchas = 1
  MaxClock = 5
SYMMETRY Symmetry
INVARIANTS SessionOnce GuessesBounded CaptchaOnce
PROPERTIES CompletedInTime
