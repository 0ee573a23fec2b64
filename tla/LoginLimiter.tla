---------------------------- MODULE LoginLimiter ----------------------------
(* The login limiter (utils/login_limiter.go) and the sign-in handlers that *)
(* ask it: of the console (which takes captchas), of the clients and of the *)
(* web client (which do not).  Every method of the limiter holds its mutex  *)
(* and is one step; a handler calls several of them, with the check of the  *)
(* password or the code in between.                                         *)
(*                                                                          *)
(* A password or code is wrong, right, right but of a disabled account, or  *)
(* right and to be followed by a code.  The middleware's check of every     *)
(* request is the handler's own first one made earlier, and left out.       *)
EXTENDS Integers, FiniteSets

CONSTANTS
  Ip, Handler,
  Captcha,                    \* the captchas that can be drawn
  NoIp,
  CaptchaThreshold, BanThreshold,
  AttemptsWindow, BanDuration, CaptchaTTL,
  MaxActiveCaptchas,
  MaxClock                    \* bound: the clock stops here

\* The limiter is on.  (A negative captcha threshold asks for a captcha always
\* or, without bans, switches it off.)
ASSUME LimiterAssumption ==
  /\ IsFiniteSet(Handler) /\ Handler # {}
  /\ CaptchaThreshold \in Nat /\ BanThreshold \in Nat
  /\ AttemptsWindow \in Nat \ {0} /\ CaptchaTTL \in Nat \ {0} /\ BanDuration \in Nat
  /\ MaxActiveCaptchas \in Nat /\ MaxClock \in Nat
  /\ NoIp \notin Ip

VARIABLES
  attempts,                   \* the failed attempts of an address: when, and the
                              \* how manieth of that moment
  bannedUntil,                \* the end of an address's ban; 0: no record
  captchas,                   \* the end of a stored captcha; 0: not stored
  handler,                    \* what each handler is doing
  clock,
  failures,                   \* history: wrong guesses since the last ban or
                              \* forgiveness, and whether each was made without a captcha
  shown, solved               \* history: captchas drawn, how often accepted

limits == <<attempts, bannedUntil, captchas, handler, clock, failures, shown, solved>>

-----------------------------------------------------------------------------
Endpoint == {"console", "client", "web"}

Resting == [pc |-> "idle", ip |-> NoIp, at |-> "web", need |-> FALSE, code |-> FALSE]

LimiterInit ==
  /\ attempts = [i \in Ip |-> {}]
  /\ bannedUntil = [i \in Ip |-> 0]
  /\ captchas = [c \in Captcha |-> 0]
  /\ handler = [h \in Handler |-> Resting]
  /\ clock = 1
  /\ failures = [i \in Ip |-> {}]
  /\ shown = {}
  /\ solved = [c \in Captcha |-> 0]

-----------------------------------------------------------------------------
(* The limiter                                                              *)

Since(s, time) == {a \in s : a.time > time}

Recent(s) == Since(s, clock - AttemptsWindow)

Nth(s) == Cardinality({a \in s : a.time = clock}) + 1

IsDisabled == CaptchaThreshold < 0 /\ BanThreshold = 0

IsBanned(i) == bannedUntil[i] # 0 /\ clock <= bannedUntil[i]

\* A ban that has passed is forgotten when it is looked at.
ForgetBan(i) == bannedUntil' = IF IsBanned(i) THEN bannedUntil
                                ELSE [bannedUntil EXCEPT ![i] = 0]

\* CheckSecurityStatus: the answer, and the pruning that comes with it.
CaptchaRequired(i) == ~IsDisabled /\ Cardinality(Recent(attempts[i])) >= CaptchaThreshold

CheckSecurityStatus(i) ==
  IF IsDisabled THEN UNCHANGED <<attempts, bannedUntil>>
  ELSE /\ ForgetBan(i)
       /\ attempts' = IF IsBanned(i) THEN attempts
                      ELSE [attempts EXCEPT ![i] = Recent(@)]

RecordFailedAttempt(i) ==
  LET valid == Recent(attempts[i]) \cup {[time |-> clock, nth |-> Nth(attempts[i])]} IN
  IF IsDisabled \/ IsBanned(i) THEN UNCHANGED <<attempts, bannedUntil, failures>>
  ELSE IF BanThreshold > 0 /\ Cardinality(valid) >= BanThreshold
    THEN /\ bannedUntil' = [bannedUntil EXCEPT ![i] = clock + BanDuration]
         /\ attempts' = [attempts EXCEPT ![i] = {}]
         /\ failures' = [failures EXCEPT ![i] = {}]
    ELSE /\ ForgetBan(i)
         /\ attempts' = [attempts EXCEPT ![i] = valid]
         /\ UNCHANGED failures

-----------------------------------------------------------------------------
(* The handlers                                                             *)

\* A password that was tried without a captcha.
Bold(w) == ~w.need /\ ~w.code

Goto(h, pc) == handler' = [handler EXCEPT ![h].pc = pc]
Finish(h) == handler' = [handler EXCEPT ![h] = Resting]

\* A sign-in with a password, or with a code and its challenge.
StartLogin(h, i, at, code) ==
  /\ handler[h].pc = "idle"
  /\ CheckSecurityStatus(i)
  /\ ~IsBanned(i)
  /\ CaptchaRequired(i) => at = "console"
  /\ handler' = [handler EXCEPT ![h] =
       [pc |-> IF CaptchaRequired(i) /\ ~code THEN "captcha" ELSE "verify",
        ip |-> i, at |-> at, need |-> CaptchaRequired(i), code |-> code]]
  /\ UNCHANGED <<captchas, clock, failures, shown, solved>>

\* The handler refuses, having looked.
RefuseLogin(i) ==
  /\ IsBanned(i) \/ CaptchaRequired(i)
  /\ CheckSecurityStatus(i)
  /\ UNCHANGED <<captchas, handler, clock, failures, shown, solved>>

\* A body that cannot be read, before anything else is asked of it, counts as
\* a failed attempt.
BadRequest(h) ==
  /\ \/ handler[h].pc = "captcha"
     \/ handler[h].pc = "verify" /\ (handler[h].need => handler[h].code)
  /\ RecordFailedAttempt(handler[h].ip)
  /\ Finish(h)
  /\ UNCHANGED <<captchas, clock, shown, solved>>

\* A plausible bug: an accepted captcha stays.
KeepsCaptcha(c) == captchas

Used(c) == [captchas EXCEPT ![c] = 0]

\* VerifyCaptcha with the right answer.
SolveCaptcha(h, c) ==
  /\ handler[h].pc = "captcha"
  /\ captchas[c] # 0
  /\ clock <= captchas[c]
  /\ captchas' = Used(c)
  /\ solved' = [solved EXCEPT ![c] = @ + 1]
  /\ Goto(h, "verify")
  /\ UNCHANGED <<attempts, bannedUntil, clock, failures, shown>>

\* A wrong answer, or one too late, which also removes the captcha.
RefuseCaptcha(h) ==
  /\ handler[h].pc = "captcha"
  /\ \/ UNCHANGED captchas
     \/ \E c \in Captcha : /\ captchas[c] # 0 /\ clock > captchas[c]
                           /\ captchas' = Used(c)
  /\ Finish(h)
  /\ UNCHANGED <<attempts, bannedUntil, clock, failures, shown, solved>>

\* The password or the code is wrong; the failure is recorded in a call of its
\* own.  The web client takes a disabled account for a wrong password.
WrongGuess(h) ==
  /\ handler[h].pc = "verify"
  /\ failures' = [failures EXCEPT ![handler[h].ip] =
       IF IsBanned(handler[h].ip) THEN @
       ELSE @ \cup {[time |-> clock, nth |-> Nth(@), bare |-> Bold(handler[h])]}]
  /\ Goto(h, "wrong")
  /\ UNCHANGED <<attempts, bannedUntil, captchas, clock, shown, solved>>

RecordWrongGuess(h) ==
  /\ handler[h].pc = "wrong"
  /\ RecordFailedAttempt(handler[h].ip)
  /\ IF handler[h].at = "console" THEN Goto(h, "recheck") ELSE Finish(h)
  /\ UNCHANGED <<captchas, clock, shown, solved>>

\* The console is told whether the next attempt needs a captcha.
Recheck(h) ==
  /\ handler[h].pc = "recheck"
  /\ CheckSecurityStatus(handler[h].ip)
  /\ Finish(h)
  /\ UNCHANGED <<captchas, clock, failures, shown, solved>>

\* A plausible bug: a right password is enough to be forgiven.
ForgivesPassword(h) ==
  /\ handler[h].pc = "verify"
  /\ attempts' = [attempts EXCEPT ![handler[h].ip] = {}]
  /\ Finish(h)
  /\ UNCHANGED <<bannedUntil, captchas, clock, failures, shown, solved>>

\* A disabled account, a challenge for the second factor, a storage error:
\* the attempts so far stay.
NoSession(h) ==
  /\ handler[h].pc = "verify"
  /\ Finish(h)
  /\ UNCHANGED <<attempts, bannedUntil, captchas, clock, failures, shown, solved>>

\* The session is stored, and then the attempts are removed, those recorded
\* in between included.
SignIn(h) ==
  /\ handler[h].pc = "verify"
  /\ Goto(h, "signed")
  /\ UNCHANGED <<attempts, bannedUntil, captchas, clock, failures, shown, solved>>

RemoveAttempts(h) ==
  /\ handler[h].pc = "signed"
  /\ attempts' = [attempts EXCEPT ![handler[h].ip] = {}]
  /\ failures' = [failures EXCEPT ![handler[h].ip] = {}]
  /\ Finish(h)
  /\ UNCHANGED <<bannedUntil, captchas, clock, shown, solved>>

\* The console's request for a captcha: the status, then the captcha.
AskCaptcha(h, i) ==
  /\ handler[h].pc = "idle"
  /\ CheckSecurityStatus(i)
  /\ ~IsBanned(i) /\ CaptchaRequired(i)
  /\ handler' = [handler EXCEPT ![h] = [Resting EXCEPT !.pc = "draw", !.ip = i]]
  /\ UNCHANGED <<captchas, clock, failures, shown, solved>>

LiveCaptchas == [c \in Captcha |-> IF captchas[c] > clock THEN captchas[c] ELSE 0]

Waiting(table) == {c \in Captcha : table[c] # 0}

RequireCaptcha(h) ==
  /\ handler[h].pc = "draw"
  /\ IF Cardinality(Waiting(LiveCaptchas)) >= MaxActiveCaptchas
       THEN captchas' = LiveCaptchas /\ UNCHANGED shown
       ELSE \E c \in Captcha \ shown :
              /\ captchas' = [LiveCaptchas EXCEPT ![c] = clock + CaptchaTTL]
              /\ shown' = shown \cup {c}
  /\ Finish(h)
  /\ UNCHANGED <<attempts, bannedUntil, clock, failures, solved>>

-----------------------------------------------------------------------------
CleanupExpired ==
  /\ bannedUntil' = [i \in Ip |-> IF IsBanned(i) THEN bannedUntil[i] ELSE 0]
  /\ attempts' = [i \in Ip |-> Recent(attempts[i])]
  /\ captchas' = [c \in Captcha |-> IF clock > captchas[c] THEN 0 ELSE captchas[c]]
  /\ UNCHANGED <<handler, clock, failures, shown, solved>>

\* The history forgets what is older than the window.
ClockTick ==
  /\ clock < MaxClock
  /\ clock' = clock + 1
  /\ failures' = [i \in Ip |-> Since(failures[i], clock + 1 - AttemptsWindow)]
  /\ UNCHANGED <<attempts, bannedUntil, captchas, handler, shown, solved>>

LoginStep(h) ==
  \/ \E i \in Ip, at \in Endpoint, code \in BOOLEAN : StartLogin(h, i, at, code)
  \/ \E i \in Ip : AskCaptcha(h, i)
  \/ \E c \in Captcha : SolveCaptcha(h, c)
  \/ BadRequest(h) \/ RefuseCaptcha(h)
  \/ WrongGuess(h) \/ RecordWrongGuess(h) \/ Recheck(h)
  \/ NoSession(h) \/ SignIn(h) \/ RemoveAttempts(h)
  \/ RequireCaptcha(h)

LimiterNext ==
  \/ \E h \in Handler : LoginStep(h)
  \/ \E i \in Ip : RefuseLogin(i)
  \/ CleanupExpired
  \/ ClockTick

LimiterSpec == LimiterInit /\ [][LimiterNext]_limits

-----------------------------------------------------------------------------
\* The limiter bounds guessing, although the check and the record of a handler
\* are two calls with others in between.  In a window an address has less than
\* BanThreshold wrong guesses, of passwords and codes, and those of the
\* handlers that were let in before the last of them was recorded, unless
\* somebody signs in from there; and less than CaptchaThreshold and as many
\* wrong passwords guessed without a captcha.  During a ban only handlers let in
\* before it guess, once each, and those are not counted again
\* (CheckSecurityStatus, RecordFailedAttempt, RemoveAttempts).
Bare(i) == {f \in failures[i] : f.bare}

GuessesBounded ==
  \A i \in Ip :
    /\ BanThreshold > 0 => Cardinality(failures[i]) < BanThreshold + Cardinality(Handler)
    /\ Cardinality(Bare(i)) < CaptchaThreshold + Cardinality(Handler)

\* A captcha lets one request through, however many carry its answer at once,
\* and the pool never outgrows its limit.
CaptchaOnce ==
  /\ \A c \in Captcha : solved[c] <= 1
  /\ Cardinality(Waiting(captchas)) <= MaxActiveCaptchas

-----------------------------------------------------------------------------
(* What the limiter keeps, whatever its handlers do                         *)

Attempt == [time : Nat, nth : Nat]
Failure == [time : Nat, nth : Nat, bare : BOOLEAN]

Work == [pc : {"idle", "captcha", "verify", "wrong", "recheck", "signed", "draw"},
         ip : Ip \cup {NoIp}, at : Endpoint, need : BOOLEAN, code : BOOLEAN]

LimiterTypes ==
  /\ attempts \in [Ip -> SUBSET Attempt] /\ failures \in [Ip -> SUBSET Failure]
  /\ bannedUntil \in [Ip -> Nat] /\ captchas \in [Captcha -> Nat]
  /\ handler \in [Handler -> Work]
  /\ \A h \in Handler : /\ handler[h].pc # "idle" => handler[h].ip \in Ip
                        /\ handler[h].pc = "captcha" => handler[h].need
  /\ clock \in Nat \ {0}
  /\ shown \in SUBSET Captcha /\ solved \in [Captcha -> Nat]

\* The next attempt of this moment is a new one.
Numbered(s) ==
  /\ IsFiniteSet(s)
  /\ \A a \in s : a.time <= clock /\ (a.time = clock => a.nth < Nth(s))

\* Those whose wrong guess is not recorded yet, and those who are let in and
\* may guess without a captcha.
Unrecorded(i) == {h \in Handler : handler[h].pc = "wrong" /\ handler[h].ip = i}
LetIn(i) == {h \in Handler : /\ handler[h].pc = "verify" /\ handler[h].ip = i
                             /\ Bold(handler[h])}

\* Since any moment of the window, no more were wrong than are recorded and
\* will be.
CountsBound(i) ==
  /\ Numbered(attempts[i]) /\ Numbered(failures[i])
  /\ \A f \in failures[i] : f.time > clock - AttemptsWindow
  /\ IsBanned(i) => failures[i] = {}
  /\ \A time \in clock - AttemptsWindow..clock - 1 :
       Cardinality(Since(failures[i], time))
         <= Cardinality(Since(attempts[i], time)) + Cardinality(Unrecorded(i))
  /\ BanThreshold > 0 => Cardinality(Recent(attempts[i])) < BanThreshold
  /\ Cardinality(Bare(i)) + Cardinality(LetIn(i)) < CaptchaThreshold + Cardinality(Handler)

\* A stored captcha was drawn and has let nobody through.
CaptchasFresh ==
  /\ IsFiniteSet(Waiting(captchas)) /\ Cardinality(Waiting(captchas)) <= MaxActiveCaptchas
  /\ \A c \in Captcha : /\ solved[c] <= 1
                        /\ captchas[c] # 0 \/ c \notin shown => solved[c] = 0
                        /\ captchas[c] # 0 => c \in shown

\* Together they are inductive.
LimiterInv == LimiterTypes /\ CaptchasFresh /\ \A i \in Ip : CountsBound(i)
=============================================================================
