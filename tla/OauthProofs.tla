----------------------------- MODULE OauthProofs -----------------------------
(* Proofs about the sign-ins.  First LoginLimiter: what can be guessed from *)
(* an address, and what a captcha lets through, for any number of handlers, *)
(* any thresholds and times.  Then OauthHistory, for any number of states,  *)
(* accounts, identities and handlers, any capacity and any lifetime.        *)
EXTENDS OauthHistory, LoginLimiter, FiniteSetTheorems, TLAPS

-----------------------------------------------------------------------------
(* The limiter: sets of attempts                                            *)

Timed(s) == \A a \in s : a.time \in Nat /\ a.nth \in Nat

LEMMA SinceFinite ==
  ASSUME NEW s, IsFiniteSet(s), NEW time
  PROVE  IsFiniteSet(Since(s, time)) /\ Cardinality(Since(s, time)) \in Nat
BY FS_Subset, FS_CardinalityType DEF Since

LEMMA RecentKept ==
  ASSUME clock \in Nat, NEW s, Timed(s), Numbered(s)
  PROVE  /\ Timed(Recent(s)) /\ Numbered(Recent(s)) /\ Nth(Recent(s)) = Nth(s)
         /\ Recent(Recent(s)) = Recent(s)
         /\ \A time \in clock - AttemptsWindow..clock - 1 : Since(Recent(s), time) = Since(s, time)
<1> USE LimiterAssumption
<1>1. IsFiniteSet(Recent(s)) /\ Recent(s) \subseteq s
  BY FS_Subset DEF Numbered, Recent, Since
<1>2. {a \in Recent(s) : a.time = clock} = {a \in s : a.time = clock}
  BY DEF Recent, Since
<1>3. Nth(Recent(s)) = Nth(s)
  BY <1>2 DEF Nth
<1>4. \A time \in clock - AttemptsWindow..clock - 1 : Since(Recent(s), time) = Since(s, time)
  BY DEF Recent, Since, Timed
<1>5. Recent(Recent(s)) = Recent(s)
  BY DEF Recent, Since
<1> QED
  BY <1>1, <1>3, <1>4, <1>5 DEF Numbered, Timed

LEMMA OneAdded ==
  ASSUME clock \in Nat, NEW s, Timed(s), Numbered(s),
         NEW e, e.time = clock, e.nth = Nth(s), NEW t, t = s \cup {e}
  PROVE  /\ e \notin s /\ Timed(t) /\ Numbered(t)
         /\ \A time \in Int : time < clock =>
              Cardinality(Since(t, time)) = Cardinality(Since(s, time)) + 1
<1>1. IsFiniteSet(s) /\ IsFiniteSet(t)
  BY FS_AddElement DEF Numbered
<1> DEFINE Of(x) == {a \in x : a.time = clock}
<1>2. IsFiniteSet(Of(s)) /\ Cardinality(Of(s)) \in Nat
  BY <1>1, FS_Subset, FS_CardinalityType
<1>3. Nth(s) = Cardinality(Of(s)) + 1 /\ Nth(t) = Cardinality(Of(t)) + 1
  BY DEF Nth
<1>4. e \notin s
  BY <1>2, <1>3 DEF Numbered
<1>5. Of(t) = Of(s) \cup {e} /\ e \notin Of(s)
  BY <1>4
<1> HIDE DEF Of
<1>6. Cardinality(Of(t)) = Cardinality(Of(s)) + 1
  BY <1>2, <1>5, FS_AddElement
<1>7. Numbered(t)
  BY <1>1, <1>2, <1>3, <1>6 DEF Numbered, Timed
<1>8. ASSUME NEW time \in Int, time < clock
      PROVE  Cardinality(Since(t, time)) = Cardinality(Since(s, time)) + 1
  <2>1. Since(t, time) = Since(s, time) \cup {e} /\ e \notin Since(s, time)
    BY <1>4, <1>8 DEF Since
  <2> QED
    BY <1>1, <2>1, SinceFinite, FS_AddElement
<1>9. Timed(t)
  BY <1>2, <1>3 DEF Timed
<1> QED
  BY <1>4, <1>7, <1>8, <1>9

-----------------------------------------------------------------------------
(* The handlers that guess                                                   *)

LEMMA GuessersFinite ==
  ASSUME NEW i
  PROVE  /\ IsFiniteSet(Unrecorded(i)) /\ Cardinality(Unrecorded(i)) \in Nat
         /\ IsFiniteSet(LetIn(i)) /\ Cardinality(LetIn(i)) \in Nat
         /\ Cardinality(Handler) \in Nat
         /\ Cardinality(Unrecorded(i)) + Cardinality(LetIn(i)) <= Cardinality(Handler)
<1>1. IsFiniteSet(Handler) /\ Unrecorded(i) \subseteq Handler /\ LetIn(i) \subseteq Handler
  BY LimiterAssumption DEF Unrecorded, LetIn
<1>2. IsFiniteSet(Unrecorded(i)) /\ IsFiniteSet(LetIn(i))
  BY <1>1, FS_Subset
<1>3. Unrecorded(i) \cap LetIn(i) = {} /\ Unrecorded(i) \cup LetIn(i) \subseteq Handler
  BY DEF Unrecorded, LetIn
<1>4. Cardinality(Unrecorded(i) \cup LetIn(i)) = Cardinality(Unrecorded(i)) + Cardinality(LetIn(i))
  <2>1. Cardinality(Unrecorded(i) \cup LetIn(i))
          = Cardinality(Unrecorded(i)) + Cardinality(LetIn(i)) - Cardinality(Unrecorded(i) \cap LetIn(i))
    BY <1>2, FS_Union
  <2>2. Cardinality(Unrecorded(i) \cap LetIn(i)) = 0
    BY <1>3, FS_EmptySet
  <2> QED
    BY <1>2, <2>1, <2>2, FS_CardinalityType
<1>5. Cardinality(Unrecorded(i) \cup LetIn(i)) <= Cardinality(Handler)
  BY <1>1, <1>3, FS_Subset
<1> QED
  BY <1>1, <1>2, <1>4, <1>5, FS_CardinalityType

\* A handler goes on: it joins or leaves those of its address.
LEMMA Moves ==
  ASSUME LimiterTypes, NEW h \in Handler, NEW w, handler' = [handler EXCEPT ![h] = w], NEW i
  PROVE  /\ Unrecorded(i)' = IF w.pc = "wrong" /\ w.ip = i THEN Unrecorded(i) \cup {h}
                             ELSE Unrecorded(i) \ {h}
         /\ LetIn(i)' = IF w.pc = "verify" /\ w.ip = i /\ Bold(w) THEN LetIn(i) \cup {h}
                        ELSE LetIn(i) \ {h}
<1>1. \A x \in Handler : handler'[x] = IF x = h THEN w ELSE handler[x]
  BY DEF LimiterTypes
<1>2. Unrecorded(i)' = {x \in Handler : handler'[x].pc = "wrong" /\ handler'[x].ip = i}
  BY DEF Unrecorded
<1>3. LetIn(i)' = {x \in Handler : handler'[x].pc = "verify" /\ handler'[x].ip = i /\ Bold(handler'[x])}
  BY DEF LetIn, Bold
<1>4. Unrecorded(i)' = IF w.pc = "wrong" /\ w.ip = i THEN Unrecorded(i) \cup {h}
                       ELSE Unrecorded(i) \ {h}
  BY <1>1, <1>2 DEF Unrecorded
<1>5. LetIn(i)' = IF w.pc = "verify" /\ w.ip = i /\ Bold(w) THEN LetIn(i) \cup {h}
                  ELSE LetIn(i) \ {h}
  BY <1>1, <1>3 DEF LetIn
<1> QED
  BY <1>4, <1>5

-----------------------------------------------------------------------------
(* The counts of an address, after each kind of step                         *)

LEMMA CountsTyped ==
  ASSUME LimiterTypes, NEW i \in Ip, CountsBound(i)
  PROVE  /\ clock \in Nat /\ clock \in Int /\ AttemptsWindow \in Nat \ {0}
         /\ Timed(attempts[i]) /\ Timed(failures[i])
         /\ IsFiniteSet(attempts[i]) /\ IsFiniteSet(failures[i])
         /\ IsFiniteSet(Bare(i)) /\ Cardinality(Bare(i)) \in Nat
<1>1. attempts[i] \subseteq Attempt /\ failures[i] \subseteq Failure /\ clock \in Nat
  BY DEF LimiterTypes
<1>2. Timed(attempts[i]) /\ Timed(failures[i])
  BY <1>1 DEF Timed, Attempt, Failure
<1>3. IsFiniteSet(attempts[i]) /\ IsFiniteSet(failures[i])
  BY DEF CountsBound, Numbered
<1>4. IsFiniteSet(Bare(i)) /\ Cardinality(Bare(i)) \in Nat
  BY <1>3, FS_Subset, FS_CardinalityType DEF Bare
<1> QED
  BY <1>1, <1>2, <1>3, <1>4, LimiterAssumption

\* Nothing is counted and nothing forgotten but what is past the window.
LEMMA QuietCounts ==
  ASSUME LimiterTypes, NEW i \in Ip, CountsBound(i), clock' = clock,
         attempts'[i] \in {attempts[i], Recent(attempts[i])}, failures'[i] = failures[i],
         IsBanned(i)' = IsBanned(i),
         Unrecorded(i)' = Unrecorded(i) \/ failures[i] = {},
         Cardinality(Bare(i)) + Cardinality(LetIn(i)') < CaptchaThreshold + Cardinality(Handler)
  PROVE  CountsBound(i)'
<1> DEFINE window == clock - AttemptsWindow..clock - 1
<1>1. clock \in Nat /\ Timed(attempts[i]) /\ IsFiniteSet(attempts[i])
  BY CountsTyped
<1>2. /\ Numbered(attempts'[i]) /\ Recent(attempts'[i]) = Recent(attempts[i])
      /\ \A time \in window : Since(attempts'[i], time) = Since(attempts[i], time)
  BY <1>1, RecentKept DEF CountsBound
<1>3. Numbered(attempts[i])' /\ Numbered(failures[i])' /\ Recent(attempts[i])' = Recent(attempts[i])
  BY <1>2 DEF CountsBound, Numbered, Nth, Recent, Since
<1>4. Bare(i)' = Bare(i)
  BY DEF Bare
<1>5. \A time \in window :
        Cardinality(Since(failures'[i], time))
          <= Cardinality(Since(attempts'[i], time)) + Cardinality(Unrecorded(i)')
  <2>1. CASE Unrecorded(i)' = Unrecorded(i)
    BY <1>2, <2>1 DEF CountsBound
  <2>2. CASE failures[i] = {}
    <3>1. \A time : Since(failures'[i], time) = {}
      BY <2>2 DEF Since
    <3>2. IsFiniteSet(Unrecorded(i)')
      <4>1. Unrecorded(i)' \subseteq Handler
        BY DEF Unrecorded
      <4> QED
        BY <4>1, FS_Subset, LimiterAssumption
    <3>3. Cardinality(Unrecorded(i)') \in Nat /\ Cardinality({}) = 0
      BY <3>2, FS_EmptySet, FS_CardinalityType
    <3>4. \A time : Cardinality(Since(attempts'[i], time)) \in Nat
      BY <1>2, SinceFinite DEF Numbered
    <3>5. ASSUME NEW time \in window
          PROVE  Cardinality(Since(failures'[i], time))
                   <= Cardinality(Since(attempts'[i], time)) + Cardinality(Unrecorded(i)')
      <4>1. Cardinality(Since(failures'[i], time)) = 0
        BY <3>1, <3>3
      <4> QED
        BY <3>3, <3>4, <4>1
    <3> QED
      BY <3>5
  <2> QED
    BY <2>1, <2>2
<1> HIDE DEF window
<1>6. /\ \A f \in failures'[i] : f.time > clock' - AttemptsWindow
      /\ IsBanned(i)' => failures'[i] = {}
      /\ BanThreshold > 0 => Cardinality(Recent(attempts[i])') < BanThreshold
      /\ Cardinality(Bare(i)') + Cardinality(LetIn(i)') < CaptchaThreshold + Cardinality(Handler)
  BY <1>3, <1>4 DEF CountsBound
<1>7. \A time \in clock' - AttemptsWindow..clock' - 1 :
        Cardinality(Since(failures'[i], time))
          <= Cardinality(Since(attempts'[i], time)) + Cardinality(Unrecorded(i)')
  BY <1>5 DEF window
<1> QED
  BY <1>3, <1>6, <1>7 DEF CountsBound

\* Fewer handlers are let in.
LEMMA LetInLess ==
  ASSUME NEW i, LetIn(i)' \subseteq LetIn(i)
  PROVE  IsFiniteSet(LetIn(i)') /\ Cardinality(LetIn(i)') \in Nat
         /\ Cardinality(LetIn(i)') <= Cardinality(LetIn(i))
BY GuessersFinite, FS_Subset, FS_CardinalityType

LEMMA LetInBound ==
  ASSUME LimiterTypes, NEW i \in Ip, CountsBound(i), LetIn(i)' \subseteq LetIn(i)
  PROVE  Cardinality(Bare(i)) + Cardinality(LetIn(i)') < CaptchaThreshold + Cardinality(Handler)
<1>1. Cardinality(Bare(i)) + Cardinality(LetIn(i)) < CaptchaThreshold + Cardinality(Handler)
  BY DEF CountsBound
<1> QED
  BY <1>1, LetInLess, CountsTyped, GuessersFinite, LimiterAssumption

\* A ban, or a sign-in that is forgiven.
LEMMA ClearedCounts ==
  ASSUME LimiterTypes, NEW i \in Ip, CountsBound(i), clock' = clock,
         attempts'[i] = {}, failures'[i] = {}, LetIn(i)' \subseteq LetIn(i)
  PROVE  CountsBound(i)'
<1>1. Cardinality({}) = 0 /\ IsFiniteSet({})
  BY FS_EmptySet
<1>2. Numbered(attempts[i])' /\ Numbered(failures[i])'
  BY <1>1 DEF Numbered
<1>3. \A time : Since(failures'[i], time) = {} /\ Since(attempts'[i], time) = {}
  BY DEF Since
<1>4. Recent(attempts[i])' = {} /\ Bare(i)' = {}
  BY DEF Recent, Since, Bare
<1>5. Cardinality(Unrecorded(i)') \in Nat
  <2>1. Unrecorded(i)' \subseteq Handler
    BY DEF Unrecorded
  <2> QED
    BY <2>1, FS_Subset, FS_CardinalityType, LimiterAssumption
<1>6. \A time : Cardinality(Since(failures'[i], time))
                  <= Cardinality(Since(attempts'[i], time)) + Cardinality(Unrecorded(i)')
  BY <1>1, <1>3, <1>5
<1>7. /\ BanThreshold > 0 => Cardinality(Recent(attempts[i])') < BanThreshold
      /\ Cardinality(Bare(i)') + Cardinality(LetIn(i)') < CaptchaThreshold + Cardinality(Handler)
  <2>1. Cardinality(LetIn(i)') < CaptchaThreshold + Cardinality(Handler)
    BY LetInBound, LetInLess, CountsTyped, GuessersFinite, LimiterAssumption
  <2> QED
    BY <1>1, <1>4, <2>1, LetInLess
<1> QED
  BY <1>2, <1>6, <1>7 DEF CountsBound

\* One more is recorded, of this moment.
LEMMA RecordedCounts ==
  ASSUME LimiterTypes, NEW i \in Ip, CountsBound(i), clock' = clock,
         attempts'[i] = Recent(attempts[i]) \cup {[time |-> clock, nth |-> Nth(attempts[i])]},
         BanThreshold > 0 => Cardinality(attempts'[i]) < BanThreshold,
         failures'[i] = failures[i], IsBanned(i)' = IsBanned(i), NEW h,
         Unrecorded(i)' = Unrecorded(i) \ {h}, LetIn(i)' \subseteq LetIn(i)
  PROVE  CountsBound(i)'
<1> DEFINE e == [time |-> clock, nth |-> Nth(attempts[i])]
           r == Recent(attempts[i])
           t == r \cup {e}
           window == clock - AttemptsWindow..clock - 1
<1>1. clock \in Nat /\ Timed(attempts[i]) /\ Numbered(attempts[i]) /\ AttemptsWindow \in Nat \ {0}
  BY CountsTyped DEF CountsBound
<1>2. /\ Timed(r) /\ Numbered(r) /\ Nth(r) = Nth(attempts[i])
      /\ \A time \in window : Since(r, time) = Since(attempts[i], time)
  BY <1>1, RecentKept
<1>3. e.time = clock /\ e.nth = Nth(r) /\ attempts'[i] = t
  BY <1>2
<1>4. Recent(t) = t
  BY <1>1, <1>3 DEF Recent, Since
<1>5. t = r \cup {e}
  OBVIOUS
<1> HIDE DEF e, r, t
<1>6. /\ Numbered(t)
      /\ \A time \in Int : time < clock => Cardinality(Since(t, time)) = Cardinality(Since(r, time)) + 1
  BY <1>1, <1>2, <1>3, <1>5, OneAdded
<1>7. \A time \in window :
        Cardinality(Since(t, time)) = Cardinality(Since(attempts[i], time)) + 1
        /\ Cardinality(Since(attempts[i], time)) \in Nat
        /\ Cardinality(Since(failures[i], time)) \in Nat
  BY <1>1, <1>2, <1>6, SinceFinite, CountsTyped
<1>8. Cardinality(Unrecorded(i)') \in Nat /\ Cardinality(Unrecorded(i)) <= Cardinality(Unrecorded(i)') + 1
  <2>1. IsFiniteSet(Unrecorded(i)) /\ Cardinality(Unrecorded(i)) \in Nat
    BY GuessersFinite
  <2>2. /\ IsFiniteSet(Unrecorded(i)')
        /\ Cardinality(Unrecorded(i)') = IF h \in Unrecorded(i) THEN Cardinality(Unrecorded(i)) - 1
                                         ELSE Cardinality(Unrecorded(i))
    BY <2>1, FS_RemoveElement
  <2>3. Cardinality(Unrecorded(i)') \in Nat
    BY <2>2, FS_CardinalityType
  <2> QED
    BY <2>1, <2>2, <2>3
<1>9. \A time \in window :
        Cardinality(Since(failures'[i], time))
          <= Cardinality(Since(attempts'[i], time)) + Cardinality(Unrecorded(i)')
  <2> SUFFICES ASSUME NEW time \in window
               PROVE  Cardinality(Since(failures[i], time))
                        <= Cardinality(Since(t, time)) + Cardinality(Unrecorded(i)')
    BY <1>3
  <2>1. Cardinality(Since(failures[i], time))
          <= Cardinality(Since(attempts[i], time)) + Cardinality(Unrecorded(i))
    BY DEF CountsBound
  <2>2. Cardinality(Unrecorded(i)) \in Nat
    BY GuessersFinite
  <2> QED
    BY <1>7, <1>8, <2>1, <2>2
<1>10. Numbered(attempts[i])' /\ Numbered(failures[i])' /\ Recent(attempts[i])' = t /\ Bare(i)' = Bare(i)
  BY <1>3, <1>4, <1>6 DEF CountsBound, Numbered, Nth, Recent, Since, Bare
<1> HIDE DEF window
<1>11. /\ \A f \in failures'[i] : f.time > clock' - AttemptsWindow
       /\ IsBanned(i)' => failures'[i] = {}
       /\ BanThreshold > 0 => Cardinality(Recent(attempts[i])') < BanThreshold
  BY <1>3, <1>10 DEF CountsBound
<1>12. Cardinality(Bare(i)') + Cardinality(LetIn(i)') < CaptchaThreshold + Cardinality(Handler)
  BY <1>10, LetInBound
<1>13. \A time \in clock' - AttemptsWindow..clock' - 1 :
        Cardinality(Since(failures'[i], time))
          <= Cardinality(Since(attempts'[i], time)) + Cardinality(Unrecorded(i)')
  BY <1>9 DEF window
<1> QED
  BY <1>10, <1>11, <1>12, <1>13 DEF CountsBound

\* A wrong guess.
LEMMA GuessedCounts ==
  ASSUME LimiterTypes, NEW i \in Ip, CountsBound(i), clock' = clock,
         attempts'[i] = attempts[i], IsBanned(i)' = IsBanned(i), ~IsBanned(i),
         NEW bare \in BOOLEAN,
         failures'[i] = failures[i] \cup {[time |-> clock, nth |-> Nth(failures[i]), bare |-> bare]},
         NEW h, h \notin Unrecorded(i), Unrecorded(i)' = Unrecorded(i) \cup {h},
         LetIn(i)' = LetIn(i) \ {h}, bare => h \in LetIn(i)
  PROVE  CountsBound(i)'
<1> DEFINE e == [time |-> clock, nth |-> Nth(failures[i]), bare |-> bare]
           s == failures[i]
           t == s \cup {e}
           window == clock - AttemptsWindow..clock - 1
<1>1. clock \in Nat /\ Timed(s) /\ Numbered(s) /\ AttemptsWindow \in Nat \ {0}
  BY CountsTyped DEF CountsBound
<1>2. e.time = clock /\ e.nth = Nth(s) /\ failures'[i] = t /\ t = s \cup {e} /\ e.bare = bare
  OBVIOUS
<1>3. Bare(i) = {f \in s : f.bare} /\ Bare(i)' = {f \in t : f.bare}
  BY <1>2 DEF Bare
<1>4. \A f \in s : f.time > clock - AttemptsWindow
  BY DEF CountsBound
<1> HIDE DEF e, s, t
<1>5. /\ e \notin s /\ Numbered(t)
      /\ \A time \in Int : time < clock => Cardinality(Since(t, time)) = Cardinality(Since(s, time)) + 1
  BY <1>1, <1>2, OneAdded
<1>6. Cardinality(Unrecorded(i)') = Cardinality(Unrecorded(i)) + 1 /\ Cardinality(Unrecorded(i)) \in Nat
  BY GuessersFinite, FS_AddElement
<1>7. \A time \in window :
        Cardinality(Since(failures'[i], time))
          <= Cardinality(Since(attempts'[i], time)) + Cardinality(Unrecorded(i)')
  <2> SUFFICES ASSUME NEW time \in window
               PROVE  Cardinality(Since(t, time))
                        <= Cardinality(Since(attempts[i], time)) + Cardinality(Unrecorded(i)')
    BY <1>2
  <2>1. Cardinality(Since(s, time))
          <= Cardinality(Since(attempts[i], time)) + Cardinality(Unrecorded(i))
    BY DEF CountsBound, s
  <2>2. Cardinality(Since(t, time)) = Cardinality(Since(s, time)) + 1
    BY <1>1, <1>5
  <2>3. Cardinality(Since(s, time)) \in Nat /\ Cardinality(Since(attempts[i], time)) \in Nat
    BY CountsTyped, SinceFinite DEF s
  <2> QED
    BY <1>6, <2>1, <2>2, <2>3
<1>8. Cardinality(Bare(i)') + Cardinality(LetIn(i)') < CaptchaThreshold + Cardinality(Handler)
  <2>1. Cardinality(Bare(i)) + Cardinality(LetIn(i)) < CaptchaThreshold + Cardinality(Handler)
    BY DEF CountsBound
  <2>2. /\ IsFiniteSet(Bare(i)) /\ Cardinality(Bare(i)) \in Nat
        /\ IsFiniteSet(LetIn(i)) /\ Cardinality(LetIn(i)) \in Nat /\ Cardinality(Handler) \in Nat
    BY CountsTyped, GuessersFinite
  <2>3. CASE bare
    <3>1. Bare(i)' = Bare(i) \cup {e} /\ e \notin Bare(i)
      BY <1>2, <1>3, <1>5, <2>3
    <3>2. Cardinality(Bare(i)') = Cardinality(Bare(i)) + 1
      BY <2>2, <3>1, FS_AddElement
    <3>3. Cardinality(LetIn(i)') = Cardinality(LetIn(i)) - 1
      BY <2>2, <2>3, FS_RemoveElement
    <3> QED
      BY <2>1, <2>2, <3>2, <3>3, LimiterAssumption
  <2>4. CASE ~bare
    <3>1. Bare(i)' = Bare(i)
      BY <1>2, <1>3, <2>4
    <3>2. Cardinality(LetIn(i)') \in Nat /\ Cardinality(LetIn(i)') <= Cardinality(LetIn(i))
      BY LetInLess
    <3> QED
      BY <2>1, <2>2, <3>1, <3>2, LimiterAssumption
  <2> QED
    BY <2>3, <2>4
<1>9. Numbered(failures[i])' /\ Numbered(attempts[i])' /\ Recent(attempts[i])' = Recent(attempts[i])
  BY <1>2, <1>5 DEF CountsBound, Numbered, Nth, Recent
<1>10. \A f \in failures'[i] : f.time > clock' - AttemptsWindow
  BY <1>1, <1>2, <1>4
<1> HIDE DEF window
<1>11. /\ IsBanned(i)' => failures'[i] = {}
       /\ BanThreshold > 0 => Cardinality(Recent(attempts[i])') < BanThreshold
  BY <1>9 DEF CountsBound
<1>12. \A time \in clock' - AttemptsWindow..clock' - 1 :
        Cardinality(Since(failures'[i], time))
          <= Cardinality(Since(attempts'[i], time)) + Cardinality(Unrecorded(i)')
  BY <1>7 DEF window
<1> QED
  BY <1>8, <1>9, <1>10, <1>11, <1>12 DEF CountsBound

\* Time passes.
LEMMA TickedCounts ==
  ASSUME LimiterTypes, NEW i \in Ip, CountsBound(i), clock' = clock + 1,
         UNCHANGED <<attempts, bannedUntil, handler>>,
         failures'[i] = Since(failures[i], clock + 1 - AttemptsWindow)
  PROVE  CountsBound(i)'
<1> DEFINE s == failures[i]
           t == Since(s, clock + 1 - AttemptsWindow)
<1>1. /\ clock \in Nat /\ Timed(s) /\ Timed(attempts[i]) /\ AttemptsWindow \in Nat \ {0}
      /\ IsFiniteSet(s) /\ IsFiniteSet(attempts[i])
  BY CountsTyped
<1>2. IsFiniteSet(t) /\ t \subseteq s
  BY <1>1, SinceFinite DEF Since
<1>3. (\A f \in s : f.time <= clock) /\ (\A a \in attempts[i] : a.time <= clock)
  BY DEF CountsBound, Numbered
<1>4. Numbered(failures[i])' /\ Numbered(attempts[i])'
  BY <1>1, <1>2, <1>3 DEF Numbered, Timed
<1>5. \A f \in failures'[i] : f.time > clock' - AttemptsWindow
  BY <1>1, <1>2 DEF Since
<1>6. IsBanned(i)' => failures'[i] = {}
  <2>1. bannedUntil[i] \in Nat
    BY DEF LimiterTypes
  <2>2. IsBanned(i)' => IsBanned(i)
    BY <1>1, <2>1 DEF IsBanned
  <2> QED
    BY <1>2, <2>2 DEF CountsBound
<1>7. Unrecorded(i)' = Unrecorded(i) /\ LetIn(i)' = LetIn(i)
  BY DEF Unrecorded, LetIn
<1>8. ASSUME NEW time \in clock' - AttemptsWindow..clock' - 1
      PROVE  Cardinality(Since(failures'[i], time))
               <= Cardinality(Since(attempts'[i], time)) + Cardinality(Unrecorded(i)')
  <2>1. Cardinality(Since(attempts[i], time)) \in Nat /\ Cardinality(Unrecorded(i)) \in Nat
    BY <1>1, SinceFinite, GuessersFinite
  <2>2. CASE time = clock
    <3>1. Since(t, time) = {}
      BY <1>1, <1>2, <1>3, <2>2 DEF Since, Timed
    <3>2. Cardinality(Since(t, time)) = 0
      BY <3>1, FS_EmptySet
    <3> QED
      BY <1>7, <2>1, <3>2
  <2>3. CASE time # clock
    <3>1. time \in clock - AttemptsWindow..clock - 1 /\ time >= clock + 1 - AttemptsWindow /\ time \in Int
      BY <1>1, <1>8, <2>3
    <3>2. Since(t, time) = Since(s, time)
      BY <1>1, <3>1 DEF Since, Timed
    <3> QED
      BY <1>7, <3>1, <3>2 DEF CountsBound
  <2> QED
    BY <2>2, <2>3
<1>9. BanThreshold > 0 => Cardinality(Recent(attempts[i])') < BanThreshold
  <2>1. Recent(attempts[i])' \subseteq Recent(attempts[i])
    BY <1>1 DEF Recent, Since, Timed
  <2>2. IsFiniteSet(Recent(attempts[i])) /\ Cardinality(Recent(attempts[i])) \in Nat
    BY <1>1, SinceFinite DEF Recent
  <2>3. Cardinality(Recent(attempts[i])') <= Cardinality(Recent(attempts[i]))
        /\ Cardinality(Recent(attempts[i])') \in Nat
    BY <2>1, <2>2, FS_Subset, FS_CardinalityType
  <2> QED
    BY <2>2, <2>3, LimiterAssumption DEF CountsBound
<1>10. Cardinality(Bare(i)') + Cardinality(LetIn(i)') < CaptchaThreshold + Cardinality(Handler)
  <2>1. Bare(i)' \subseteq Bare(i)
    BY <1>2 DEF Bare
  <2>2. Cardinality(Bare(i)') <= Cardinality(Bare(i)) /\ Cardinality(Bare(i)') \in Nat
    BY <2>1, CountsTyped, FS_Subset, FS_CardinalityType
  <2> QED
    BY <1>7, <2>2, CountsTyped, GuessersFinite, LimiterAssumption DEF CountsBound
<1> QED
  BY <1>4, <1>5, <1>6, <1>8, <1>9, <1>10 DEF CountsBound

-----------------------------------------------------------------------------
(* The methods of the limiter                                                *)

LEMMA RestingTyped == Resting \in Work /\ Resting.pc = "idle" /\ ~(Resting.pc = "verify")
BY DEF Resting, Work, Endpoint

LEMMA CountsFinite ==
  ASSUME LimiterInv, NEW i \in Ip
  PROVE  /\ CountsBound(i) /\ Nth(attempts[i]) \in Nat /\ Nth(failures[i]) \in Nat
         /\ Recent(attempts[i]) \subseteq attempts[i]
<1>1. CountsBound(i) /\ LimiterTypes
  BY DEF LimiterInv
<1>2. IsFiniteSet(attempts[i]) /\ IsFiniteSet(failures[i])
  BY <1>1, CountsTyped
<1>3. \A s : IsFiniteSet(s) => Nth(s) \in Nat
  <2> SUFFICES ASSUME NEW s, IsFiniteSet(s)
               PROVE  Nth(s) \in Nat
    OBVIOUS
  <2>1. IsFiniteSet({a \in s : a.time = clock})
    BY FS_Subset
  <2>2. Cardinality({a \in s : a.time = clock}) \in Nat
    BY <2>1, FS_CardinalityType
  <2> QED
    BY <2>2 DEF Nth
<1> QED
  BY <1>1, <1>2, <1>3 DEF Recent, Since

LEMMA ForgottenBan ==
  ASSUME LimiterInv, NEW k \in Ip, ForgetBan(k), clock' = clock
  PROVE  /\ bannedUntil' \in [Ip -> Nat]
         /\ \A j \in Ip : IsBanned(j)' = IsBanned(j)
<1>1. bannedUntil \in [Ip -> Nat]
  BY DEF LimiterInv, LimiterTypes
<1> QED
  BY <1>1 DEF ForgetBan, IsBanned

LEMMA StatusChecked ==
  ASSUME LimiterInv, NEW k \in Ip, CheckSecurityStatus(k), clock' = clock
  PROVE  /\ bannedUntil' \in [Ip -> Nat] /\ attempts' \in [Ip -> SUBSET Attempt]
         /\ \A j \in Ip : /\ IsBanned(j)' = IsBanned(j)
                          /\ attempts'[j] \in {attempts[j], Recent(attempts[j])}
<1>1. attempts \in [Ip -> SUBSET Attempt] /\ Recent(attempts[k]) \in SUBSET Attempt
  BY CountsFinite DEF LimiterInv, LimiterTypes
<1>2. ~IsDisabled
  BY LimiterAssumption DEF IsDisabled
<1>3. ForgetBan(k) /\ attempts' = IF IsBanned(k) THEN attempts
                                  ELSE [attempts EXCEPT ![k] = Recent(@)]
  BY <1>2 DEF CheckSecurityStatus
<1>4. bannedUntil' \in [Ip -> Nat] /\ \A j \in Ip : IsBanned(j)' = IsBanned(j)
  BY <1>3, ForgottenBan
<1>5. attempts' \in [Ip -> SUBSET Attempt]
      /\ \A j \in Ip : attempts'[j] \in {attempts[j], Recent(attempts[j])}
  BY <1>1, <1>3
<1> QED
  BY <1>4, <1>5

\* An attempt is ignored under a ban, ends in a ban, or is recorded.
LEMMA AttemptRecorded ==
  ASSUME LimiterInv, NEW k \in Ip, RecordFailedAttempt(k), clock' = clock
  PROVE  /\ bannedUntil' \in [Ip -> Nat] /\ attempts' \in [Ip -> SUBSET Attempt]
         /\ failures' \in [Ip -> SUBSET Failure]
         /\ \A j \in Ip \ {k} : /\ IsBanned(j)' = IsBanned(j) /\ attempts'[j] = attempts[j]
                                /\ failures'[j] = failures[j]
         /\ \/ /\ IsBanned(k) /\ IsBanned(k)' /\ attempts'[k] = attempts[k]
               /\ failures'[k] = failures[k]
            \/ attempts'[k] = {} /\ failures'[k] = {}
            \/ /\ IsBanned(k)' = IsBanned(k) /\ failures'[k] = failures[k]
               /\ attempts'[k] = Recent(attempts[k]) \cup {[time |-> clock, nth |-> Nth(attempts[k])]}
               /\ BanThreshold > 0 => Cardinality(attempts'[k]) < BanThreshold
<1> DEFINE valid == Recent(attempts[k]) \cup {[time |-> clock, nth |-> Nth(attempts[k])]}
<1>1. /\ attempts \in [Ip -> SUBSET Attempt] /\ failures \in [Ip -> SUBSET Failure]
      /\ bannedUntil \in [Ip -> Nat] /\ clock \in Nat /\ BanDuration \in Nat
  BY LimiterAssumption DEF LimiterInv, LimiterTypes
<1>2. valid \in SUBSET Attempt
  BY <1>1, CountsFinite DEF Attempt
<1>3. ~IsDisabled
  BY LimiterAssumption DEF IsDisabled
<1>4. CASE IsBanned(k)
  BY <1>1, <1>3, <1>4 DEF RecordFailedAttempt, IsBanned
<1>5. CASE ~IsBanned(k) /\ BanThreshold > 0 /\ Cardinality(valid) >= BanThreshold
  <2>1. /\ bannedUntil' = [bannedUntil EXCEPT ![k] = clock + BanDuration]
        /\ attempts' = [attempts EXCEPT ![k] = {}] /\ failures' = [failures EXCEPT ![k] = {}]
    BY <1>3, <1>5 DEF RecordFailedAttempt
  <2>2. /\ bannedUntil' \in [Ip -> Nat] /\ attempts' \in [Ip -> SUBSET Attempt]
        /\ failures' \in [Ip -> SUBSET Failure] /\ attempts'[k] = {} /\ failures'[k] = {}
    BY <1>1, <2>1
  <2>3. \A j \in Ip \ {k} : /\ IsBanned(j)' = IsBanned(j) /\ attempts'[j] = attempts[j]
                            /\ failures'[j] = failures[j]
    BY <1>1, <2>1 DEF IsBanned
  <2> QED
    BY <2>2, <2>3
<1>6. CASE ~IsBanned(k) /\ ~(BanThreshold > 0 /\ Cardinality(valid) >= BanThreshold)
  <2>1. ForgetBan(k) /\ attempts' = [attempts EXCEPT ![k] = valid] /\ failures' = failures
    BY <1>3, <1>6 DEF RecordFailedAttempt
  <2>2. bannedUntil' \in [Ip -> Nat] /\ \A j \in Ip : IsBanned(j)' = IsBanned(j)
    BY <2>1, ForgottenBan
  <2>3. IsFiniteSet(valid) /\ Cardinality(valid) \in Nat
    <3>1. IsFiniteSet(attempts[k])
      BY CountsTyped DEF LimiterInv
    <3>2. IsFiniteSet(valid)
      BY <3>1, SinceFinite, FS_AddElement DEF Recent
    <3> QED
      BY <3>2, FS_CardinalityType
  <2>4. BanThreshold > 0 => Cardinality(valid) < BanThreshold
    BY <1>6, <2>3, LimiterAssumption
  <2> HIDE DEF valid
  <2>5. /\ attempts' \in [Ip -> SUBSET Attempt] /\ attempts'[k] = valid
        /\ \A j \in Ip \ {k} : attempts'[j] = attempts[j]
    BY <1>1, <1>2, <2>1
  <2> QED
    BY <1>1, <2>1, <2>2, <2>4, <2>5 DEF valid
<1> QED
  BY <1>4, <1>5, <1>6

-----------------------------------------------------------------------------
(* The steps of the handlers                                                 *)

Fits(w) == /\ w \in Work /\ (w.pc # "idle" => w.ip \in Ip) /\ (w.pc = "captcha" => w.need)

LEMMA HandlerTyped ==
  ASSUME LimiterTypes, NEW h \in Handler, NEW w, Fits(w), handler' = [handler EXCEPT ![h] = w]
  PROVE  /\ handler' \in [Handler -> Work]
         /\ \A x \in Handler : /\ handler'[x].pc # "idle" => handler'[x].ip \in Ip
                               /\ handler'[x].pc = "captcha" => handler'[x].need
BY DEF LimiterTypes, Fits

LEMMA GotoMoves ==
  ASSUME LimiterTypes, NEW h \in Handler, handler[h].pc # "idle",
         NEW pc \in {"verify", "wrong", "recheck", "signed"}, Goto(h, pc)
  PROVE  \E w : /\ Fits(w) /\ handler' = [handler EXCEPT ![h] = w] /\ w.pc = pc
               /\ w.ip = handler[h].ip /\ w.need = handler[h].need
<1> DEFINE w == [handler[h] EXCEPT !.pc = pc]
<1>1. handler' = [handler EXCEPT ![h] = w]
  BY DEF Goto, LimiterTypes
<1>2. Fits(w) /\ w.pc = pc /\ w.ip = handler[h].ip /\ w.need = handler[h].need
  BY DEF LimiterTypes, Work, Fits
<1> QED
  BY <1>1, <1>2

LEMMA CaptchasStay ==
  ASSUME LimiterInv, UNCHANGED <<captchas, shown, solved>>
  PROVE  CaptchasFresh'
BY DEF LimiterInv, CaptchasFresh, Waiting

\* A handler moves that neither has guessed nor is let in to guess boldly.
LEMMA QuietMove ==
  ASSUME LimiterInv, NEW h \in Handler, NEW w, handler' = [handler EXCEPT ![h] = w],
         UNCHANGED <<clock, failures>>,
         \A j \in Ip : /\ IsBanned(j)' = IsBanned(j)
                       /\ attempts'[j] \in {attempts[j], Recent(attempts[j])},
         handler[h].pc # "wrong", w.pc # "wrong", w.pc = "verify" => ~Bold(w)
  PROVE  \A j \in Ip : CountsBound(j)'
<1> SUFFICES ASSUME NEW j \in Ip
             PROVE  CountsBound(j)'
  OBVIOUS
<1>1. LimiterTypes /\ CountsBound(j)
  BY DEF LimiterInv
<1>2. Unrecorded(j)' = Unrecorded(j) \ {h} /\ LetIn(j)' = LetIn(j) \ {h}
  BY <1>1, Moves
<1>3. Unrecorded(j)' = Unrecorded(j)
  <2>1. h \notin Unrecorded(j)
    BY DEF Unrecorded
  <2> QED
    BY <1>2, <2>1
<1>4. LetIn(j)' \subseteq LetIn(j)
  BY <1>2
<1>5. Cardinality(Bare(j)) + Cardinality(LetIn(j)') < CaptchaThreshold + Cardinality(Handler)
  BY <1>1, <1>4, LetInBound
<1> QED
  BY <1>1, <1>3, <1>5, QuietCounts

\* A handler is let in to guess without a captcha: fewer than the threshold
\* were wrong, but those not recorded yet, and it is none of them.
LEMMA BoldLetIn ==
  ASSUME LimiterInv, NEW h \in Handler, NEW w, NEW i \in Ip, handler' = [handler EXCEPT ![h] = w],
         UNCHANGED <<clock, failures>>, ~CaptchaRequired(i),
         \A j \in Ip : /\ IsBanned(j)' = IsBanned(j)
                       /\ attempts'[j] \in {attempts[j], Recent(attempts[j])},
         handler[h].pc = "idle", w.pc = "verify", w.ip = i, Bold(w)
  PROVE  \A j \in Ip : CountsBound(j)'
<1> SUFFICES ASSUME NEW j \in Ip
             PROVE  CountsBound(j)'
  OBVIOUS
<1>1. LimiterTypes /\ CountsBound(j)
  BY DEF LimiterInv
<1>2. h \notin Unrecorded(j) /\ h \notin LetIn(j)
  BY DEF Unrecorded, LetIn
<1>3. Unrecorded(j)' = Unrecorded(j) /\ LetIn(j)' = IF j = i THEN LetIn(j) \cup {h} ELSE LetIn(j)
  <2>1. Unrecorded(j)' = IF w.pc = "wrong" /\ w.ip = j THEN Unrecorded(j) \cup {h}
                         ELSE Unrecorded(j) \ {h}
    BY <1>1, Moves
  <2>2. LetIn(j)' = IF i = j THEN LetIn(j) \cup {h} ELSE LetIn(j) \ {h}
    <3>1. \A x \in Handler : handler'[x] = IF x = h THEN w ELSE handler[x]
      BY <1>1 DEF LimiterTypes
    <3>2. LetIn(j)' = {x \in Handler : handler'[x].pc = "verify" /\ handler'[x].ip = j /\ Bold(handler'[x])}
      BY DEF LetIn, Bold
    <3> QED
      BY <3>1, <3>2 DEF LetIn
  <2>3. Unrecorded(j)' = Unrecorded(j) \ {h} /\ LetIn(j)' = IF i = j THEN LetIn(j) \cup {h} ELSE LetIn(j) \ {h}
    BY <2>1, <2>2
  <2> QED
    BY <1>2, <2>3
<1>4. Cardinality(Bare(j)) + Cardinality(LetIn(j)') < CaptchaThreshold + Cardinality(Handler)
  <2>1. CASE j # i
    BY <1>3, <2>1 DEF LimiterInv, CountsBound
  <2>2. CASE j = i
    <3>1. Cardinality(Recent(attempts[j])) < CaptchaThreshold
      <4>1. Cardinality(Recent(attempts[j])) \in Nat
        BY <1>1, CountsTyped, SinceFinite DEF Recent
      <4>2. ~IsDisabled
        BY LimiterAssumption DEF IsDisabled
      <4> QED
        BY <2>2, <4>1, <4>2, LimiterAssumption DEF CaptchaRequired
    <3>2. Cardinality(Bare(j)) <= Cardinality(Recent(attempts[j])) + Cardinality(Unrecorded(j))
      <4> DEFINE start == clock - AttemptsWindow
      <4>1. start \in clock - AttemptsWindow..clock - 1
        BY <1>1, CountsTyped
      <4>2. Since(failures[j], start) = failures[j]
        BY <1>1 DEF Since, CountsBound
      <4>3. Cardinality(failures[j]) <= Cardinality(Recent(attempts[j])) + Cardinality(Unrecorded(j))
        BY <1>1, <4>1, <4>2 DEF CountsBound, Recent
      <4>4. Cardinality(Bare(j)) <= Cardinality(failures[j]) /\ Cardinality(failures[j]) \in Nat
        BY <1>1, CountsTyped, FS_Subset, FS_CardinalityType DEF Bare
      <4>5. Cardinality(Recent(attempts[j])) \in Nat
        BY <1>1, CountsTyped, SinceFinite DEF Recent
      <4> QED
        BY <1>1, <4>3, <4>4, <4>5, CountsTyped, GuessersFinite
    <3>3. /\ Cardinality(LetIn(j)') \in Nat /\ Cardinality(Unrecorded(j)) \in Nat
          /\ Cardinality(Unrecorded(j)) + Cardinality(LetIn(j)') <= Cardinality(Handler)
      <4>1. LetIn(j)' \subseteq Handler /\ Unrecorded(j) \cap LetIn(j)' = {}
            /\ Unrecorded(j) \subseteq Handler
        BY <1>2, <1>3 DEF LetIn, Unrecorded
      <4>2. IsFiniteSet(LetIn(j)') /\ IsFiniteSet(Unrecorded(j)) /\ IsFiniteSet(Handler)
        BY <4>1, FS_Subset, LimiterAssumption
      <4>3. Cardinality(Unrecorded(j) \cup LetIn(j)')
              = Cardinality(Unrecorded(j)) + Cardinality(LetIn(j)')
                - Cardinality(Unrecorded(j) \cap LetIn(j)')
        BY <4>2, FS_Union
      <4>4. Cardinality(Unrecorded(j) \cap LetIn(j)') = 0
        BY <4>1, FS_EmptySet
      <4>5. Cardinality(Unrecorded(j) \cup LetIn(j)') <= Cardinality(Handler)
        <5>1. Unrecorded(j) \cup LetIn(j)' \subseteq Handler
          BY <4>1
        <5> QED
          BY <4>2, <5>1, FS_Subset
      <4>6. Cardinality(LetIn(j)') \in Nat /\ Cardinality(Unrecorded(j)) \in Nat
        BY <4>2, FS_CardinalityType
      <4> QED
        BY <4>3, <4>4, <4>5, <4>6
    <3>4. Cardinality(Bare(j)) \in Nat /\ Cardinality(Recent(attempts[j])) \in Nat
          /\ Cardinality(Handler) \in Nat
      BY <1>1, CountsTyped, SinceFinite, GuessersFinite DEF Recent
    <3> QED
      BY <3>1, <3>2, <3>3, <3>4, LimiterAssumption
  <2> QED
    BY <2>1, <2>2
<1> QED
  BY <1>1, <1>3, <1>4, QuietCounts

\* An attempt is recorded by a handler that ends, or goes on to look again.
LEMMA RecordingMove ==
  ASSUME LimiterInv, NEW h \in Handler, NEW w, handler' = [handler EXCEPT ![h] = w],
         clock' = clock, handler[h].ip \in Ip, RecordFailedAttempt(handler[h].ip),
         w.pc \notin {"verify", "wrong"}
  PROVE  \A j \in Ip : CountsBound(j)'
<1> DEFINE k == handler[h].ip
<1> SUFFICES ASSUME NEW j \in Ip
             PROVE  CountsBound(j)'
  OBVIOUS
<1>1. LimiterTypes /\ CountsBound(j)
  BY DEF LimiterInv
<1>2. Unrecorded(j)' = Unrecorded(j) \ {h} /\ LetIn(j)' = LetIn(j) \ {h}
  BY <1>1, Moves
<1>3. LetIn(j)' \subseteq LetIn(j)
      /\ Cardinality(Bare(j)) + Cardinality(LetIn(j)') < CaptchaThreshold + Cardinality(Handler)
  BY <1>1, <1>2, LetInBound
<1>4. CASE j # k
  <2>1. h \notin Unrecorded(j)
    BY <1>4 DEF Unrecorded
  <2>2. Unrecorded(j)' = Unrecorded(j)
    BY <1>2, <2>1
  <2>3. IsBanned(j)' = IsBanned(j) /\ attempts'[j] = attempts[j] /\ failures'[j] = failures[j]
    BY <1>4, AttemptRecorded
  <2> QED
    BY <1>1, <1>3, <2>2, <2>3, QuietCounts
<1>5. CASE j = k
  <2>1. \/ IsBanned(j) /\ IsBanned(j)' /\ attempts'[j] = attempts[j] /\ failures'[j] = failures[j]
        \/ attempts'[j] = {} /\ failures'[j] = {}
        \/ /\ IsBanned(j)' = IsBanned(j) /\ failures'[j] = failures[j]
           /\ attempts'[j] = Recent(attempts[j]) \cup {[time |-> clock, nth |-> Nth(attempts[j])]}
           /\ BanThreshold > 0 => Cardinality(attempts'[j]) < BanThreshold
    BY <1>5, AttemptRecorded
  <2>2. CASE IsBanned(j) /\ IsBanned(j)' /\ attempts'[j] = attempts[j] /\ failures'[j] = failures[j]
    <3>1. failures[j] = {}
      BY <1>1, <2>2 DEF CountsBound
    <3> QED
      BY <1>1, <1>3, <2>2, <3>1, QuietCounts
  <2>3. CASE attempts'[j] = {} /\ failures'[j] = {}
    BY <1>1, <1>3, <2>3, ClearedCounts
  <2>4. CASE /\ IsBanned(j)' = IsBanned(j) /\ failures'[j] = failures[j]
             /\ attempts'[j] = Recent(attempts[j]) \cup {[time |-> clock, nth |-> Nth(attempts[j])]}
             /\ BanThreshold > 0 => Cardinality(attempts'[j]) < BanThreshold
    BY <1>1, <1>2, <1>3, <2>4, RecordedCounts
  <2> QED
    BY <2>1, <2>2, <2>3, <2>4
<1> QED
  BY <1>4, <1>5

LEMMA LoginStarted ==
  ASSUME LimiterInv, NEW h \in Handler, NEW i \in Ip, NEW at \in Endpoint, NEW code \in BOOLEAN,
         StartLogin(h, i, at, code)
  PROVE  LimiterInv'
<1> DEFINE w == [pc |-> IF CaptchaRequired(i) /\ ~code THEN "captcha" ELSE "verify",
                 ip |-> i, at |-> at, need |-> CaptchaRequired(i), code |-> code]
<1>1. /\ handler[h].pc = "idle" /\ CheckSecurityStatus(i) /\ handler' = [handler EXCEPT ![h] = w]
      /\ UNCHANGED <<captchas, clock, failures, shown, solved>> /\ LimiterTypes
  BY DEF StartLogin, LimiterInv
<1>2. CaptchaRequired(i) \in BOOLEAN
  BY DEF CaptchaRequired
<1>3. Fits(w) /\ w.pc # "wrong" /\ w.ip = i
      /\ (w.pc = "verify" /\ Bold(w) => ~CaptchaRequired(i))
  BY <1>2 DEF Fits, Work, Bold
<1> HIDE DEF w
<1>4. /\ bannedUntil' \in [Ip -> Nat] /\ attempts' \in [Ip -> SUBSET Attempt]
      /\ \A j \in Ip : /\ IsBanned(j)' = IsBanned(j)
                       /\ attempts'[j] \in {attempts[j], Recent(attempts[j])}
  BY <1>1, StatusChecked
<1>5. LimiterTypes'
  <2>1. /\ handler' \in [Handler -> Work]
        /\ \A x \in Handler : /\ handler'[x].pc # "idle" => handler'[x].ip \in Ip
                              /\ handler'[x].pc = "captcha" => handler'[x].need
    BY <1>1, <1>3, HandlerTyped
  <2> QED
    BY <1>1, <1>4, <2>1 DEF LimiterTypes
<1>6. \A j \in Ip : CountsBound(j)'
  <2>1. CASE w.pc = "verify" /\ Bold(w)
    BY <1>1, <1>3, <1>4, <2>1, BoldLetIn
  <2>2. CASE w.pc = "verify" => ~Bold(w)
    BY <1>1, <1>3, <1>4, <2>2, QuietMove
  <2> QED
    BY <2>1, <2>2
<1> QED
  BY <1>1, <1>5, <1>6, CaptchasStay DEF LimiterInv

\* Nobody moves.
LEMMA QuietAddresses ==
  ASSUME LimiterInv, UNCHANGED <<clock, failures, handler>>,
         \A j \in Ip : /\ IsBanned(j)' = IsBanned(j)
                       /\ attempts'[j] \in {attempts[j], Recent(attempts[j])}
  PROVE  \A j \in Ip : CountsBound(j)'
<1> SUFFICES ASSUME NEW j \in Ip
             PROVE  CountsBound(j)'
  OBVIOUS
<1>1. LimiterTypes /\ CountsBound(j)
  BY DEF LimiterInv
<1>2. Unrecorded(j)' = Unrecorded(j) /\ LetIn(j)' = LetIn(j)
  BY DEF Unrecorded, LetIn
<1>3. Cardinality(Bare(j)) + Cardinality(LetIn(j)') < CaptchaThreshold + Cardinality(Handler)
  BY <1>1, <1>2 DEF CountsBound
<1> QED
  BY <1>1, <1>2, <1>3, QuietCounts

LEMMA LoginRefused ==
  ASSUME LimiterInv, NEW i \in Ip, RefuseLogin(i)
  PROVE  LimiterInv'
<1>1. CheckSecurityStatus(i) /\ UNCHANGED <<captchas, handler, clock, failures, shown, solved>>
  BY DEF RefuseLogin
<1>2. /\ bannedUntil' \in [Ip -> Nat] /\ attempts' \in [Ip -> SUBSET Attempt]
      /\ \A j \in Ip : /\ IsBanned(j)' = IsBanned(j)
                       /\ attempts'[j] \in {attempts[j], Recent(attempts[j])}
  BY <1>1, StatusChecked
<1>3. LimiterTypes'
  BY <1>1, <1>2 DEF LimiterInv, LimiterTypes
<1>4. \A j \in Ip : CountsBound(j)'
  BY <1>1, <1>2, QuietAddresses
<1> QED
  BY <1>1, <1>3, <1>4, CaptchasStay DEF LimiterInv

\* A handler goes on or ends, having at most looked.
LEMMA HandlerWorks ==
  ASSUME LimiterInv, NEW h \in Handler, NEW w, Fits(w), handler' = [handler EXCEPT ![h] = w],
         UNCHANGED <<clock, failures>>, CaptchasFresh',
         captchas' \in [Captcha -> Nat], shown' \in SUBSET Captcha, solved' \in [Captcha -> Nat],
         \/ UNCHANGED <<attempts, bannedUntil>>
         \/ \E i \in Ip : CheckSecurityStatus(i),
         handler[h].pc # "wrong", w.pc # "wrong", w.pc = "verify" => ~Bold(w)
  PROVE  LimiterInv'
<1>1. /\ bannedUntil' \in [Ip -> Nat] /\ attempts' \in [Ip -> SUBSET Attempt]
      /\ \A j \in Ip : /\ IsBanned(j)' = IsBanned(j)
                       /\ attempts'[j] \in {attempts[j], Recent(attempts[j])}
  <2>1. CASE UNCHANGED <<attempts, bannedUntil>>
    BY <2>1 DEF LimiterInv, LimiterTypes, IsBanned
  <2>2. CASE \E i \in Ip : CheckSecurityStatus(i)
    BY <2>2, StatusChecked
  <2> QED
    BY <2>1, <2>2
<1>2. LimiterTypes'
  <2>1. /\ handler' \in [Handler -> Work]
        /\ \A x \in Handler : /\ handler'[x].pc # "idle" => handler'[x].ip \in Ip
                              /\ handler'[x].pc = "captcha" => handler'[x].need
    BY HandlerTyped DEF LimiterInv
  <2>2. failures' \in [Ip -> SUBSET Failure] /\ clock' \in Nat \ {0}
    BY DEF LimiterInv, LimiterTypes
  <2> QED
    BY <1>1, <2>1, <2>2 DEF LimiterTypes
<1>3. \A j \in Ip : CountsBound(j)'
  BY <1>1, QuietMove
<1> QED
  BY <1>2, <1>3 DEF LimiterInv

LEMMA QuietHandlers ==
  ASSUME LimiterInv, NEW h \in Handler,
         Recheck(h) \/ NoSession(h) \/ SignIn(h) \/ \E i \in Ip : AskCaptcha(h, i)
  PROVE  LimiterInv'
<1>1. LimiterTypes /\ UNCHANGED <<captchas, shown, solved, clock, failures>>
  BY DEF LimiterInv, Recheck, NoSession, SignIn, AskCaptcha
<1>2. /\ CaptchasFresh' /\ captchas' \in [Captcha -> Nat] /\ shown' \in SUBSET Captcha
      /\ solved' \in [Captcha -> Nat]
  BY <1>1, CaptchasStay DEF LimiterTypes
<1>3. CASE Recheck(h)
  <2>1. handler[h].ip \in Ip
    BY <1>1, <1>3 DEF Recheck, LimiterTypes
  <2> QED
    BY <1>1, <1>2, <1>3, <2>1, RestingTyped, HandlerWorks DEF Recheck, Finish, Fits
<1>4. CASE NoSession(h)
  BY <1>1, <1>2, <1>4, RestingTyped, HandlerWorks DEF NoSession, Finish, Fits
<1>5. CASE SignIn(h)
  <2>1. PICK w : /\ Fits(w) /\ handler' = [handler EXCEPT ![h] = w] /\ w.pc = "signed"
    BY <1>1, <1>5, GotoMoves DEF SignIn
  <2> QED
    BY <1>1, <1>2, <1>5, <2>1, HandlerWorks DEF SignIn
<1>6. CASE \E i \in Ip : AskCaptcha(h, i)
  <2>1. PICK i \in Ip : AskCaptcha(h, i)
    BY <1>6
  <2>2. Fits([Resting EXCEPT !.pc = "draw", !.ip = i]) /\ [Resting EXCEPT !.pc = "draw", !.ip = i].pc = "draw"
    BY DEF Fits, Resting, Work, Endpoint
  <2> QED
    BY <1>1, <1>2, <2>1, <2>2, HandlerWorks DEF AskCaptcha
<1> QED
  BY <1>3, <1>4, <1>5, <1>6

LEMMA CaptchaSolved ==
  ASSUME LimiterInv, NEW h \in Handler, NEW c \in Captcha, SolveCaptcha(h, c)
  PROVE  LimiterInv'
<1>1. /\ handler[h].pc = "captcha" /\ captchas[c] # 0 /\ captchas' = [captchas EXCEPT ![c] = 0]
      /\ solved' = [solved EXCEPT ![c] = @ + 1] /\ Goto(h, "verify")
      /\ UNCHANGED <<attempts, bannedUntil, clock, failures, shown>>
      /\ LimiterTypes /\ CaptchasFresh
  BY DEF SolveCaptcha, Used, LimiterInv
<1>2. PICK w : /\ Fits(w) /\ handler' = [handler EXCEPT ![h] = w] /\ w.pc = "verify"
               /\ w.need = handler[h].need
  BY <1>1, GotoMoves
<1>3. handler[h].need
  BY <1>1 DEF LimiterTypes
<1>4. ~Bold(w)
  BY <1>2, <1>3 DEF Bold
<1>5. captchas' \in [Captcha -> Nat] /\ shown' \in SUBSET Captcha /\ solved' \in [Captcha -> Nat]
  BY <1>1 DEF LimiterTypes
<1>6. CaptchasFresh'
  <2>1. Waiting(captchas') \subseteq Waiting(captchas)
    BY <1>1 DEF Waiting, LimiterTypes
  <2>2. IsFiniteSet(Waiting(captchas')) /\ Cardinality(Waiting(captchas')) <= MaxActiveCaptchas
    <3> DEFINE old == Waiting(captchas)
               new == Waiting(captchas')
    <3>1. IsFiniteSet(old) /\ Cardinality(old) <= MaxActiveCaptchas /\ new \subseteq old
      BY <1>1, <2>1 DEF CaptchasFresh
    <3> HIDE DEF old, new
    <3>2. IsFiniteSet(new) /\ Cardinality(new) <= MaxActiveCaptchas
      BY <3>1, FS_Subset, FS_CardinalityType, LimiterAssumption
    <3> QED
      BY <3>2 DEF new
  <2>3. \A x \in Captcha : /\ solved'[x] <= 1
                           /\ captchas'[x] # 0 \/ x \notin shown' => solved'[x] = 0
                           /\ captchas'[x] # 0 => x \in shown'
    BY <1>1 DEF CaptchasFresh, LimiterTypes
  <2> QED
    BY <2>2, <2>3 DEF CaptchasFresh, Waiting
<1> QED
  BY <1>1, <1>2, <1>4, <1>5, <1>6, HandlerWorks

\* Captchas that are dropped, used or out of date.
LEMMA CaptchasDropped ==
  ASSUME LimiterInv, UNCHANGED <<shown, solved>>, captchas' \in [Captcha -> Nat],
         \A c \in Captcha : captchas'[c] # 0 => captchas[c] # 0
  PROVE  CaptchasFresh'
<1>1. CaptchasFresh
  BY DEF LimiterInv
<1>2. Waiting(captchas') \subseteq Waiting(captchas)
  BY DEF Waiting
<1>3. IsFiniteSet(Waiting(captchas')) /\ Cardinality(Waiting(captchas')) <= MaxActiveCaptchas
  BY <1>1, <1>2, FS_Subset, FS_CardinalityType, LimiterAssumption DEF CaptchasFresh
<1> QED
  BY <1>1, <1>3 DEF CaptchasFresh, Waiting

LEMMA CaptchaRefused ==
  ASSUME LimiterInv, NEW h \in Handler, RefuseCaptcha(h)
  PROVE  LimiterInv'
<1>1. /\ handler[h].pc = "captcha" /\ Finish(h) /\ LimiterTypes
      /\ UNCHANGED <<attempts, bannedUntil, clock, failures, shown, solved>>
  BY DEF RefuseCaptcha, LimiterInv
<1>2. captchas' \in [Captcha -> Nat] /\ \A c \in Captcha : captchas'[c] # 0 => captchas[c] # 0
  BY <1>1 DEF RefuseCaptcha, Used, LimiterTypes
<1>3. CaptchasFresh'
  BY <1>1, <1>2, CaptchasDropped
<1>4. shown' \in SUBSET Captcha /\ solved' \in [Captcha -> Nat]
  BY <1>1 DEF LimiterTypes
<1> QED
  BY <1>1, <1>2, <1>3, <1>4, RestingTyped, HandlerWorks DEF Finish, Fits

LEMMA CaptchaDrawn ==
  ASSUME LimiterInv, NEW h \in Handler, RequireCaptcha(h)
  PROVE  LimiterInv'
<1>1. /\ handler[h].pc = "draw" /\ Finish(h) /\ LimiterTypes /\ CaptchasFresh
      /\ UNCHANGED <<attempts, bannedUntil, clock, failures, solved>>
      /\ clock \in Nat \ {0} /\ CaptchaTTL \in Nat \ {0} /\ MaxActiveCaptchas \in Nat
  BY LimiterAssumption DEF RequireCaptcha, LimiterInv, LimiterTypes
<1>2. LiveCaptchas \in [Captcha -> Nat] /\ \A c \in Captcha : LiveCaptchas[c] # 0 => captchas[c] # 0
  BY <1>1 DEF LiveCaptchas, LimiterTypes
<1>3. CASE Cardinality(Waiting(LiveCaptchas)) >= MaxActiveCaptchas
  <2>1. captchas' = LiveCaptchas /\ shown' = shown
    BY <1>3 DEF RequireCaptcha
  <2>2. CaptchasFresh' /\ shown' \in SUBSET Captcha /\ solved' \in [Captcha -> Nat]
    BY <1>1, <1>2, <2>1, CaptchasDropped DEF LimiterTypes
  <2> QED
    BY <1>1, <1>2, <2>1, <2>2, RestingTyped, HandlerWorks DEF Finish, Fits
<1>4. CASE ~(Cardinality(Waiting(LiveCaptchas)) >= MaxActiveCaptchas)
  <2>1. PICK c \in Captcha \ shown : /\ captchas' = [LiveCaptchas EXCEPT ![c] = clock + CaptchaTTL]
                                     /\ shown' = shown \cup {c}
    BY <1>4 DEF RequireCaptcha
  <2>2. captchas' \in [Captcha -> Nat] /\ shown' \in SUBSET Captcha /\ solved' \in [Captcha -> Nat]
    BY <1>1, <1>2, <2>1 DEF LimiterTypes
  <2>3. Waiting(captchas') = Waiting(LiveCaptchas) \cup {c}
    BY <1>1, <1>2, <2>1 DEF Waiting
  <2>4. IsFiniteSet(Waiting(LiveCaptchas)) /\ Cardinality(Waiting(LiveCaptchas)) \in Nat
    <3>1. Waiting(LiveCaptchas) \subseteq Waiting(captchas)
      BY <1>2 DEF Waiting
    <3> QED
      BY <1>1, <3>1, FS_Subset, FS_CardinalityType DEF CaptchasFresh
  <2>5. IsFiniteSet(Waiting(captchas')) /\ Cardinality(Waiting(captchas')) <= MaxActiveCaptchas
    <3> DEFINE live == Waiting(LiveCaptchas)
               new == Waiting(captchas')
    <3>1. /\ IsFiniteSet(live) /\ Cardinality(live) \in Nat /\ new = live \cup {c}
          /\ ~(Cardinality(live) >= MaxActiveCaptchas)
      BY <1>4, <2>3, <2>4
    <3> HIDE DEF live, new
    <3>2. /\ IsFiniteSet(new)
          /\ Cardinality(new) = Cardinality(live) \/ Cardinality(new) = Cardinality(live) + 1
      BY <3>1, FS_AddElement
    <3>3. Cardinality(new) <= MaxActiveCaptchas
      BY <1>1, <3>1, <3>2
    <3> QED
      BY <3>2, <3>3 DEF new
  <2>6. \A x \in Captcha : /\ solved'[x] <= 1
                           /\ captchas'[x] # 0 \/ x \notin shown' => solved'[x] = 0
                           /\ captchas'[x] # 0 => x \in shown'
    BY <1>1, <1>2, <2>1 DEF CaptchasFresh
  <2>7. CaptchasFresh'
    BY <2>5, <2>6 DEF CaptchasFresh, Waiting
  <2> QED
    BY <1>1, <2>2, <2>7, RestingTyped, HandlerWorks DEF Finish, Fits
<1> QED
  BY <1>3, <1>4

LEMMA HandlerRecords ==
  ASSUME LimiterInv, NEW h \in Handler, NEW w, Fits(w), handler' = [handler EXCEPT ![h] = w],
         UNCHANGED <<clock, captchas, shown, solved>>,
         handler[h].ip \in Ip, RecordFailedAttempt(handler[h].ip), w.pc \notin {"verify", "wrong"}
  PROVE  LimiterInv'
<1>1. /\ bannedUntil' \in [Ip -> Nat] /\ attempts' \in [Ip -> SUBSET Attempt]
      /\ failures' \in [Ip -> SUBSET Failure]
  BY AttemptRecorded
<1>2. /\ handler' \in [Handler -> Work]
      /\ \A x \in Handler : /\ handler'[x].pc # "idle" => handler'[x].ip \in Ip
                            /\ handler'[x].pc = "captcha" => handler'[x].need
  BY HandlerTyped DEF LimiterInv
<1>3. LimiterTypes'
  BY <1>1, <1>2 DEF LimiterInv, LimiterTypes
<1>4. \A j \in Ip : CountsBound(j)'
  BY RecordingMove
<1> QED
  BY <1>3, <1>4, CaptchasStay DEF LimiterInv

LEMMA AttemptsRecorded ==
  ASSUME LimiterInv, NEW h \in Handler, BadRequest(h) \/ RecordWrongGuess(h)
  PROVE  LimiterInv'
<1>1. /\ handler[h].pc \in {"captcha", "verify", "wrong"} /\ RecordFailedAttempt(handler[h].ip)
      /\ UNCHANGED <<clock, captchas, shown, solved>> /\ LimiterTypes
      /\ Finish(h) \/ Goto(h, "recheck")
  BY DEF BadRequest, RecordWrongGuess, LimiterInv
<1>2. handler[h].ip \in Ip
  BY <1>1 DEF LimiterTypes
<1>3. CASE Finish(h)
  BY <1>1, <1>2, <1>3, RestingTyped, HandlerRecords DEF Finish, Fits
<1>4. CASE Goto(h, "recheck")
  <2>1. PICK w : Fits(w) /\ handler' = [handler EXCEPT ![h] = w] /\ w.pc = "recheck"
    BY <1>1, <1>4, GotoMoves
  <2> QED
    BY <1>1, <1>2, <2>1, HandlerRecords
<1> QED
  BY <1>1, <1>3, <1>4

LEMMA WrongGuessed ==
  ASSUME LimiterInv, NEW h \in Handler, WrongGuess(h)
  PROVE  LimiterInv'
<1> DEFINE k == handler[h].ip
           bare == Bold(handler[h])
           new == [time |-> clock, nth |-> Nth(failures[k]), bare |-> bare]
<1>1. /\ handler[h].pc = "verify" /\ Goto(h, "wrong")
      /\ failures' = [failures EXCEPT ![k] = IF IsBanned(k) THEN @ ELSE @ \cup {new}]
      /\ UNCHANGED <<attempts, bannedUntil, captchas, clock, shown, solved>> /\ LimiterTypes
  BY DEF WrongGuess, LimiterInv
<1>2. k \in Ip /\ failures \in [Ip -> SUBSET Failure] /\ clock \in Nat \ {0}
  BY <1>1 DEF LimiterTypes
<1>3. bare \in BOOLEAN
  BY DEF Bold
<1>4. new \in Failure
  BY <1>2, <1>3, CountsFinite DEF Failure
<1>5. PICK w : Fits(w) /\ handler' = [handler EXCEPT ![h] = w] /\ w.pc = "wrong" /\ w.ip = k
  BY <1>1, GotoMoves
<1> HIDE DEF new, bare
<1>6. failures' \in [Ip -> SUBSET Failure]
      /\ \A j \in Ip : failures'[j] = IF j = k /\ ~IsBanned(k) THEN failures[j] \cup {new}
                                      ELSE failures[j]
  BY <1>1, <1>2, <1>4
<1>7. LimiterTypes'
  <2>1. /\ handler' \in [Handler -> Work]
        /\ \A x \in Handler : /\ handler'[x].pc # "idle" => handler'[x].ip \in Ip
                              /\ handler'[x].pc = "captcha" => handler'[x].need
    BY <1>1, <1>5, HandlerTyped
  <2> QED
    BY <1>1, <1>6, <2>1 DEF LimiterTypes
<1>8. ASSUME NEW j \in Ip
      PROVE  CountsBound(j)'
  <2>1. CountsBound(j) /\ IsBanned(j)' = IsBanned(j) /\ attempts'[j] = attempts[j] /\ clock' = clock
    BY <1>1 DEF LimiterInv, IsBanned
  <2>2. /\ Unrecorded(j)' = IF k = j THEN Unrecorded(j) \cup {h} ELSE Unrecorded(j) \ {h}
        /\ LetIn(j)' = LetIn(j) \ {h}
    <3> HIDE DEF k
    <3>1. Unrecorded(j)' = IF w.pc = "wrong" /\ w.ip = j THEN Unrecorded(j) \cup {h}
                           ELSE Unrecorded(j) \ {h}
      BY <1>1, <1>5, Moves
    <3>2. LetIn(j)' = LetIn(j) \ {h}
      BY <1>1, <1>5, Moves
    <3> QED
      BY <1>5, <3>1, <3>2
  <2>3. Cardinality(Bare(j)) + Cardinality(LetIn(j)') < CaptchaThreshold + Cardinality(Handler)
    BY <1>1, <2>1, <2>2, LetInBound
  <2>4. h \notin Unrecorded(j)
    BY <1>1 DEF Unrecorded
  <2>5. CASE j # k
    <3>1. Unrecorded(j)' = Unrecorded(j) /\ failures'[j] = failures[j]
      BY <1>6, <2>2, <2>4, <2>5
    <3> QED
      BY <1>1, <2>1, <2>3, <3>1, QuietCounts
  <2>6. CASE j = k /\ IsBanned(k)
    <3>1. failures'[j] = failures[j] /\ failures[j] = {}
      BY <1>6, <2>1, <2>6 DEF CountsBound
    <3> QED
      BY <1>1, <2>1, <2>3, <3>1, QuietCounts
  <2>7. CASE j = k /\ ~IsBanned(k)
    <3>1. /\ ~IsBanned(j) /\ Unrecorded(j)' = Unrecorded(j) \cup {h}
          /\ failures'[j] = failures[j] \cup {[time |-> clock, nth |-> Nth(failures[j]), bare |-> bare]}
      BY <1>6, <2>2, <2>7 DEF new
    <3>2. bare => h \in LetIn(j)
      BY <1>1, <2>7 DEF bare, LetIn
    <3> QED
      BY <1>1, <1>3, <2>1, <2>2, <2>4, <3>1, <3>2, GuessedCounts
  <2> QED
    BY <2>5, <2>6, <2>7
<1> QED
  BY <1>1, <1>7, <1>8, CaptchasStay DEF LimiterInv

LEMMA AttemptsRemoved ==
  ASSUME LimiterInv, NEW h \in Handler, RemoveAttempts(h)
  PROVE  LimiterInv'
<1> DEFINE k == handler[h].ip
<1>1. /\ handler[h].pc = "signed" /\ handler' = [handler EXCEPT ![h] = Resting]
      /\ attempts' = [attempts EXCEPT ![k] = {}] /\ failures' = [failures EXCEPT ![k] = {}]
      /\ UNCHANGED <<bannedUntil, captchas, clock, shown, solved>> /\ LimiterTypes
  BY DEF RemoveAttempts, Finish, LimiterInv
<1>2. /\ k \in Ip /\ failures \in [Ip -> SUBSET Failure] /\ attempts \in [Ip -> SUBSET Attempt]
      /\ Fits(Resting)
  BY <1>1, RestingTyped DEF LimiterTypes, Fits
<1>3. LimiterTypes'
  <2>1. /\ handler' \in [Handler -> Work]
        /\ \A x \in Handler : /\ handler'[x].pc # "idle" => handler'[x].ip \in Ip
                              /\ handler'[x].pc = "captcha" => handler'[x].need
    BY <1>1, <1>2, HandlerTyped
  <2>2. failures' \in [Ip -> SUBSET Failure] /\ attempts' \in [Ip -> SUBSET Attempt]
    BY <1>1, <1>2
  <2> QED
    BY <1>1, <2>1, <2>2 DEF LimiterTypes
<1>4. ASSUME NEW j \in Ip
      PROVE  CountsBound(j)'
  <2>1. CountsBound(j) /\ IsBanned(j)' = IsBanned(j) /\ clock' = clock
    BY <1>1 DEF LimiterInv, IsBanned
  <2>2. Unrecorded(j)' = Unrecorded(j) \ {h} /\ LetIn(j)' = LetIn(j) \ {h}
    BY <1>1, RestingTyped, Moves
  <2>3. Unrecorded(j)' = Unrecorded(j) /\ LetIn(j)' \subseteq LetIn(j)
    BY <1>1, <2>2 DEF Unrecorded
  <2>4. CASE j # k
    <3>1. attempts'[j] = attempts[j] /\ failures'[j] = failures[j]
      BY <1>1, <1>2, <2>4
    <3>2. Cardinality(Bare(j)) + Cardinality(LetIn(j)') < CaptchaThreshold + Cardinality(Handler)
      BY <1>1, <2>1, <2>3, LetInBound
    <3> QED
      BY <1>1, <2>1, <2>3, <3>1, <3>2, QuietCounts
  <2>5. CASE j = k
    <3>1. attempts'[j] = {} /\ failures'[j] = {}
      BY <1>1, <1>2, <2>5
    <3> QED
      BY <1>1, <2>1, <2>3, <3>1, ClearedCounts
  <2> QED
    BY <2>4, <2>5
<1> QED
  BY <1>1, <1>3, <1>4, CaptchasStay DEF LimiterInv

LEMMA ExpiredCleaned ==
  ASSUME LimiterInv, CleanupExpired
  PROVE  LimiterInv'
<1>1. /\ bannedUntil' = [i \in Ip |-> IF IsBanned(i) THEN bannedUntil[i] ELSE 0]
      /\ attempts' = [i \in Ip |-> Recent(attempts[i])]
      /\ captchas' = [c \in Captcha |-> IF clock > captchas[c] THEN 0 ELSE captchas[c]]
      /\ UNCHANGED <<handler, clock, failures, shown, solved>> /\ LimiterTypes
  BY DEF CleanupExpired, LimiterInv
<1>2. /\ bannedUntil' \in [Ip -> Nat] /\ captchas' \in [Captcha -> Nat]
      /\ \A c \in Captcha : captchas'[c] # 0 => captchas[c] # 0
  BY <1>1 DEF LimiterTypes
<1>3. \A j \in Ip : IsBanned(j)' = IsBanned(j)
  BY <1>1 DEF IsBanned
<1>4. attempts' \in [Ip -> SUBSET Attempt]
  BY <1>1, CountsFinite DEF LimiterTypes
<1>5. LimiterTypes'
  BY <1>1, <1>2, <1>4 DEF LimiterTypes
<1>6. CaptchasFresh'
  BY <1>1, <1>2, CaptchasDropped
<1>7. \A j \in Ip : CountsBound(j)'
  BY <1>1, <1>3, QuietAddresses
<1> QED
  BY <1>5, <1>6, <1>7 DEF LimiterInv

LEMMA ClockTicks ==
  ASSUME LimiterInv, ClockTick
  PROVE  LimiterInv'
<1>1. /\ clock' = clock + 1
      /\ failures' = [i \in Ip |-> Since(failures[i], clock + 1 - AttemptsWindow)]
      /\ UNCHANGED <<attempts, bannedUntil, captchas, handler, shown, solved>> /\ LimiterTypes
  BY DEF ClockTick, LimiterInv
<1>2. failures' \in [Ip -> SUBSET Failure]
  BY <1>1 DEF LimiterTypes, Since
<1>3. LimiterTypes'
  BY <1>1, <1>2 DEF LimiterTypes
<1>4. \A j \in Ip : CountsBound(j)'
  BY <1>1, TickedCounts DEF LimiterInv
<1> QED
  BY <1>1, <1>3, <1>4, CaptchasStay DEF LimiterInv

LEMMA LimiterStarts ==
  ASSUME LimiterInit
  PROVE  LimiterInv
<1>1. /\ attempts = [i \in Ip |-> {}] /\ failures = [i \in Ip |-> {}]
      /\ bannedUntil = [i \in Ip |-> 0] /\ captchas = [c \in Captcha |-> 0]
      /\ handler = [h \in Handler |-> Resting] /\ clock = 1 /\ shown = {}
      /\ solved = [c \in Captcha |-> 0]
  BY DEF LimiterInit
<1>2. LimiterTypes
  BY <1>1, RestingTyped DEF LimiterTypes
<1>3. Cardinality({}) = 0 /\ IsFiniteSet({})
  BY FS_EmptySet
<1>4. CaptchasFresh
  <2>1. Waiting(captchas) = {}
    BY <1>1 DEF Waiting
  <2> QED
    BY <1>1, <1>3, <2>1, LimiterAssumption DEF CaptchasFresh
<1>5. ASSUME NEW i \in Ip
      PROVE  CountsBound(i)
  <2>1. attempts[i] = {} /\ failures[i] = {}
    BY <1>1
  <2>2. Unrecorded(i) = {} /\ LetIn(i) = {} /\ Bare(i) = {} /\ Recent(attempts[i]) = {}
        /\ \A time : Since(attempts[i], time) = {} /\ Since(failures[i], time) = {}
    BY <1>1, <2>1, RestingTyped DEF Unrecorded, LetIn, Bare, Recent, Since
  <2>3. Numbered(attempts[i]) /\ Numbered(failures[i])
    BY <1>3, <2>1 DEF Numbered
  <2>4. Cardinality(Handler) \in Nat /\ Cardinality(Handler) > 0
    <3>1. Cardinality(Handler) \in Nat /\ Cardinality(Handler) # 0
      BY FS_EmptySet, FS_CardinalityType, LimiterAssumption
    <3> QED
      BY <3>1
  <2>5. Cardinality(Bare(i)) + Cardinality(LetIn(i)) < CaptchaThreshold + Cardinality(Handler)
    BY <1>3, <2>2, <2>4, LimiterAssumption
  <2> QED
    BY <1>3, <2>1, <2>2, <2>3, <2>5 DEF CountsBound
<1> QED
  BY <1>2, <1>4, <1>5 DEF LimiterInv

LEMMA LimiterStep ==
  ASSUME LimiterInv, LimiterNext
  PROVE  LimiterInv'
<1>1. CASE \E h \in Handler : LoginStep(h)
  <2>1. PICK h \in Handler : LoginStep(h)
    BY <1>1
  <2> QED
    BY <2>1, LoginStarted, QuietHandlers, CaptchaSolved, AttemptsRecorded, CaptchaRefused,
       WrongGuessed, AttemptsRemoved, CaptchaDrawn DEF LoginStep
<1> QED
  BY <1>1, LoginRefused, ExpiredCleaned, ClockTicks DEF LimiterNext

\* Whatever the handlers do between their calls: no more guesses were wrong
\* since a moment of the window than are recorded since then and will be, and a
\* stored captcha was drawn and has let nobody through.
THEOREM LimiterInvariant == LimiterSpec => []LimiterInv
<1>1. LimiterInv /\ UNCHANGED limits => LimiterInv'
  <2> SUFFICES ASSUME LimiterInv, UNCHANGED limits
               PROVE  LimiterInv'
    OBVIOUS
  <2>1. LimiterTypes'
    BY DEF limits, LimiterInv, LimiterTypes
  <2>2. \A j \in Ip : CountsBound(j)'
    <3>1. UNCHANGED <<attempts, bannedUntil, handler, clock, failures>>
      BY DEF limits
    <3>2. \A j \in Ip : IsBanned(j)' = IsBanned(j)
      BY <3>1 DEF IsBanned
    <3> QED
      BY <3>1, <3>2, QuietAddresses
  <2> QED
    BY <2>1, <2>2, CaptchasStay DEF limits, LimiterInv
<1> QED
  BY <1>1, LimiterStarts, LimiterStep, PTL DEF LimiterSpec

\* The limiter bounds guessing (see GuessesBounded), for any thresholds,
\* addresses and handlers: CheckSecurityStatus, RecordFailedAttempt,
\* RemoveAttempts.
THEOREM LimiterBoundsGuesses == LimiterSpec => []GuessesBounded
<1>1. LimiterInv => GuessesBounded
  <2> SUFFICES ASSUME LimiterInv, NEW i \in Ip
               PROVE  /\ BanThreshold > 0 =>
                           Cardinality(failures[i]) < BanThreshold + Cardinality(Handler)
                      /\ Cardinality(Bare(i)) < CaptchaThreshold + Cardinality(Handler)
    BY DEF GuessesBounded
  <2>1. CountsBound(i) /\ LimiterTypes
    BY DEF LimiterInv
  <2> DEFINE start == clock - AttemptsWindow
             old == Cardinality(Recent(attempts[i]))
  <2>2. start \in clock - AttemptsWindow..clock - 1
    BY <2>1, CountsTyped
  <2>3. Since(failures[i], start) = failures[i]
    BY <2>1 DEF Since, CountsBound
  <2>4. Cardinality(failures[i]) <= old + Cardinality(Unrecorded(i))
    BY <2>1, <2>2, <2>3 DEF CountsBound, Recent
  <2>5. old \in Nat /\ Cardinality(failures[i]) \in Nat
    BY <2>1, CountsTyped, SinceFinite, FS_CardinalityType DEF Recent
  <2>6. BanThreshold > 0 => old < BanThreshold
    BY <2>1 DEF CountsBound
  <2> HIDE DEF old
  <2>7. /\ Cardinality(Unrecorded(i)) <= Cardinality(Handler) /\ Cardinality(Unrecorded(i)) \in Nat
        /\ Cardinality(Handler) \in Nat /\ Cardinality(LetIn(i)) \in Nat
    BY GuessersFinite
  <2>8. Cardinality(Bare(i)) + Cardinality(LetIn(i)) < CaptchaThreshold + Cardinality(Handler)
    BY <2>1 DEF CountsBound
  <2> QED
    BY <2>1, <2>4, <2>5, <2>6, <2>7, <2>8, CountsTyped, LimiterAssumption
<1> QED
  BY <1>1, LimiterInvariant, PTL

\* A captcha lets one request through and the store stays within its limit:
\* RequireCaptcha, VerifyCaptcha, cleanupExpired.
THEOREM CaptchasLetOneThrough == LimiterSpec => []CaptchaOnce
<1>1. LimiterInv => CaptchaOnce
  BY DEF LimiterInv, CaptchasFresh, CaptchaOnce
<1> QED
  BY <1>1, LimiterInvariant, PTL

-----------------------------------------------------------------------------
(* Sign-ins with a provider: the store                                      *)

USE OauthAssumption, NoItemAssumption

LEMMA KeptPointwise ==
  ASSUME TypeOK
  PROVE  /\ Kept \in [State -> Item \cup {NoItem}]
         /\ \A s \in State : Kept[s] = items[s] \/ Kept[s] = NoItem
         /\ \A s \in State : Kept[s] # NoItem => Kept[s].expires > now
  BY DEF TypeOK, Kept, Expired, Item

\* Removing states does not make the store larger.
LEMMA FewerItems ==
  ASSUME NEW f, NEW g, \A s \in State : g[s] = f[s] \/ g[s] = NoItem
  PROVE  /\ Size(g) \in Nat /\ Size(f) \in Nat
         /\ Size(g) <= Size(f)
<1>1. {s \in State : g[s] # NoItem} \subseteq {s \in State : f[s] # NoItem}
  OBVIOUS
<1>2. IsFiniteSet({s \in State : f[s] # NoItem})
  BY FS_Subset
<1> QED
  BY <1>1, <1>2, FS_Subset, FS_CardinalityType DEF Size

\* An item is written over one that is there, or into a free place.
LEMMA SetItemKeepsCapacity ==
  ASSUME TypeOK, CapacityHolds, NEW s \in State, NEW item, SetItem(s, item)
  PROVE  CapacityHolds'
<1> DEFINE before == {k \in State : Kept[k] # NoItem}
           after == {k \in State : [Kept EXCEPT ![s] = item][k] # NoItem}
<1>1. Size(Kept) \in Nat /\ Size(Kept) <= MaxStates
  BY KeptPointwise, FewerItems DEF CapacityHolds
<1>2. CASE ~Room(s)
  BY <1>1, <1>2 DEF SetItem, CapacityHolds, Size
<1>3. CASE Room(s)
  <2>1. items' = [Kept EXCEPT ![s] = item]
    BY <1>3 DEF SetItem
  <2>2. after \subseteq before \cup {s}
    BY KeptPointwise
  <2>3. IsFiniteSet(before) /\ IsFiniteSet(before \cup {s})
    BY FS_Subset, FS_AddElement
  <2>4. Cardinality(after) <= Cardinality(before \cup {s})
    BY <2>2, <2>3, FS_Subset
  <2>5. Cardinality(after) \in Nat /\ Cardinality(before) \in Nat
    BY <2>2, <2>3, FS_Subset, FS_CardinalityType
  <2>6. CASE s \in before
    <3>1. before \cup {s} = before
      BY <2>6
    <3>2. Cardinality(after) <= MaxStates
      BY <1>1, <2>4, <2>5, <3>1 DEF Size
    <3> QED
      BY <2>1, <3>2 DEF CapacityHolds, Size
  <2>7. CASE s \notin before
    <3>1. Size(Kept) < MaxStates
      BY <1>3, <2>7 DEF Room
    <3>2. Cardinality(before \cup {s}) = Cardinality(before) + 1
      BY <2>3, <2>7, FS_AddElement
    <3>3. Cardinality(after) <= MaxStates
      BY <2>4, <2>5, <3>1, <3>2 DEF Size
    <3> QED
      BY <2>1, <3>3 DEF CapacityHolds, Size
  <2> QED BY <2>6, <2>7
<1> QED BY <1>2, <1>3

LEMMA SetItemPointwise ==
  ASSUME TypeOK, NEW s \in State, NEW item \in Item, SetItem(s, item)
  PROVE  /\ items' \in [State -> Item \cup {NoItem}]
         /\ items'[s] \in {item, items[s], NoItem}
         /\ \A k \in State : k # s => items'[k] = items[k] \/ items'[k] = NoItem
  BY KeptPointwise DEF SetItem

LEMMA IdleInOp == Idle \in Op /\ Idle.pc = "idle" /\ Idle.state = NoState
  BY DEF Idle, Op, OpPC, Reservation, Item

-----------------------------------------------------------------------------
(* A state that a step leaves alone, or only removes                        *)

\* A handler ends, or goes on with its state, keeping what the store wrote.
GoesOn(p) ==
  \/ op'[p].state = NoState /\ op'[p].pc = "idle"
  \/ op'[p] = op[p]
  \/ /\ op[p].pc \in {"called", "bind"} /\ op'[p].pc \in {"store", "bound"}
     /\ op'[p].pc = "store" => op[p].pc = "called" /\ op[p].item.action = "login"
     /\ op'[p].state = op[p].state
     /\ op'[p].item.action = op[p].item.action
     /\ op'[p].item.webauth = op[p].item.webauth
     /\ op'[p].item.claimed = op[p].item.claimed
     /\ op'[p].item.expires = op[p].item.expires

\* What a step may do around a state for the state to stay as it should.
LeavesAlone(s) ==
  /\ items'[s] = items[s] \/ items'[s] = NoItem
  /\ drawn'[s] = drawn[s] /\ claims'[s] = claims[s]
  /\ sessions'[s] = sessions[s]
  /\ \/ published'[s] = published[s]
     \/ \E p \in Proc : op[p].pc = "begun" /\ op[p].state = s
  /\ \A p \in Proc : op'[p].state = s => GoesOn(p)

LEMMA LeftAlone ==
  ASSUME NEW s \in State, StateInv(s), LeavesAlone(s)
  PROVE  StateInv(s)'
<1>1. \A p \in Proc : op'[p].state = s =>
        /\ op[p].state = s
        /\ op'[p].pc = "begun" => op'[p] = op[p]
        /\ op'[p].pc \in {"called", "store"} => op[p].pc \in {"called", "store"}
        /\ op'[p].pc = "store" => op[p].pc = "store" \/ op[p].item.action = "login"
        /\ op'[p].item.action = op[p].item.action
        /\ op'[p].item.webauth = op[p].item.webauth
        /\ op'[p].item.claimed = op[p].item.claimed
        /\ op'[p].item.expires = op[p].item.expires
  BY DEF LeavesAlone, GoesOn
<1>2. UndrawnIsUnused(s)'
  BY <1>1 DEF StateInv, UndrawnIsUnused, LeavesAlone
<1>3. KindIsKept(s)'
  BY <1>1 DEF StateInv, KindIsKept, KindOf, LeavesAlone
<1>4. BegunIsAlone(s)'
  BY <1>1 DEF StateInv, BegunIsAlone, LeavesAlone
<1>5. \A p \in Proc : InCallback(p, s)' => InCallback(p, s)
  BY <1>1 DEF InCallback
<1>6. ClaimIsUnique(s)'
  BY <1>1, <1>5 DEF StateInv, ClaimIsUnique, LeavesAlone, InCallback
<1>7. AnswerIsUnique(s)'
  BY <1>5 DEF StateInv, AnswerIsUnique, LeavesAlone
<1>8. BindHasNoSession(s)'
  BY DEF StateInv, BindHasNoSession, LeavesAlone
<1>9. ExpiryIsKept(s)'
  <2>1. CASE published'[s] = published[s]
    BY <1>1, <1>5, <2>1 DEF StateInv, ExpiryIsKept, LeavesAlone, InCallback
  <2>2. CASE published'[s] # published[s]
    <3>1. /\ items[s] # NoItem => items[s].action = "none"
          /\ \A p \in Proc : ~InCallback(p, s)
      BY <2>2 DEF StateInv, BegunIsAlone, LeavesAlone, InCallback
    <3> QED
      BY <1>5, <3>1 DEF ExpiryIsKept, LeavesAlone
  <2> QED BY <2>1, <2>2
<1> QED
  BY <1>2, <1>3, <1>4, <1>6, <1>7, <1>8, <1>9 DEF StateInv

-----------------------------------------------------------------------------
(* Steps in which states are only removed, and handlers only go on          *)

LEMMA QuietSteps ==
  ASSUME OauthInv, Record,
         items' \in [State -> Item \cup {NoItem}],
         \A s \in State : items'[s] = items[s] \/ items'[s] = NoItem,
         op' \in [Proc -> Op], \A p \in Proc : GoesOn(p),
         third' \in [OpenId -> User \cup {NoUser}],
         sessions' = sessions, drawn' = drawn, now' \in 0..MaxTime
  PROVE  OauthInv'
<1>1. TypeOK /\ TypeOK'
  BY DEF OauthInv, TypeOK
<1>2. \A p \in Proc, s \in State : ~Claimed(p, s)
  BY DEF Claimed, GoesOn
<1>3. claims' = claims /\ published' \in [State -> Nat]
  BY <1>1, <1>2 DEF OauthInv, Record, TypeOK
<1>4. CapacityHolds'
  <2>1. Size(items') \in Nat /\ Size(items) \in Nat /\ Size(items') <= Size(items)
    BY FewerItems
  <2> QED
    BY <2>1 DEF OauthInv, CapacityHolds, Size
<1>5. IdleHasNoState'
  BY <1>1 DEF OauthInv, IdleHasNoState, GoesOn
<1>6. ASSUME NEW s \in State
      PROVE  StateInv(s)'
  <2>1. LeavesAlone(s)
    BY <1>3 DEF LeavesAlone, Record, Published
  <2> QED
    BY <2>1, LeftAlone DEF OauthInv
<1> QED
  BY <1>1, <1>3, <1>4, <1>5, <1>6 DEF OauthInv

LEMMA EveryQuietStep ==
  ASSUME OauthInv, Record,
         \/ \E p \in Proc :
              \/ BeginFails(p) \/ DeleteOauthCache(p) \/ BindOauthUser(p) \/ Fail(p)
              \/ \E o \in OpenId :
                   \/ CallbackBinds(p, o) \/ CallbackFindsUser(p, o)
                   \/ CallbackAsksToBind(p, o)
                   \/ \E u \in User : CallbackRegisters(p, o, u)
         \/ \E u \in User : Unbind(u)
         \/ \E s \in State : PollFails(s)
         \/ Restart \/ Tick \/ UNCHANGED vars
  PROVE  OauthInv'
<1> USE IdleInOp
<1>1. TypeOK
  BY DEF OauthInv
<1>2. ASSUME NEW p \in Proc, BeginFails(p) \/ DeleteOauthCache(p)
      PROVE  OauthInv'
  <2>1. /\ items' \in [State -> Item \cup {NoItem}]
        /\ \A s \in State : items'[s] = items[s] \/ items'[s] = NoItem
    BY <1>1, <1>2 DEF TypeOK, BeginFails, DeleteOauthCache
  <2>2. op' \in [Proc -> Op] /\ \A q \in Proc : GoesOn(q)
    BY <1>1, <1>2 DEF TypeOK, BeginFails, DeleteOauthCache, GoesOn
  <2> QED
    BY <1>1, <1>2, <2>1, <2>2, QuietSteps DEF TypeOK, BeginFails, DeleteOauthCache
<1>3. ASSUME NEW p \in Proc, Fail(p)
      PROVE  OauthInv'
  <2>1. op' \in [Proc -> Op] /\ \A q \in Proc : GoesOn(q)
    BY <1>1, <1>3 DEF TypeOK, Fail, GoesOn
  <2> QED
    BY <1>1, <1>3, <2>1, QuietSteps DEF TypeOK, Fail
<1>4. ASSUME NEW p \in Proc, BindOauthUser(p)
      PROVE  OauthInv'
  <2>1. op' \in [Proc -> Op] /\ \A q \in Proc : GoesOn(q)
    BY <1>1, <1>4 DEF TypeOK, BindOauthUser, GoesOn, Op, OpPC
  <2>2. third' \in [OpenId -> User \cup {NoUser}]
    BY <1>1, <1>4 DEF TypeOK, BindOauthUser, Op
  <2> QED
    BY <1>1, <1>4, <2>1, <2>2, QuietSteps DEF TypeOK, BindOauthUser
<1>5. ASSUME NEW p \in Proc, NEW o \in OpenId, CallbackBinds(p, o)
      PROVE  OauthInv'
  <2>1. op' \in [Proc -> Op] /\ \A q \in Proc : GoesOn(q)
    BY <1>1, <1>5 DEF TypeOK, CallbackBinds, GoesOn, Op, OpPC
  <2>2. third' \in [OpenId -> User \cup {NoUser}]
    BY <1>1, <1>5 DEF TypeOK, CallbackBinds, Op, Item
  <2> QED
    BY <1>1, <1>5, <2>1, <2>2, QuietSteps DEF TypeOK, CallbackBinds
<1>6. ASSUME NEW p \in Proc, NEW o \in OpenId,
             \/ CallbackFindsUser(p, o) \/ CallbackAsksToBind(p, o)
             \/ \E u \in User : CallbackRegisters(p, o, u)
      PROVE  OauthInv'
  <2>1. op[p].item \in Item /\ op[p] \in Op
    BY <1>1 DEF TypeOK, Op
  <2>2. op[p].pc = "called" /\ op[p].item.action = "login"
    BY <1>6 DEF CallbackFindsUser, CallbackAsksToBind, CallbackRegisters,
                SignInAnswered
  <2>3. op' \in [Proc -> Op] /\ \A q \in Proc : GoesOn(q)
    <3>1. ASSUME NEW u \in User \cup {NoUser},
                 op' = [op EXCEPT ![p].pc = "store", ![p].item.user = u]
          PROVE  <2>3
      <4>1. [op[p].item EXCEPT !.user = u] \in Item
        BY <2>1 DEF Item
      <4>2. op'[p] \in Op /\ GoesOn(p)
        BY <1>1, <2>1, <2>2, <3>1, <4>1 DEF TypeOK, GoesOn, Op, OpPC, Item
      <4> QED
        BY <1>1, <3>1, <4>2 DEF TypeOK, GoesOn
    <3>2. ASSUME op' = [op EXCEPT ![p].pc = "store", ![p].item.open = o]
          PROVE  <2>3
      <4>1. [op[p].item EXCEPT !.open = o] \in Item
        BY <2>1 DEF Item
      <4>2. op'[p] \in Op /\ GoesOn(p)
        BY <1>1, <2>1, <2>2, <3>2, <4>1 DEF TypeOK, GoesOn, Op, OpPC, Item
      <4> QED
        BY <1>1, <3>2, <4>2 DEF TypeOK, GoesOn
    <3> QED
      BY <1>1, <1>6, <3>1, <3>2
      DEF TypeOK, CallbackFindsUser, CallbackAsksToBind, CallbackRegisters
  <2>4. third' \in [OpenId -> User \cup {NoUser}]
    BY <1>1, <1>6
    DEF TypeOK, CallbackFindsUser, CallbackAsksToBind, CallbackRegisters
  <2> QED
    BY <1>1, <1>6, <2>3, <2>4, QuietSteps
    DEF TypeOK, CallbackFindsUser, CallbackAsksToBind, CallbackRegisters
<1>7. ASSUME NEW u \in User, Unbind(u)
      PROVE  OauthInv'
  BY <1>1, <1>7, QuietSteps DEF TypeOK, Unbind, GoesOn
<1>8. CASE Restart
  BY <1>1, <1>8, QuietSteps DEF TypeOK, Restart, GoesOn
<1>9. CASE Tick
  <2>1. now' \in 0..MaxTime
    BY <1>1, <1>9 DEF TypeOK, Tick
  <2> QED
    BY <1>1, <1>9, <2>1, QuietSteps DEF TypeOK, Tick, GoesOn
<1>10. CASE UNCHANGED vars
  BY <1>1, <1>10, QuietSteps DEF TypeOK, vars, GoesOn
<1>11. ASSUME NEW s \in State, PollFails(s)
       PROVE  OauthInv'
  <2>1. /\ items' \in [State -> Item \cup {NoItem}]
        /\ \A k \in State : items'[k] = items[k] \/ items'[k] = NoItem
    BY <1>1, <1>11, KeptPointwise DEF PollFails
  <2> QED
    BY <1>1, <1>11, <2>1, QuietSteps DEF TypeOK, PollFails, GoesOn
<1> QED
  BY <1>2, <1>3, <1>4, <1>5, <1>6, <1>7, <1>8, <1>9, <1>10, <1>11

-----------------------------------------------------------------------------
(* Steps that do something to one state                                     *)

LEMMA OnlyOneState ==
  ASSUME OauthInv, Record, TypeOK', CapacityHolds', IdleHasNoState',
         NEW s \in State, StateInv(s)',
         \A k \in State \ {s} :
           /\ items'[k] = items[k] \/ items'[k] = NoItem
           /\ drawn'[k] = drawn[k] /\ sessions'[k] = sessions[k]
           /\ \A q \in Proc : op'[q].state = k => op'[q] = op[q]
  PROVE  OauthInv'
<1>1. published' \in [State -> Nat] /\ claims' \in [State -> Nat]
  BY DEF OauthInv, TypeOK, Record
<1>2. ASSUME NEW k \in State, k # s
      PROVE  StateInv(k)'
  <2>1. LeavesAlone(k)
    BY <1>2 DEF LeavesAlone, GoesOn, OauthInv, Record, Published, Claimed
  <2> QED
    BY <2>1, LeftAlone DEF OauthInv
<1> QED
  BY <1>1, <1>2 DEF OauthInv

LEMMA BeginSteps ==
  ASSUME OauthInv, Record, NEW p \in Proc, NEW s \in State, NEW item \in Item,
         item.action \in {"login", "bind"},
         item.action = "login" => item.user = NoUser,
         BeginAuth(p, s, item)
  PROVE  OauthInv'
<1>1. TypeOK /\ CapacityHolds /\ IdleHasNoState /\ StateInv(s)
  BY DEF OauthInv
<1>2. /\ items[s] = NoItem /\ claims[s] = 0 /\ sessions[s] = <<>>
      /\ \A q \in Proc : op[q].state # s
  BY <1>1 DEF StateInv, UndrawnIsUnused, BeginAuth
<1>3. /\ KindOf(item) \in Kind \ {"none"}
      /\ Renewed(Reservation) \in Item /\ Renewed(Reservation).action = "none"
      /\ Renewed(Reservation).user = NoUser
  <2>1. KindOf(item) \in Kind \ {"none"}
    BY DEF KindOf, Kind
  <2>2. now \in Nat /\ now + Lifetime \in Nat
    BY <1>1 DEF TypeOK
  <2>3. Reservation \in Item /\ Reservation.action = "none"
        /\ Reservation.user = NoUser
    BY DEF Reservation, Item
  <2> QED
    BY <2>1, <2>2, <2>3 DEF Renewed, Item
<1> DEFINE new == [pc |-> "begun", state |-> s, item |-> item, user |-> NoUser]
<1>4. new \in Op /\ new.pc = "begun" /\ new.state = s /\ new.item = item
  BY DEF Op, OpPC
<1>5. op' = [op EXCEPT ![p] = new] /\ SetItem(s, Renewed(Reservation))
      /\ drawn' = [drawn EXCEPT ![s] = KindOf(item)]
      /\ UNCHANGED <<third, sessions, now>> /\ op[p].pc = "idle"
  BY DEF BeginAuth
<1> HIDE DEF new
<1>6. /\ items' \in [State -> Item \cup {NoItem}]
      /\ items'[s] \in {Renewed(Reservation), NoItem}
      /\ \A k \in State \ {s} : items'[k] = items[k] \/ items'[k] = NoItem
  BY <1>1, <1>2, <1>3, <1>5, SetItemPointwise
<1>7. TypeOK'
  BY <1>1, <1>3, <1>4, <1>5, <1>6 DEF TypeOK
<1>8. CapacityHolds'
  BY <1>1, <1>5, SetItemKeepsCapacity
<1>9. op'[p] = new /\ \A q \in Proc \ {p} : op'[q] = op[q]
  BY <1>1, <1>5 DEF TypeOK
<1>10. IdleHasNoState'
  BY <1>1, <1>4, <1>9 DEF IdleHasNoState
<1>11. \A q \in Proc : op'[q].state = s => q = p
  BY <1>2, <1>9
<1>12. claims'[s] = 0 /\ sessions'[s] = <<>> /\ drawn'[s] = KindOf(item)
  BY <1>1, <1>2, <1>4, <1>5, <1>9, <1>11 DEF Record, Claimed, TypeOK
<1>13. StateInv(s)'
  <2>1. UndrawnIsUnused(s)' /\ BindHasNoSession(s)'
    BY <1>3, <1>12 DEF UndrawnIsUnused, BindHasNoSession
  <2>2. KindIsKept(s)'
    BY <1>3, <1>4, <1>6, <1>9, <1>11, <1>12 DEF KindIsKept
  <2>3. BegunIsAlone(s)'
    BY <1>3, <1>4, <1>6, <1>9, <1>11, <1>12 DEF BegunIsAlone
  <2>4. \A q \in Proc : ~InCallback(q, s)'
    BY <1>4, <1>9, <1>11 DEF InCallback
  <2>5. ClaimIsUnique(s)' /\ AnswerIsUnique(s)' /\ ExpiryIsKept(s)'
    BY <1>3, <1>6, <1>12, <2>4 DEF ClaimIsUnique, AnswerIsUnique, ExpiryIsKept
  <2> QED
    BY <2>1, <2>2, <2>3, <2>5 DEF StateInv
<1>14. \A k \in State \ {s} :
         /\ drawn'[k] = drawn[k] /\ sessions'[k] = sessions[k]
         /\ \A q \in Proc : op'[q].state = k => op'[q] = op[q]
  BY <1>1, <1>4, <1>5, <1>9 DEF TypeOK
<1> QED
  BY <1>6, <1>7, <1>8, <1>10, <1>13, <1>14, OnlyOneState

LEMMA PublishSteps ==
  ASSUME OauthInv, Record, NEW p \in Proc, PublishState(p)
  PROVE  OauthInv'
<1>1. TypeOK /\ CapacityHolds /\ IdleHasNoState
  BY DEF OauthInv
<1>0. op[p].state \in State /\ op[p].item \in Item /\ now \in Nat
  BY <1>1 DEF PublishState, TypeOK, Op, IdleHasNoState
<1>3. PICK s \in State, item \in Item : s = op[p].state /\ item = op[p].item
  BY <1>0
<1>2. /\ op[p].pc = "begun" /\ op' = [op EXCEPT ![p] = Idle]
      /\ SetItem(s, Renewed(item)) /\ UNCHANGED <<drawn, third, sessions, now>>
  BY <1>3 DEF PublishState
<1>4. StateInv(s)
  BY <1>3 DEF OauthInv
<1>5. /\ items[s] # NoItem => items[s].action = "none"
      /\ claims[s] = 0 /\ sessions[s] = <<>>
      /\ item.action = "login" => item.user = NoUser
      /\ \A q \in Proc : op[q].state = s => q = p
  BY <1>2, <1>3, <1>4 DEF StateInv, BegunIsAlone
<1>6. item.action # "none" /\ KindOf(item) = drawn[s]
  BY <1>3, <1>4 DEF StateInv, KindIsKept
<1>7. /\ Renewed(item) \in Item /\ Renewed(item).expires = now + Lifetime
      /\ Renewed(item).action = item.action /\ Renewed(item).user = item.user
      /\ KindOf(Renewed(item)) = KindOf(item)
  BY <1>0 DEF Renewed, Item, KindOf
<1>8. /\ items' \in [State -> Item \cup {NoItem}]
      /\ items'[s] \in {Renewed(item), items[s], NoItem}
      /\ \A k \in State : k # s => items'[k] = items[k] \/ items'[k] = NoItem
  BY <1>1, <1>2, <1>3, <1>7, SetItemPointwise
<1>9. op'[p] = Idle /\ \A q \in Proc \ {p} : op'[q] = op[q]
  BY <1>1, <1>2 DEF TypeOK
<1>10. TypeOK' /\ IdleHasNoState'
  <2>1. TypeOK'
    BY <1>1, <1>2, <1>8, IdleInOp DEF TypeOK
  <2> QED
    BY <1>1, <1>9, <2>1, IdleInOp DEF IdleHasNoState
<1>11. CapacityHolds'
  BY <1>1, <1>2, <1>3, SetItemKeepsCapacity
<1>12. \A q \in Proc : op'[q].state # s
  BY <1>3, <1>5, <1>9, IdleInOp
<1>13. claims'[s] = 0 /\ published'[s] = now
  <2>1. Published(p, s)
    BY <1>2, <1>3, <1>9, IdleInOp DEF Published
  <2> QED
    BY <1>3, <1>5, <1>12, <2>1 DEF Record, Claimed
<1>14. StateInv(s)'
  <2>1. \A q \in Proc : ~InCallback(q, s)'
    BY <1>12 DEF InCallback
  <2>2. UndrawnIsUnused(s)' /\ BegunIsAlone(s)' /\ BindHasNoSession(s)'
    <3>1. drawn'[s] # "none"
      BY <1>2, <1>6 DEF KindOf
    <3> QED
      BY <1>2, <1>5, <1>12, <3>1
      DEF UndrawnIsUnused, BegunIsAlone, BindHasNoSession
  <2>3. KindIsKept(s)'
    BY <1>2, <1>5, <1>6, <1>7, <1>8, <1>12 DEF KindIsKept
  <2>4. ClaimIsUnique(s)'
    BY <1>13, <2>1 DEF ClaimIsUnique
  <2>5. AnswerIsUnique(s)'
    <3>1. sessions'[s] = <<>>
      BY <1>2, <1>5
    <3>2. CASE items'[s] = Renewed(item)
      <4>1. drawn'[s] = "provider" => item.action = "login"
        BY <1>2, <1>6 DEF KindOf, Item
      <4> QED
        BY <1>5, <1>7, <2>1, <3>1, <3>2, <4>1 DEF AnswerIsUnique
    <3>3. CASE items'[s] = items[s]
      <4>1. drawn[s] = "provider" /\ items[s] # NoItem /\ items[s].user # NoUser
              => claims[s] = 1
        BY <1>4 DEF StateInv, AnswerIsUnique
      <4> QED
        BY <1>2, <1>5, <2>1, <3>1, <3>3, <4>1 DEF AnswerIsUnique
    <3>4. CASE items'[s] = NoItem
      BY <2>1, <3>1, <3>4 DEF AnswerIsUnique
    <3> QED
      BY <1>8, <3>2, <3>3, <3>4
  <2>6. ExpiryIsKept(s)'
    BY <1>0, <1>5, <1>7, <1>8, <1>13, <2>1 DEF ExpiryIsKept
  <2> QED
    BY <2>2, <2>3, <2>4, <2>5, <2>6 DEF StateInv
<1>15. \A k \in State \ {s} :
         /\ drawn'[k] = drawn[k] /\ sessions'[k] = sessions[k]
         /\ \A q \in Proc : op'[q].state = k => op'[q] = op[q]
  BY <1>2, <1>9, IdleInOp
<1> QED
  BY <1>3, <1>8, <1>10, <1>11, <1>14, <1>15, OnlyOneState

LEMMA ClaimSteps ==
  ASSUME OauthInv, Record, NEW p \in Proc, NEW s \in State,
         ClaimOauthCallback(p, s)
  PROVE  OauthInv'
<1>1. TypeOK /\ CapacityHolds /\ IdleHasNoState /\ StateInv(s)
  BY DEF OauthInv
<1>2. /\ Kept[s] = items[s] /\ items[s] # NoItem /\ items[s] \in Item
      /\ items[s].action # "none" /\ ~items[s].claimed /\ op[p].pc = "idle"
      /\ UNCHANGED <<drawn, third, sessions, now>>
  BY <1>1, KeptPointwise DEF ClaimOauthCallback, Item, TypeOK
<1>3. PICK old \in Item : old = items[s]
  BY <1>2
<1>4. PICK clone \in Item : clone = [old EXCEPT !.claimed = TRUE]
  BY DEF Item
<1>5. /\ clone.claimed /\ clone.action = old.action /\ clone.user = old.user
      /\ clone.webauth = old.webauth /\ clone.expires = old.expires
      /\ KindOf(clone) = KindOf(old)
  BY <1>4 DEF Item, KindOf
<1>6. PICK new \in Op : new = [pc |-> "called", state |-> s, user |-> NoUser,
                               item |-> clone]
  BY DEF Op, OpPC
<1>7. new.pc = "called" /\ new.state = s /\ new.item = clone
  BY <1>6
<1>8. items' = [Kept EXCEPT ![s] = clone] /\ op' = [op EXCEPT ![p] = new]
  BY <1>2, <1>3, <1>4, <1>6 DEF ClaimOauthCallback, MarkClaimed
<1>9. /\ items' \in [State -> Item \cup {NoItem}] /\ items'[s] = clone
      /\ \A k \in State \ {s} : items'[k] = items[k] \/ items'[k] = NoItem
  BY <1>1, <1>8, KeptPointwise
<1>10. op'[p] = new /\ \A q \in Proc \ {p} : op'[q] = op[q]
  BY <1>1, <1>8 DEF TypeOK
<1>11. TypeOK' /\ IdleHasNoState'
  <2>1. TypeOK'
    BY <1>1, <1>2, <1>8, <1>9 DEF TypeOK
  <2> QED
    BY <1>1, <1>7, <1>10, <2>1 DEF IdleHasNoState
<1>12. CapacityHolds'
  <2>1. SetItem(s, clone)
    BY <1>2, <1>8 DEF SetItem, Room
  <2> QED
    BY <1>1, <2>1, SetItemKeepsCapacity
<1>13. /\ KindOf(old) = drawn[s] /\ old.action # "none" /\ drawn[s] # "none"
       /\ \A q \in Proc : ~(op[q].pc = "begun" /\ op[q].state = s)
  BY <1>1, <1>2, <1>3
  DEF StateInv, KindIsKept, BegunIsAlone, UndrawnIsUnused
<1>14. drawn[s] # "webauth" => claims[s] = 0 /\ \A q \in Proc : ~InCallback(q, s)
  BY <1>1, <1>2 DEF StateInv, ClaimIsUnique
<1>15. claims'[s] = claims[s] + 1 /\ published'[s] = published[s]
  BY <1>7, <1>2, <1>10, <1>13 DEF Record, Claimed, Published
<1>16. StateInv(s)'
  <2>1. UndrawnIsUnused(s)' /\ BindHasNoSession(s)'
    BY <1>1, <1>2, <1>13 DEF UndrawnIsUnused, StateInv, BindHasNoSession
  <2>2. KindIsKept(s)'
    BY <1>1, <1>2, <1>5, <1>7, <1>9, <1>10, <1>13 DEF KindIsKept, StateInv
  <2>3. BegunIsAlone(s)'
    BY <1>7, <1>10, <1>13 DEF BegunIsAlone
  <2>4. drawn[s] # "webauth" => \A q \in Proc : InCallback(q, s)' => q = p
    BY <1>10, <1>14 DEF InCallback
  <2>5. ClaimIsUnique(s)'
    BY <1>2, <1>5, <1>7, <1>9, <1>10, <1>14, <1>15, <2>4 DEF ClaimIsUnique
  <2>6. AnswerIsUnique(s)'
    <3>1. drawn[s] = "provider" => sessions[s] = <<>> /\ old.user = NoUser
      <4>1. drawn[s] = "provider" =>
              claims[s] = 0 /\ (sessions[s] = <<>> \/ claims[s] = 1)
                /\ (old.user # NoUser => claims[s] = 1)
        BY <1>1, <1>2, <1>3, <1>14 DEF StateInv, AnswerIsUnique
      <4> QED BY <4>1
    <3> QED
      BY <1>2, <1>5, <1>9, <3>1 DEF AnswerIsUnique
  <2>7. ExpiryIsKept(s)'
    BY <1>1, <1>2, <1>3, <1>5, <1>7, <1>9, <1>10, <1>15
    DEF StateInv, ExpiryIsKept, InCallback
  <2> QED
    BY <2>1, <2>2, <2>3, <2>5, <2>6, <2>7 DEF StateInv
<1>17. \A k \in State \ {s} :
         /\ drawn'[k] = drawn[k] /\ sessions'[k] = sessions[k]
         /\ \A q \in Proc : op'[q].state = k => op'[q] = op[q]
  BY <1>2, <1>7, <1>10
<1> QED
  BY <1>9, <1>11, <1>12, <1>16, <1>17, OnlyOneState

LEMMA StoreSteps ==
  ASSUME OauthInv, Record, NEW p \in Proc, StoreResult(p)
  PROVE  OauthInv'
<1>1. TypeOK /\ CapacityHolds /\ IdleHasNoState
  BY DEF OauthInv
<1>2. op[p].state \in State /\ op[p].item \in Item
  BY <1>1 DEF StoreResult, TypeOK, Op, IdleHasNoState
<1>3. PICK s \in State, item \in Item : s = op[p].state /\ item = op[p].item
  BY <1>2
<1>4. /\ op[p].pc = "store" /\ op' = [op EXCEPT ![p] = Idle]
      /\ SetItem(s, item) /\ UNCHANGED <<drawn, third, sessions, now>>
  BY <1>3 DEF StoreResult, Stored
<1>5. StateInv(s) /\ InCallback(p, s)
  BY <1>3, <1>4 DEF OauthInv, InCallback
<1>6. /\ items' \in [State -> Item \cup {NoItem}]
      /\ items'[s] \in {item, items[s], NoItem}
      /\ \A k \in State : k # s => items'[k] = items[k] \/ items'[k] = NoItem
  BY <1>1, <1>4, SetItemPointwise
<1>7. op'[p] = Idle /\ \A q \in Proc \ {p} : op'[q] = op[q]
  BY <1>1, <1>4 DEF TypeOK
<1>8. TypeOK' /\ IdleHasNoState'
  <2>1. TypeOK'
    BY <1>1, <1>4, <1>6, IdleInOp DEF TypeOK
  <2> QED
    BY <1>1, <1>7, <2>1, IdleInOp DEF IdleHasNoState
<1>9. CapacityHolds'
  BY <1>1, <1>4, SetItemKeepsCapacity
<1>10. \A q \in Proc : op'[q].state = s => q # p /\ op'[q] = op[q]
  BY <1>7, IdleInOp
<1>11. claims'[s] = claims[s] /\ published'[s] = published[s]
  BY <1>3, <1>4, <1>7, <1>10, IdleInOp DEF Record, Claimed, Published
<1>12. \A q \in Proc : InCallback(q, s)' => InCallback(q, s) /\ q # p
  BY <1>10 DEF InCallback
<1>13. StateInv(s)'
  <2>1. KindIsKept(s)'
    BY <1>3, <1>4, <1>5, <1>6, <1>10 DEF StateInv, KindIsKept
  <2>2. UndrawnIsUnused(s)' /\ BegunIsAlone(s)' /\ BindHasNoSession(s)'
    <3>1. /\ drawn[s] # "none"
          /\ \A q \in Proc : ~(op[q].pc = "begun" /\ op[q].state = s)
      BY <1>3, <1>4, <1>5 DEF StateInv, UndrawnIsUnused, BegunIsAlone
    <3> QED
      BY <1>4, <1>5, <1>10, <3>1
      DEF StateInv, UndrawnIsUnused, BegunIsAlone, BindHasNoSession
  <2>3. drawn[s] # "webauth" =>
          claims[s] = 1 /\ item.claimed /\ \A q \in Proc : ~InCallback(q, s)'
    BY <1>3, <1>5, <1>12 DEF StateInv, ClaimIsUnique
  <2>4. ClaimIsUnique(s)'
    BY <1>4, <1>5, <1>6, <1>11, <2>3 DEF StateInv, ClaimIsUnique
  <2>5. AnswerIsUnique(s)'
    BY <1>4, <1>5, <1>11, <2>3 DEF StateInv, AnswerIsUnique
  <2>6. ExpiryIsKept(s)'
    BY <1>3, <1>5, <1>6, <1>10, <1>11, <1>12 DEF StateInv, ExpiryIsKept, InCallback
  <2> QED
    BY <2>1, <2>2, <2>4, <2>5, <2>6 DEF StateInv
<1>14. \A k \in State \ {s} :
         /\ drawn'[k] = drawn[k] /\ sessions'[k] = sessions[k]
         /\ \A q \in Proc : op'[q].state = k => op'[q] = op[q]
  BY <1>4, <1>7, IdleInOp
<1> QED
  BY <1>6, <1>8, <1>9, <1>13, <1>14, OnlyOneState

LEMMA AnswerSteps ==
  ASSUME OauthInv, Record, NEW p \in Proc, NEW s \in State, NEW u \in User,
         Confirm(p, s, u) \/ BindConfirm(p, s, u)
  PROVE  OauthInv'
<1>1. TypeOK /\ CapacityHolds /\ IdleHasNoState /\ StateInv(s)
  BY DEF OauthInv
<1>2. /\ Kept[s] = items[s] /\ items[s] # NoItem /\ items[s] \in Item
      /\ items[s].action = "login" /\ op[p].pc = "idle" /\ items' = Kept
      /\ UNCHANGED <<drawn, third, sessions, now>>
  BY <1>1, KeptPointwise DEF Confirm, BindConfirm, Unanswered, TypeOK
<1>3. PICK old \in Item : old = items[s]
  BY <1>2
<1>4. PICK new \in Op :
        /\ op' = [op EXCEPT ![p] = new] /\ new.state = s
        /\ new.pc = "bind" \/ (new.pc = "store" /\ old.webauth)
        /\ new.item.action = "login" /\ new.item.expires = old.expires
        /\ KindOf(new.item) = KindOf(old)
  <2>1. CASE Confirm(p, s, u)
    <3>1. PICK clone \in Item : clone = [old EXCEPT !.user = u]
      BY DEF Item
    <3>2. /\ clone.action = "login" /\ clone.expires = old.expires
          /\ KindOf(clone) = KindOf(old)
      BY <1>2, <1>3, <3>1 DEF Item, KindOf
    <3>3. PICK new \in Op : new = [pc |-> "store", state |-> s, user |-> NoUser,
                                   item |-> clone]
      BY DEF Op, OpPC
    <3> QED
      BY <1>2, <1>3, <2>1, <3>1, <3>2, <3>3 DEF Confirm
  <2>2. CASE BindConfirm(p, s, u)
    <3>1. PICK new \in Op : new = [pc |-> "bind", state |-> s, user |-> u,
                                   item |-> old]
      BY DEF Op, OpPC
    <3> QED
      BY <1>2, <1>3, <2>2, <3>1 DEF BindConfirm
  <2> QED BY <2>1, <2>2
<1>5. /\ items' \in [State -> Item \cup {NoItem}] /\ items'[s] = old
      /\ \A k \in State : items'[k] = items[k] \/ items'[k] = NoItem
  BY <1>1, <1>2, <1>3, KeptPointwise
<1>6. op'[p] = new /\ \A q \in Proc \ {p} : op'[q] = op[q]
  BY <1>1, <1>4 DEF TypeOK
<1>7. TypeOK' /\ IdleHasNoState'
  <2>1. TypeOK'
    BY <1>1, <1>2, <1>4, <1>5 DEF TypeOK
  <2> QED
    BY <1>1, <1>4, <1>6, <2>1 DEF IdleHasNoState
<1>8. CapacityHolds'
  <2>1. Size(items') \in Nat /\ Size(items) \in Nat /\ Size(items') <= Size(items)
    BY <1>5, FewerItems
  <2> QED
    BY <1>1, <2>1 DEF CapacityHolds, Size, TypeOK
<1>9. /\ KindOf(old) = drawn[s] /\ drawn[s] # "none"
      /\ \A q \in Proc : ~(op[q].pc = "begun" /\ op[q].state = s)
      /\ drawn[s] # "bind" /\ (old.webauth => drawn[s] = "webauth")
  BY <1>1, <1>2, <1>3
  DEF StateInv, KindIsKept, BegunIsAlone, UndrawnIsUnused, KindOf
<1>10. claims'[s] = claims[s] /\ published'[s] = published[s]
  BY <1>2, <1>4, <1>6, <1>9 DEF Record, Claimed, Published
<1>11. \A q \in Proc : InCallback(q, s)' =>
         \/ InCallback(q, s) /\ op'[q] = op[q]
         \/ q = p /\ drawn[s] = "webauth"
  BY <1>4, <1>6, <1>9 DEF InCallback
<1>12. StateInv(s)'
  <2>1. UndrawnIsUnused(s)' /\ BindHasNoSession(s)'
    BY <1>2, <1>9 DEF UndrawnIsUnused, BindHasNoSession
  <2>2. KindIsKept(s)'
    BY <1>1, <1>2, <1>3, <1>4, <1>5, <1>6, <1>9 DEF KindIsKept, StateInv
  <2>3. BegunIsAlone(s)'
    BY <1>4, <1>6, <1>9 DEF BegunIsAlone
  <2>4. ClaimIsUnique(s)' /\ AnswerIsUnique(s)'
    BY <1>1, <1>2, <1>3, <1>5, <1>10, <1>11
    DEF StateInv, ClaimIsUnique, AnswerIsUnique
  <2>5. ExpiryIsKept(s)'
    BY <1>1, <1>2, <1>3, <1>4, <1>5, <1>6, <1>10
    DEF StateInv, ExpiryIsKept, InCallback
  <2> QED
    BY <2>1, <2>2, <2>3, <2>4, <2>5 DEF StateInv
<1>13. \A k \in State \ {s} :
         /\ drawn'[k] = drawn[k] /\ sessions'[k] = sessions[k]
         /\ \A q \in Proc : op'[q].state = k => op'[q] = op[q]
  BY <1>2, <1>4, <1>6
<1> QED
  BY <1>5, <1>7, <1>8, <1>12, <1>13, OnlyOneState

LEMMA PollSteps ==
  ASSUME OauthInv, Record, NEW s \in State, Poll(s)
  PROVE  /\ OauthInv'
         /\ now < published[s] + Lifetime
<1>1. TypeOK /\ CapacityHolds /\ IdleHasNoState /\ StateInv(s)
  BY DEF OauthInv
<1>2. /\ Kept[s] = items[s] /\ items[s] # NoItem /\ items[s] \in Item
      /\ items[s].action = "login" /\ items[s].user \in User
      /\ items[s].expires > now
      /\ items' = [Kept EXCEPT ![s] = NoItem]
      /\ sessions' = [sessions EXCEPT ![s] = Append(@, items[s].user)]
      /\ UNCHANGED <<drawn, op, third, now>>
  BY <1>1, KeptPointwise DEF Poll, Takes, TypeOK, Item
<1>3. /\ items' \in [State -> Item \cup {NoItem}] /\ items'[s] = NoItem
      /\ \A k \in State : items'[k] = items[k] \/ items'[k] = NoItem
  BY <1>1, <1>2, KeptPointwise
<1>4. now < published[s] + Lifetime
  <2>1. items[s].expires \in Nat /\ now \in Nat /\ published[s] \in Nat
    BY <1>1, <1>2 DEF Item, TypeOK, OauthInv
  <2> QED
    BY <1>1, <1>2, <2>1 DEF StateInv, ExpiryIsKept
<1>5. sessions'[s] = Append(sessions[s], items[s].user)
  BY <1>1, <1>2 DEF TypeOK
<1>6. TypeOK' /\ IdleHasNoState'
  <2>1. sessions' \in [State -> Seq(User)]
    BY <1>1, <1>2 DEF TypeOK
  <2> QED
    BY <1>1, <1>2, <1>3, <2>1 DEF TypeOK, IdleHasNoState
<1>7. CapacityHolds'
  <2>1. Size(items') \in Nat /\ Size(items) \in Nat /\ Size(items') <= Size(items)
    BY <1>3, FewerItems
  <2> QED
    BY <1>1, <2>1 DEF CapacityHolds, Size, TypeOK
<1>8. /\ drawn[s] = KindOf(items[s]) /\ drawn[s] # "none" /\ drawn[s] # "bind"
      /\ \A q \in Proc : ~(op[q].pc = "begun" /\ op[q].state = s)
  BY <1>1, <1>2 DEF StateInv, KindIsKept, BegunIsAlone, UndrawnIsUnused, KindOf
<1>9. claims'[s] = claims[s] /\ published'[s] = published[s]
  BY <1>2, <1>8 DEF Record, Claimed, Published
<1>10. drawn[s] = "provider" =>
         /\ claims[s] = 1 /\ Len(sessions'[s]) = 1
         /\ \A q \in Proc : ~InCallback(q, s)
  <2>1. items[s].user # NoUser
    BY <1>2
  <2>2. drawn[s] = "provider" => /\ sessions[s] = <<>> /\ claims[s] = 1
                                 /\ \A q \in Proc : ~InCallback(q, s)
    BY <1>1, <1>2, <2>1 DEF StateInv, AnswerIsUnique
  <2> QED
    BY <1>1, <1>2, <1>5, <2>2 DEF TypeOK
<1>11. StateInv(s)'
  <2>1. \A q \in Proc : InCallback(q, s)' => InCallback(q, s)
    BY <1>2 DEF InCallback
  <2>2. UndrawnIsUnused(s)' /\ BindHasNoSession(s)' /\ BegunIsAlone(s)'
    BY <1>2, <1>8 DEF UndrawnIsUnused, BindHasNoSession, BegunIsAlone
  <2>3. KindIsKept(s)' /\ ClaimIsUnique(s)'
    BY <1>1, <1>2, <1>3, <1>9, <2>1
    DEF StateInv, KindIsKept, ClaimIsUnique, InCallback
  <2>4. AnswerIsUnique(s)'
    BY <1>2, <1>3, <1>9, <1>10, <2>1 DEF AnswerIsUnique
  <2>5. ExpiryIsKept(s)'
    BY <1>1, <1>2, <1>3, <1>9, <2>1 DEF StateInv, ExpiryIsKept
  <2> QED
    BY <2>2, <2>3, <2>4, <2>5 DEF StateInv
<1>12. \A k \in State \ {s} :
         /\ drawn'[k] = drawn[k] /\ sessions'[k] = sessions[k]
         /\ \A q \in Proc : op'[q].state = k => op'[q] = op[q]
  BY <1>1, <1>2 DEF TypeOK
<1> QED
  BY <1>3, <1>4, <1>6, <1>7, <1>11, <1>12, OnlyOneState

-----------------------------------------------------------------------------
(* The theorems                                                             *)

LEMMA InitOauthInv == HInit => OauthInv
<1> SUFFICES ASSUME HInit
             PROVE  OauthInv
  OBVIOUS
<1>1. TypeOK /\ published \in [State -> Nat] /\ claims \in [State -> Nat]
  BY IdleInOp DEF HInit, Init, TypeOK, Kind
<1>2. CapacityHolds
  <2>1. {s \in State : items[s] # NoItem} = {}
    BY DEF HInit, Init
  <2> QED
    BY <2>1, FS_EmptySet DEF CapacityHolds, Size
<1>3. IdleHasNoState
  BY IdleInOp DEF HInit, Init, IdleHasNoState
<1>4. ASSUME NEW s \in State
      PROVE  StateInv(s)
  <2>1. /\ items[s] = NoItem /\ drawn[s] = "none" /\ claims[s] = 0
        /\ sessions[s] = <<>>
        /\ \A p \in Proc : op[p].pc = "idle" /\ op[p].state # s
    BY IdleInOp DEF HInit, Init
  <2> QED
    BY <2>1 DEF StateInv, UndrawnIsUnused, KindIsKept, BegunIsAlone, InCallback,
                ClaimIsUnique, AnswerIsUnique, BindHasNoSession, ExpiryIsKept
<1> QED
  BY <1>1, <1>2, <1>3, <1>4 DEF OauthInv

LEMMA NextOauthInv == OauthInv /\ [HNext]_hvars => OauthInv'
<1> SUFFICES ASSUME OauthInv, [HNext]_hvars
             PROVE  OauthInv'
  OBVIOUS
<1>1. CASE UNCHANGED hvars
  BY <1>1 DEF hvars, OauthInv, TypeOK, CapacityHolds, Size, IdleHasNoState,
     StateInv, UndrawnIsUnused, KindIsKept, BegunIsAlone, InCallback,
     ClaimIsUnique, AnswerIsUnique, BindHasNoSession, ExpiryIsKept
<1>2. CASE HNext
  <2>1. Record /\ Next
    BY <1>2 DEF HNext
  <2>2. ASSUME NEW p \in Proc, NEW s \in State, NEW w \in BOOLEAN,
               BeginLogin(p, s, w)
        PROVE  OauthInv'
    <3>1. PICK item \in Item :
            item = [Reservation EXCEPT !.action = "login", !.webauth = w]
      BY DEF Reservation, Item
    <3>2. item.action = "login" /\ item.user = NoUser
      BY <3>1 DEF Reservation
    <3> QED
      BY <2>1, <2>2, <3>1, <3>2, BeginSteps DEF BeginLogin
  <2>3. ASSUME NEW p \in Proc, NEW s \in State, NEW u \in User,
               BeginBind(p, s, u)
        PROVE  OauthInv'
    <3>1. PICK item \in Item :
            item = [Reservation EXCEPT !.action = "bind", !.user = u]
      BY DEF Reservation, Item
    <3>2. item.action = "bind"
      BY <3>1 DEF Reservation
    <3> QED
      BY <2>1, <2>3, <3>1, <3>2, BeginSteps DEF BeginBind
  <2> QED
    BY <2>1, <2>2, <2>3, EveryQuietStep, PublishSteps, ClaimSteps, StoreSteps,
       AnswerSteps, PollSteps DEF Next, HandlerStep
<1> QED BY <1>1, <1>2

\* The inductive invariant: a key belongs to one handler until it is given
\* out, its one claimant is the only handler that can answer it, and no
\* answer outlives the lifetime of its state (service/oauth.go).
THEOREM OauthInvariant == HSpec => []OauthInv
  BY InitOauthInv, NextOauthInv, PTL DEF HSpec

\* At most one callback claims a state that a provider answers.
THEOREM ClaimedAtMostOnce == HSpec => []ClaimedOnce
<1>1. OauthInv => ClaimedOnce
  BY DEF OauthInv, StateInv, ClaimIsUnique, ClaimedOnce
<1> QED BY <1>1, OauthInvariant, PTL

\* A state that a provider answers gives at most one session, and the state of
\* an account binding none.
THEOREM SessionAtMostOnce == HSpec => []SessionOnce
<1>1. Len(<<>>) = 0
  OBVIOUS
<1>2. OauthInv => SessionOnce
  <2> SUFFICES ASSUME OauthInv, NEW s \in State
               PROVE  /\ drawn[s] = "provider" => Len(sessions[s]) <= 1
                      /\ drawn[s] = "bind" => sessions[s] = <<>>
    BY DEF SessionOnce
  <2>1. /\ drawn[s] = "provider" => sessions[s] = <<>> \/ Len(sessions[s]) = 1
        /\ drawn[s] = "bind" => sessions[s] = <<>>
    BY DEF OauthInv, StateInv, AnswerIsUnique, BindHasNoSession
  <2>2. sessions[s] = <<>> => Len(sessions[s]) = 0
    BY <1>1, Zenon
  <2>3. \A n : n = 0 \/ n = 1 => n <= 1
    OBVIOUS
  <2> QED BY <2>1, <2>2, <2>3, Zenon
<1> QED BY <1>2, OauthInvariant, PTL

\* The store never holds more states than its capacity.
THEOREM CapacityAlwaysHolds == HSpec => []CapacityHolds
<1>1. OauthInv => CapacityHolds
  BY DEF OauthInv
<1> QED BY <1>1, OauthInvariant, PTL

\* A session is only issued while the state's lifetime lasts.
THEOREM AlwaysCompletedInTime == HSpec => CompletedInTime
<1>1. OauthInv /\ [HNext]_hvars =>
        [\A s \in State : sessions'[s] # sessions[s]
                            => now < published[s] + Lifetime]_hvars
  <2> SUFFICES ASSUME OauthInv, HNext, NEW s \in State, sessions'[s] # sessions[s]
               PROVE  now < published[s] + Lifetime
    OBVIOUS
  <2>1. \/ sessions' = sessions
        \/ \E k \in State : Poll(k)
    <3>1. ASSUME NEW p \in Proc, HandlerStep(p)
          PROVE  sessions' = sessions
      BY <3>1 DEF HandlerStep, BeginLogin, BeginBind, BeginAuth,
         ClaimOauthCallback, Confirm, BindConfirm, CallbackBinds,
         CallbackFindsUser, CallbackAsksToBind, CallbackRegisters, PublishState,
         BeginFails, DeleteOauthCache, StoreResult, BindOauthUser, Fail
    <3>2. ASSUME \/ \E u \in User : Unbind(u)
                 \/ \E k \in State : PollFails(k)
                 \/ Restart \/ Tick
          PROVE  sessions' = sessions
      BY <3>2 DEF Unbind, PollFails, Restart, Tick
    <3> QED
      BY <3>1, <3>2 DEF HNext, Next
  <2>2. PICK k \in State : Poll(k)
    BY <2>1
  <2>3. k = s
    BY <2>2 DEF Poll, OauthInv, TypeOK
  <2> QED
    BY <2>2, <2>3, PollSteps DEF HNext
<1> QED
  BY <1>1, OauthInvariant, PTL DEF HSpec, CompletedInTime
=============================================================================
