--------------------------- MODULE PresenceProofs ---------------------------
(***************************************************************************)
(* Proofs about Presence and its history (PresenceHistory), for every      *)
(* number of rows, leases, handlers and activations, every TTL, window and *)
(* delay; and, after them, about AdminScopes, for every set of accounts,   *)
(* groups, collections, devices, items and requests.                       *)
(***************************************************************************)
EXTENDS PresenceHistory, AdminScopes, SequenceTheorems, TLAPS

USE PresenceAssumption

LEMMA EndAllType ==
  ASSUME TypeOK, NEW r \in Row
  PROVE  /\ EndAll(r) \in [Lease -> LeaseRecord]
         /\ \A l \in Lease :
              /\ EndAll(r)[l].row = lease[l].row
              /\ EndAll(r)[l].epoch = lease[l].epoch
              /\ EndAll(r)[l].act = lease[l].act
              /\ EndAll(r)[l].expires = lease[l].expires
              /\ EndAll(r)[l].state = IF l \in Unended(r) THEN "ended" ELSE lease[l].state
BY DEF TypeOK, EndAll, LeaseRecord

LEMMA ConstantTypes ==
  FreshPeer \in PeerRecord /\ FreeLease \in LeaseRecord /\ Idle \in Request
BY DEF FreshPeer, FreeLease, Idle, PeerRecord, LeaseRecord, Request

\* A handler that answers leaves the other requests as they were.
LEMMA DoneSane ==
  ASSUME TypeOK, RequestsSane, NEW h \in Handler, Done(h), clock' = clock
  PROVE  req' \in [Handler -> Request] /\ RequestsSane'
<1>1. req' \in [Handler -> Request]
  BY ConstantTypes DEF TypeOK, Done
<1>2. \A g \in Handler : req'[g] = IF g = h THEN Idle ELSE req[g]
  BY DEF TypeOK, Done
<1>3. Idle.now = 0 /\ Idle.kind = "idle"
  BY DEF Idle
<1>4. RequestsSane'
  BY <1>2, <1>3 DEF RequestsSane, TypeOK, LeaseKinds, ActivationKinds
<1> QED
  BY <1>1, <1>4

\* Every open lease of row r in L belongs to activation e, a.
OfActivation(L, r, e, a) ==
  \A l \in Lease : L[l].state = "open" /\ L[l].row = r
                   => L[l].epoch = e /\ L[l].act = a

\* u is what an observer at time c expects of presence_online_until.
Aggregate(L, r, u, c) ==
  /\ \A l \in Lease : L[l].state = "open" /\ L[l].row = r
                      => L[l].expires <= u \/ L[l].expires <= c
  /\ \/ u <= c
     \/ \E l \in Lease : /\ L[l].state = "open" /\ L[l].row = r
                         /\ L[l].expires = u

\* The aggregate computed with an old time is right now, provided every open
\* lease of the row belongs to the activation it is computed for.
LEMMA AggregateCorrect ==
  ASSUME NEW L \in [Lease -> LeaseRecord], NEW r \in Row, NEW e, NEW a,
         NEW now \in Nat, NEW c \in Nat, now <= c, NEW u,
         ActivePresenceUntil(L, r, e, a, now, u),
         OfActivation(L, r, e, a)
  PROVE  u \in Nat /\ Aggregate(L, r, u, c)
<1> USE DEF OfActivation
<1>1. \A l \in Lease : L[l].expires \in Nat
  BY DEF LeaseRecord
<1> DEFINE cand == {m \in Lease : /\ L[m].state = "open" /\ L[m].row = r
                                  /\ L[m].epoch = e /\ L[m].act = a /\ L[m].expires > now}
           ends == {L[l].expires : l \in cand}
<1>2. \/ ends = {} /\ u = 0
      \/ u \in ends /\ \A x \in ends : x <= u
  BY DEF ActivePresenceUntil
<1>3. \A l \in Lease : L[l].state = "open" /\ L[l].row = r /\ L[l].expires > now
                        => L[l].expires \in ends
  OBVIOUS
<1>4. \A x \in ends : \E l \in Lease : /\ L[l].state = "open" /\ L[l].row = r
                                       /\ L[l].expires = x
  OBVIOUS
<1> HIDE DEF ends
<1>5. u \in Nat
  BY <1>1, <1>2, <1>4
<1>6. \A l \in Lease : L[l].state = "open" /\ L[l].row = r
                        => L[l].expires <= u \/ L[l].expires <= c
  BY <1>1, <1>2, <1>3
<1>7. u <= c \/ \E l \in Lease : /\ L[l].state = "open" /\ L[l].row = r
                                 /\ L[l].expires = u
  BY <1>2, <1>4
<1> QED
  BY <1>5, <1>6, <1>7 DEF Aggregate

\* What the transactions on the presence of one row have in common.
LEMMA RowStep ==
  ASSUME PresenceInv, NEW r \in Row, Present(r),
         NEW h \in Handler, Done(h),
         clock' = clock, deleting' = deleting, doomed' = doomed,
         peer' \in [Row -> PeerRecord], lease' \in [Lease -> LeaseRecord],
         peer'[r].state = "present",
         peer'[r].act = NoActivation => peer'[r].epoch = 0 /\ ~peer'[r].retired,
         \A s \in Row \ {r} : peer'[s] = peer[s],
         \A l \in Lease : /\ lease[l].state # "free" =>
                               /\ lease'[l].state # "free"
                               /\ lease'[l].row = lease[l].row
                               /\ lease'[l].act = lease[l].act
                          /\ \/ lease'[l] = lease[l]
                             \/ lease'[l].row = r /\ lease'[l].state # "free"
                                /\ lease'[l].act \in ActivationID,
         \A l \in Lease : lease'[l].state = "open" /\ lease'[l].row = r =>
            /\ lease'[l].epoch = peer'[r].epoch
            /\ lease'[l].act = peer'[r].act
            /\ ~peer'[r].retired,
         Aggregate(lease', r, peer'[r].until, clock)
  PROVE  PresenceInv'
<1>0. /\ TypeOK /\ RequestsSane /\ RowsSane /\ LeasesSane
      /\ LiveLeaseIsCurrent /\ UntilCovers /\ UntilIsGranted
  BY DEF PresenceInv
<1>1. req' \in [Handler -> Request] /\ RequestsSane'
  BY <1>0, DoneSane
<1>2. TypeOK'
  BY <1>0, <1>1 DEF TypeOK
<1>3. RowsSane'
  <2>1. deleting \in Row \cup {NoRow}
    BY <1>0 DEF TypeOK
  <2>2. \A s \in Row : Present(s) => peer'[s].state = "present"
    BY DEF Present
  <2>3. deleting' # NoRow => Present(deleting)'
    BY <1>0, <2>1, <2>2 DEF RowsSane, Present
  <2> QED
    BY <1>0, <2>3 DEF RowsSane
<1>4. \A l \in Lease : lease[l].row \in Row \cup {NoRow}
  BY <1>0 DEF TypeOK, LeaseRecord
<1>5. LeasesSane'
  <2>1. \A l \in Lease : lease'[l].state = "free" <=> lease'[l].row = NoRow
    BY <1>0, <1>4 DEF LeasesSane
  <2>2. ASSUME NEW l \in Lease, lease'[l].state # "free"
        PROVE  peer'[lease'[l].row].state # "new" /\ lease'[l].act \in ActivationID
    <3>1. CASE lease'[l].row = r
      BY <1>0, <2>2, <3>1 DEF LeasesSane
    <3>2. CASE lease'[l].row # r
      BY <1>0, <1>4, <2>2, <3>2 DEF LeasesSane
    <3> QED
      BY <3>1, <3>2
  <2>3. \A l \in doomed' : lease'[l].row = deleting' /\ deleting' \in Row
    BY <1>0 DEF LeasesSane, TypeOK
  <2> QED
    BY <2>1, <2>2, <2>3 DEF LeasesSane
<1>6. \A s \in Row \ {r} : /\ Present(s)' <=> Present(s)
                           /\ Unended(s)' = Unended(s)
                           /\ \A l \in Unended(s) : lease'[l] = lease[l]
  BY <1>0 DEF Present, Unended, LeasesSane
<1>7. LiveLeaseIsCurrent'
  BY <1>0, <1>6 DEF LiveLeaseIsCurrent, Unended
<1>8. UntilCovers'
  BY <1>0, <1>6 DEF UntilCovers, Unended, Aggregate
<1>9. UntilIsGranted'
  <2> SUFFICES ASSUME NEW s \in Row, Present(s)'
               PROVE  \/ peer'[s].until <= clock'
                      \/ \E l \in Unended(s)' : lease'[l].expires = peer'[s].until
    BY DEF UntilIsGranted
  <2>1. CASE s = r
    BY <2>1 DEF Unended, Aggregate
  <2>2. CASE s # r
    BY <1>0, <1>6, <2>2 DEF UntilIsGranted
  <2> QED
    BY <2>1, <2>2
<1> QED
  BY <1>1, <1>2, <1>3, <1>5, <1>7, <1>8, <1>9 DEF PresenceInv

LEMMA InitInv == Init => PresenceInv
<1> SUFFICES ASSUME Init PROVE PresenceInv
  OBVIOUS
<1>2. TypeOK
  BY ConstantTypes DEF Init, TypeOK
<1>3. RequestsSane
  BY DEF Init, RequestsSane, Idle, LeaseKinds, ActivationKinds
<1>4. RowsSane
  BY DEF Init, RowsSane, FreshPeer
<1>5. LeasesSane
  BY DEF Init, LeasesSane, FreeLease
<1>6. LiveLeaseIsCurrent /\ UntilCovers /\ UntilIsGranted
  BY DEF Init, LiveLeaseIsCurrent, UntilCovers, UntilIsGranted, Present, FreshPeer
<1> QED
  BY <1>2, <1>3, <1>4, <1>5, <1>6 DEF PresenceInv

LEMMA StartInv ==
  ASSUME PresenceInv, NEW h \in Handler, NEW l \in Lease, StartPresenceLease(h, l)
  PROVE  PresenceInv'
<1> DEFINE q == req[h]
           p == peer[q.row]
<1>0. /\ TypeOK /\ RequestsSane /\ RowsSane /\ LeasesSane
      /\ LiveLeaseIsCurrent /\ UntilCovers /\ UntilIsGranted
  BY DEF PresenceInv
<1>1. /\ q \in Request /\ q.row \in Row /\ q.kind = "start" /\ q.now \in Nat
      /\ q.epoch \in Nat /\ q.epoch > 0 /\ q.act \in ActivationID /\ q.now <= clock
  BY <1>0 DEF StartPresenceLease, TypeOK, Request, RequestsSane, ActivationKinds
<1>2. p \in PeerRecord /\ Present(q.row)
  BY <1>0, <1>1 DEF TypeOK, StartPresenceLease, MayStart
<1>3. PICK u \in {0} \cup {lease'[m].expires : m \in Lease} :
        /\ ActivePresenceUntil(lease', q.row, q.epoch, q.act, q.now, u)
        /\ peer' = [peer EXCEPT ![q.row] =
                      PresenceUpdate(p, q, q.epoch, q.act, FALSE, u, TRUE, TRUE)]
  BY DEF StartPresenceLease
<1> DEFINE rows == IF q.epoch > p.epoch THEN EndAll(q.row) ELSE lease
           new == [state |-> "open", row |-> q.row, epoch |-> q.epoch,
                   act |-> q.act, expires |-> q.now + TTL]
<1>4. lease' = [rows EXCEPT ![l] = new] /\ lease[l].state = "free"
  BY DEF StartPresenceLease
<1>5. new \in LeaseRecord
  BY <1>1 DEF LeaseRecord
<1>6. rows \in [Lease -> LeaseRecord]
  BY <1>0, EndAllType, <1>1 DEF TypeOK
<1>7. lease' \in [Lease -> LeaseRecord]
  BY <1>4, <1>5, <1>6
<1>8. u \in Nat
  BY <1>7 DEF LeaseRecord
<1> DEFINE pn == PresenceUpdate(p, q, q.epoch, q.act, FALSE, u, TRUE, TRUE)
<1> HIDE DEF q, p
<1>9. /\ pn \in PeerRecord /\ pn.state = p.state /\ pn.epoch = q.epoch
      /\ pn.act = q.act /\ pn.retired = FALSE /\ pn.until = u
  BY <1>1, <1>2, <1>8 DEF pn, PresenceUpdate, PeerRecord, Request
<1> HIDE DEF pn
<1>9a. peer' \in [Row -> PeerRecord] /\ peer'[q.row] = pn
       /\ \A r \in Row \ {q.row} : peer'[r] = peer[r]
  BY <1>0, <1>1, <1>3, <1>9 DEF TypeOK, pn
<1>10. /\ Done(h) /\ clock' = clock
       /\ deleting' = deleting /\ doomed' = doomed
  BY DEF StartPresenceLease
<1>11. \A m \in Lease \ {l} :
         /\ lease'[m].row = lease[m].row /\ lease'[m].epoch = lease[m].epoch
         /\ lease'[m].act = lease[m].act /\ lease'[m].expires = lease[m].expires
         /\ \/ lease'[m] = lease[m] /\ (q.epoch > p.epoch => m \notin Unended(q.row))
            \/ m \in Unended(q.row) /\ lease'[m].state = "ended"
  <2> SUFFICES ASSUME NEW m \in Lease \ {l}
               PROVE  /\ lease'[m].row = lease[m].row /\ lease'[m].epoch = lease[m].epoch
                      /\ lease'[m].act = lease[m].act /\ lease'[m].expires = lease[m].expires
                      /\ \/ lease'[m] = lease[m] /\ (q.epoch > p.epoch => m \notin Unended(q.row))
                         \/ m \in Unended(q.row) /\ lease'[m].state = "ended"
    OBVIOUS
  <2>1. lease'[m] = rows[m]
    BY <1>4, <1>6
  <2>2. CASE ~(q.epoch > p.epoch)
    BY <2>1, <2>2
  <2>3. CASE q.epoch > p.epoch
    BY <1>0, <1>1, <2>1, <2>3 DEF EndAll, TypeOK, LeaseRecord
  <2> QED
    BY <2>2, <2>3
<1>12. lease'[l] = new
  BY <1>4, <1>6
<1>13. OfActivation(lease', q.row, q.epoch, q.act)
  <2> SUFFICES ASSUME NEW m \in Lease \ {l}, lease'[m].state = "open", lease'[m].row = q.row
               PROVE  lease'[m].epoch = q.epoch /\ lease'[m].act = q.act
    BY <1>12 DEF OfActivation
  <2>1. m \in Unended(q.row) /\ ~(q.epoch > p.epoch) /\ lease'[m] = lease[m]
    BY <1>11 DEF Unended
  <2>2. /\ lease[m].epoch = p.epoch /\ lease[m].act = p.act /\ p.act # NoActivation
    BY <1>0, <1>1, <1>2, <2>1 DEF LiveLeaseIsCurrent, LeasesSane, Unended, p
  <2>3. ~Superseded(p, q)
    BY DEF StartPresenceLease, MayStart, p, q
  <2> QED
    BY <1>1, <1>2, <2>1, <2>2, <2>3 DEF Superseded, PeerRecord
<1>14. Aggregate(lease', q.row, u, clock)
  <2>1. clock \in Nat
    BY <1>0 DEF TypeOK
  <2>2. ActivePresenceUntil(lease', q.row, q.epoch, q.act, q.now, u)
    BY <1>3
  <2> QED
    BY <1>1, <1>7, <1>13, <2>1, <2>2, AggregateCorrect
<1>15. /\ peer'[q.row].state = "present" /\ peer'[q.row].act # NoActivation
  BY <1>1, <1>2, <1>9, <1>9a DEF Present, p
<1>16. \A m \in Lease :
         /\ lease[m].state # "free" => /\ lease'[m].state # "free"
                                       /\ lease'[m].row = lease[m].row
                                       /\ lease'[m].act = lease[m].act
         /\ \/ lease'[m] = lease[m]
            \/ lease'[m].row = q.row /\ lease'[m].state # "free"
               /\ lease'[m].act \in ActivationID
  BY <1>0, <1>1, <1>4, <1>11, <1>12 DEF LeasesSane, Unended
<1> QED
  BY <1>1, <1>2, <1>7, <1>9, <1>9a, <1>10, <1>13, <1>14, <1>15, <1>16, RowStep
     DEF OfActivation

\* A transaction that changes one granted lease l of the row and neither the
\* activation nor whether it is retired: renew and end.
LEMMA LeaseStep ==
  ASSUME PresenceInv, NEW h \in Handler, NEW k \in Lease, NEW new \in LeaseRecord,
         NEW mark \in BOOLEAN, NEW touch \in BOOLEAN, NEW u,
         req[h].kind \in LeaseKinds,
         Present(req[h].row),
         Matches(k, req[h]),
         lease' = [lease EXCEPT ![k] = new],
         new.row = lease[k].row, new.epoch = lease[k].epoch, new.act = lease[k].act,
         (new.state = "open" /\ lease[k].state = "open") \/ new.state = "ended",
         ActivePresenceUntil(lease', req[h].row, peer[req[h].row].epoch,
                             peer[req[h].row].act, req[h].now, u),
         peer' = [peer EXCEPT ![req[h].row] =
                    PresenceUpdate(peer[req[h].row], req[h], peer[req[h].row].epoch,
                                   peer[req[h].row].act, peer[req[h].row].retired,
                                   u, mark, touch)],
         Done(h), clock' = clock, deleting' = deleting, doomed' = doomed
  PROVE  PresenceInv'
<1> DEFINE q == req[h]
           r == q.row
           p == peer[r]
<1>0. /\ TypeOK /\ RequestsSane /\ RowsSane /\ LeasesSane
      /\ LiveLeaseIsCurrent /\ UntilCovers /\ UntilIsGranted
  BY DEF PresenceInv
<1>1. q \in Request /\ r \in Row /\ q.now \in Nat /\ q.now <= clock /\ clock \in Nat
  BY <1>0 DEF TypeOK, Request, RequestsSane, LeaseKinds
<1>2. /\ p \in PeerRecord /\ p.epoch \in Nat /\ p.retired \in BOOLEAN
      /\ p.act \in ActivationID \cup {NoActivation} /\ p.state = "present"
  BY <1>0, <1>1 DEF TypeOK, PeerRecord, Present
<1>3. /\ lease' \in [Lease -> LeaseRecord] /\ lease'[k] = new
      /\ \A l \in Lease \ {k} : lease'[l] = lease[l]
  BY <1>0 DEF TypeOK
<1>4. /\ lease[k].row = r /\ lease[k].state # "free" /\ lease[k].act \in ActivationID
  BY <1>0, <1>1 DEF Matches, LeasesSane
<1>5. OfActivation(lease', r, p.epoch, p.act)
  BY <1>0, <1>1, <1>3, <1>4 DEF OfActivation, LiveLeaseIsCurrent, Unended
<1>6. u \in Nat /\ Aggregate(lease', r, u, clock)
  BY <1>1, <1>3, <1>5, AggregateCorrect
<1> DEFINE pn == PresenceUpdate(p, q, p.epoch, p.act, p.retired, u, mark, touch)
<1>7. /\ pn \in PeerRecord /\ pn.state = p.state /\ pn.epoch = p.epoch
      /\ pn.act = p.act /\ pn.retired = p.retired /\ pn.until = u
  <2> HIDE DEF q, p
  <2> QED
    BY <1>1, <1>2, <1>6 DEF PresenceUpdate, PeerRecord, Request
<1> HIDE DEF pn
<1>8. /\ peer' \in [Row -> PeerRecord] /\ peer'[r] = pn
      /\ \A s \in Row \ {r} : peer'[s] = peer[s]
  BY <1>0, <1>1, <1>7 DEF TypeOK, pn
<1>9. peer'[r].act = NoActivation => peer'[r].epoch = 0 /\ ~peer'[r].retired
  <2>1. p.act = NoActivation => p.epoch = 0 /\ p.retired = FALSE
    BY <1>0, <1>1, <1>2 DEF RowsSane
  <2> HIDE DEF p
  <2> QED
    BY <1>2, <1>7, <1>8, <2>1
<1>10. \A l \in Lease : lease'[l].state = "open" /\ lease'[l].row = r =>
         /\ lease'[l].epoch = peer'[r].epoch
         /\ lease'[l].act = peer'[r].act
         /\ ~peer'[r].retired
  BY <1>0, <1>1, <1>2, <1>3, <1>4, <1>7, <1>8 DEF LiveLeaseIsCurrent, Unended, Present
<1>11. \A l \in Lease :
         /\ lease[l].state # "free" => /\ lease'[l].state # "free"
                                       /\ lease'[l].row = lease[l].row
                                       /\ lease'[l].act = lease[l].act
         /\ \/ lease'[l] = lease[l]
            \/ lease'[l].row = r /\ lease'[l].state # "free"
               /\ lease'[l].act \in ActivationID
  BY <1>3, <1>4
<1>12. Present(r) /\ peer'[r].state = "present" /\ Aggregate(lease', r, peer'[r].until, clock)
  BY <1>2, <1>6, <1>7, <1>8
<1> HIDE DEF r, p
<1> QED
  BY <1>1, <1>3, <1>8, <1>7, <1>9, <1>10, <1>11, <1>12, RowStep

LEMMA RenewInv ==
  ASSUME PresenceInv, NEW h \in Handler, RenewPresenceLease(h)
  PROVE  PresenceInv'
<1> DEFINE q == req[h]
           p == peer[q.row]
           k == q.lease
           new == [lease[k] EXCEPT !.expires = q.now + TTL]
<1>1. /\ MayRenew(q) /\ q.kind \in LeaseKinds /\ Matches(k, q) /\ Present(q.row)
      /\ lease[k].state = "open" /\ k \in Lease
  BY DEF RenewPresenceLease, MayRenew, Matches, LeaseKinds
<1>2. q.now \in Nat /\ lease[k] \in LeaseRecord
  BY <1>1 DEF PresenceInv, TypeOK, Request
<1>3. /\ new \in LeaseRecord /\ new.row = lease[k].row /\ new.epoch = lease[k].epoch
      /\ new.act = lease[k].act /\ new.state = "open"
  BY <1>1, <1>2 DEF LeaseRecord
<1>4. lease' = [lease EXCEPT ![k] = new]
  BY <1>1 DEF RenewPresenceLease, RenewedExpiry, PresenceInv, TypeOK
<1>5. PICK u \in {0} \cup {lease'[m].expires : m \in Lease} :
        /\ ActivePresenceUntil(lease', q.row, p.epoch, p.act, q.now, u)
        /\ peer' = [peer EXCEPT ![q.row] =
                      PresenceUpdate(p, q, p.epoch, p.act, p.retired, u, TRUE, TRUE)]
  BY DEF RenewPresenceLease
<1>6. Done(h) /\ clock' = clock /\ deleting' = deleting /\ doomed' = doomed
  BY DEF RenewPresenceLease
<1> HIDE DEF new
<1> QED
  BY <1>1, <1>3, <1>4, <1>5, <1>6, LeaseStep

LEMMA EndInv ==
  ASSUME PresenceInv, NEW h \in Handler, EndPresenceLease(h)
  PROVE  PresenceInv'
<1> DEFINE q == req[h]
           p == peer[q.row]
           k == q.lease
           new == [lease[k] EXCEPT !.state = "ended"]
<1>1. q.kind \in LeaseKinds /\ Matches(k, q) /\ Present(q.row) /\ k \in Lease
  BY DEF EndPresenceLease, MayEnd, Matches, LeaseKinds
<1>2. lease[k] \in LeaseRecord
  BY <1>1 DEF PresenceInv, TypeOK
<1>3. /\ new \in LeaseRecord /\ new.row = lease[k].row /\ new.epoch = lease[k].epoch
      /\ new.act = lease[k].act /\ new.state = "ended"
  BY <1>2 DEF LeaseRecord
<1>4. lease' = [lease EXCEPT ![k] = new]
  BY <1>1 DEF EndPresenceLease, EndOne, PresenceInv, TypeOK
<1>5. PICK u \in {0} \cup {lease'[m].expires : m \in Lease} :
        /\ ActivePresenceUntil(lease', q.row, p.epoch, p.act, q.now, u)
        /\ peer' = [peer EXCEPT ![q.row] =
                      PresenceUpdate(p, q, p.epoch, p.act, p.retired, u,
                                     IsCurrent(p, q), FALSE)]
  BY DEF EndPresenceLease
<1>6. Done(h) /\ clock' = clock /\ deleting' = deleting /\ doomed' = doomed
  BY DEF EndPresenceLease
<1>7. IsCurrent(p, q) \in BOOLEAN
  BY DEF IsCurrent
<1> HIDE DEF new
<1> QED
  BY <1>1, <1>3, <1>4, <1>5, <1>6, <1>7, LeaseStep

LEMMA DeactivateInv ==
  ASSUME PresenceInv, NEW h \in Handler, DeactivatePresenceActivation(h)
  PROVE  PresenceInv'
<1> DEFINE q == req[h]
           r == q.row
           p == peer[r]
<1>0. TypeOK /\ RequestsSane /\ LeasesSane
  BY DEF PresenceInv
<1>1. /\ q \in Request /\ r \in Row /\ q.now \in Nat /\ q.epoch \in Nat
      /\ q.act \in ActivationID /\ Present(r) /\ p \in PeerRecord
      /\ Done(h) /\ clock' = clock /\ deleting' = deleting /\ doomed' = doomed
  BY <1>0 DEF DeactivatePresenceActivation, MayDeactivate, TypeOK, Request, RequestsSane,
              ActivationKinds
<1>2. /\ lease' \in [Lease -> LeaseRecord]
      /\ \A l \in Lease :
           /\ lease'[l].row = lease[l].row /\ lease'[l].act = lease[l].act
           /\ l \in Unended(r) => lease'[l].state = "ended"
           /\ l \notin Unended(r) => lease'[l] = lease[l]
  BY <1>0, <1>1 DEF DeactivatePresenceActivation, EndAll, TypeOK, LeaseRecord
<1> DEFINE pn == PresenceUpdate(p, q, q.epoch, q.act, TRUE, 0, TRUE, FALSE)
<1> HIDE DEF q, p
<1>3. /\ pn \in PeerRecord /\ pn.state = p.state /\ pn.act = q.act /\ pn.until = 0
  BY <1>1 DEF PresenceUpdate, PeerRecord, Request
<1> HIDE DEF pn
<1>4. peer' = [peer EXCEPT ![r] = pn]
  BY DEF DeactivatePresenceActivation, pn, p, q
<1>5. /\ peer' \in [Row -> PeerRecord] /\ peer'[r] = pn
      /\ \A s \in Row \ {r} : peer'[s] = peer[s]
  BY <1>0, <1>1, <1>3, <1>4 DEF TypeOK
<1>6. \A l \in Lease : lease'[l].row = r => lease'[l].state # "open"
  BY <1>2 DEF Unended
<1>7. Aggregate(lease', r, peer'[r].until, clock)
  BY <1>0, <1>3, <1>5, <1>6 DEF Aggregate, TypeOK
<1>8. peer'[r].state = "present" /\ peer'[r].act # NoActivation
  BY <1>1, <1>3, <1>5 DEF Present, p
<1>9. \A l \in Lease :
         /\ lease[l].state # "free" => /\ lease'[l].state # "free"
                                       /\ lease'[l].row = lease[l].row
                                       /\ lease'[l].act = lease[l].act
         /\ \/ lease'[l] = lease[l]
            \/ lease'[l].row = r /\ lease'[l].state # "free"
               /\ lease'[l].act \in ActivationID
  BY <1>0, <1>2 DEF Unended, LeasesSane
<1> HIDE DEF r
<1> QED
  BY <1>1, <1>2, <1>5, <1>6, <1>7, <1>8, <1>9, RowStep

LEMMA LegacyInv ==
  ASSUME PresenceInv, NEW h \in Handler, LegacyReport(h)
  PROVE  PresenceInv'
<1> DEFINE q == req[h]
           r == q.row
           p == peer[r]
           pn == [p EXCEPT !.last = q.now]
<1>0. /\ TypeOK /\ RequestsSane /\ RowsSane /\ LeasesSane
      /\ LiveLeaseIsCurrent /\ UntilCovers /\ UntilIsGranted
  BY DEF PresenceInv
<1>1. /\ r \in Row /\ q.now \in Nat /\ Present(r) /\ p \in PeerRecord
      /\ Done(h) /\ clock' = clock /\ lease' = lease
      /\ deleting' = deleting /\ doomed' = doomed
  BY <1>0 DEF LegacyReport, LegacyKinds, TypeOK, Request, RequestsSane
<1>2. /\ pn \in PeerRecord /\ pn.state = p.state /\ pn.act = p.act /\ pn.until = p.until
      /\ pn.epoch = p.epoch /\ pn.retired = p.retired /\ p.retired \in BOOLEAN
  BY <1>1 DEF PeerRecord
<1>3. peer' = [peer EXCEPT ![r] = pn]
  BY <1>0, <1>1 DEF LegacyReport, TypeOK
<1> HIDE DEF pn
<1>4. /\ peer' \in [Row -> PeerRecord] /\ peer'[r] = pn
      /\ \A s \in Row \ {r} : peer'[s] = peer[s]
  BY <1>0, <1>1, <1>2, <1>3 DEF TypeOK
<1>5. Aggregate(lease', r, peer'[r].until, clock)
  BY <1>0, <1>1, <1>2, <1>4 DEF Aggregate, UntilCovers, UntilIsGranted, Unended
<1>6. peer'[r].act = NoActivation => peer'[r].epoch = 0 /\ ~peer'[r].retired
  <2>1. p.act = NoActivation => p.epoch = 0 /\ p.retired = FALSE
    BY <1>0, <1>1, <1>2 DEF RowsSane
  <2> HIDE DEF p
  <2> QED
    BY <1>2, <1>4, <2>1
<1>7. \A l \in Lease : lease'[l].state = "open" /\ lease'[l].row = r =>
         /\ lease'[l].epoch = peer'[r].epoch
         /\ lease'[l].act = peer'[r].act
         /\ ~peer'[r].retired
  BY <1>0, <1>1, <1>2, <1>4 DEF LiveLeaseIsCurrent, Unended
<1>8. lease' \in [Lease -> LeaseRecord] /\ peer'[r].state = "present"
  BY <1>0, <1>1, <1>2, <1>4 DEF TypeOK, Present
<1> HIDE DEF q, r, p
<1> QED
  BY <1>1, <1>4, <1>5, <1>6, <1>7, <1>8, RowStep

\* Steps that leave peers, leases and the delete transaction alone.
LEMMA RejectInv ==
  ASSUME PresenceInv, NEW h \in Handler, Reject(h)
  PROVE  PresenceInv'
<1>1. req' \in [Handler -> Request] /\ RequestsSane'
  BY DoneSane DEF PresenceInv, Reject
<1> QED
  BY <1>1 DEF PresenceInv, Reject, TypeOK, RowsSane, LeasesSane, LiveLeaseIsCurrent,
              UntilCovers, UntilIsGranted, Present, Unended

LEMMA ArriveInv ==
  ASSUME PresenceInv, NEW h \in Handler, NEW q \in Request, Arrive(h, q),
         q.now <= clock,
         q.kind # "idle" => q.row \in Row,
         q.kind \in LeaseKinds => q.lease \in Lease,
         q.kind \in ActivationKinds => q.epoch > 0 /\ q.act \in ActivationID
  PROVE  PresenceInv'
<1>1. req' \in [Handler -> Request]
  BY DEF PresenceInv, TypeOK, Arrive
<1>2. RequestsSane'
  BY DEF PresenceInv, TypeOK, Arrive, RequestsSane
<1> QED
  BY <1>1, <1>2 DEF PresenceInv, Arrive, TypeOK, RowsSane, LeasesSane, LiveLeaseIsCurrent,
              UntilCovers, UntilIsGranted, Present, Unended

LEMMA ClientInv ==
  ASSUME PresenceInv, NEW h \in Handler, ClientStep(h)
  PROVE  PresenceInv'
<1>0. /\ clock \in Nat
      /\ \A l \in Lease : lease[l] \in LeaseRecord
      /\ \A r \in Row : peer[r] \in PeerRecord
  BY DEF PresenceInv, TypeOK
<1>1. ASSUME NEW r \in Row, NEW k \in ActivationKinds, NEW e \in Epoch,
             NEW a \in ActivationID, ArriveActivation(h, r, k, e, a)
      PROVE  PresenceInv'
  <2> DEFINE q == [kind |-> k, row |-> r, epoch |-> e, act |-> a,
                   lease |-> NoLease, now |-> clock]
  <2>1. e \in Nat /\ e > 0
    BY DEF Epoch
  <2>2. /\ q \in Request /\ q.now = clock /\ q.row = r /\ q.kind = k
        /\ q.epoch = e /\ q.act = a
    BY <1>0, <2>1 DEF Request
  <2>3. k \notin LeaseKinds
    BY DEF ActivationKinds, LeaseKinds
  <2>4. Arrive(h, q)
    BY <1>1 DEF ArriveActivation
  <2> HIDE DEF q
  <2> QED
    BY <1>0, <2>1, <2>2, <2>3, <2>4, ArriveInv
<1>2. ASSUME NEW r \in Row, NEW k \in LeaseKinds, NEW l \in Lease, ArriveLease(h, r, k, l)
      PROVE  PresenceInv'
  <2>1. PICK g \in {lease[l], peer[r]} :
           Arrive(h, [kind |-> k, row |-> r, epoch |-> g.epoch, act |-> g.act,
                      lease |-> l, now |-> clock])
    BY <1>2 DEF ArriveLease
  <2> DEFINE q == [kind |-> k, row |-> r, epoch |-> g.epoch, act |-> g.act,
                   lease |-> l, now |-> clock]
  <2>2. g.epoch \in Nat /\ g.act \in ActivationID \cup {NoActivation}
    BY <1>0, <2>1 DEF LeaseRecord, PeerRecord
  <2>3. q \in Request /\ q.now = clock /\ q.row = r /\ q.kind = k /\ q.lease = l
    BY <1>0, <2>2 DEF Request
  <2>4. k \notin ActivationKinds
    BY DEF ActivationKinds, LeaseKinds
  <2> HIDE DEF q
  <2> QED
    BY <1>0, <2>1, <2>3, <2>4, ArriveInv DEF q
<1>3. ASSUME NEW r \in Row, NEW k \in LegacyKinds, ArriveLegacy(h, r, k)
      PROVE  PresenceInv'
  <2> DEFINE q == [Idle EXCEPT !.kind = k, !.row = r, !.now = clock]
  <2>1. q \in Request /\ q.now = clock /\ q.row = r /\ q.kind = k
    BY <1>0 DEF Request, Idle
  <2>2. k \notin ActivationKinds /\ k \notin LeaseKinds
    BY DEF ActivationKinds, LeaseKinds, LegacyKinds
  <2>3. Arrive(h, q)
    BY <1>3 DEF ArriveLegacy
  <2> HIDE DEF q
  <2> QED
    BY <1>0, <2>1, <2>2, <2>3, ArriveInv
<1> QED
  BY <1>1, <1>2, <1>3 DEF ClientStep

LEMMA CreateInv ==
  ASSUME PresenceInv, NEW r \in Row, CreatePeer(r)
  PROVE  PresenceInv'
<1>0. /\ TypeOK /\ RequestsSane /\ RowsSane /\ LeasesSane
      /\ LiveLeaseIsCurrent /\ UntilCovers /\ UntilIsGranted
  BY DEF PresenceInv
<1> DEFINE pn == [FreshPeer EXCEPT !.state = "present"]
<1>1. /\ pn \in PeerRecord /\ pn.state = "present" /\ pn.epoch = 0
      /\ pn.retired = FALSE /\ pn.until = 0
  BY ConstantTypes DEF PeerRecord, FreshPeer
<1>2. /\ peer' = [peer EXCEPT ![r] = pn]
      /\ clock' = clock /\ lease' = lease /\ req' = req
      /\ deleting' = deleting /\ doomed' = doomed
  BY <1>0 DEF CreatePeer, RowsSane, TypeOK
<1> HIDE DEF pn
<1>3. /\ peer' \in [Row -> PeerRecord] /\ peer'[r] = pn
      /\ \A s \in Row \ {r} : peer'[s] = peer[s]
  BY <1>0, <1>1, <1>2 DEF TypeOK
<1>4. Unended(r) = {} /\ \A s \in Row : Unended(s)' = Unended(s)
  BY <1>0, <1>2 DEF Unended, LeasesSane, CreatePeer
<1>5. TypeOK' /\ RequestsSane' /\ LeasesSane'
  BY <1>0, <1>1, <1>2, <1>3 DEF TypeOK, RequestsSane, LeasesSane
<1>6. RowsSane'
  <2>1. deleting' # NoRow => Present(deleting)'
    BY <1>0, <1>1, <1>2, <1>3 DEF RowsSane, Present, TypeOK
  <2> QED
    BY <1>0, <1>1, <1>3, <2>1 DEF RowsSane
<1>7. LiveLeaseIsCurrent' /\ UntilCovers'
  BY <1>0, <1>2, <1>3, <1>4 DEF LiveLeaseIsCurrent, UntilCovers, Present
<1>8. UntilIsGranted'
  BY <1>0, <1>1, <1>2, <1>3, <1>4 DEF UntilIsGranted, Present, TypeOK
<1> QED
  BY <1>5, <1>6, <1>7, <1>8 DEF PresenceInv

LEMMA DeleteInv ==
  ASSUME PresenceInv,
         (\E r \in Row : DeleteLeases(r)) \/ DeleteRollback
  PROVE  PresenceInv'
<1>1. \A r \in Row : r # NoRow
  OBVIOUS
<1> QED
  BY <1>1 DEF PresenceInv, DeleteLeases, DeleteRollback, TypeOK, RequestsSane, RowsSane,
              LeasesSane, LiveLeaseIsCurrent, UntilCovers, UntilIsGranted, Present, Unended

\* Leases disappear: those of a row that goes with them, or expired ones.
LEMMA RemovalInv ==
  ASSUME PresenceInv, NEW gone \in SUBSET Lease,
         \A l \in gone : lease[l].state # "free",
         lease' = [l \in Lease |->
                     IF l \in gone THEN [lease[l] EXCEPT !.state = "deleted"]
                                    ELSE lease[l]],
         clock' = clock, req' = req,
         peer' \in [Row -> PeerRecord],
         \A r \in Row : \/ peer'[r] = peer[r]
                            /\ \A l \in gone : lease[l].row = r => lease[l].expires <= clock
                        \/ /\ peer'[r].state = "deleted" /\ Present(r)
                           /\ peer'[r].act = peer[r].act /\ peer'[r].epoch = peer[r].epoch
                           /\ peer'[r].retired = peer[r].retired,
         \/ deleting' = deleting /\ doomed' = doomed /\ peer' = peer
         \/ deleting' = NoRow /\ doomed' = {}
  PROVE  PresenceInv'
<1>0. /\ TypeOK /\ RequestsSane /\ RowsSane /\ LeasesSane
      /\ LiveLeaseIsCurrent /\ UntilCovers /\ UntilIsGranted
  BY DEF PresenceInv
<1>1. /\ lease' \in [Lease -> LeaseRecord]
      /\ \A l \in Lease :
           /\ lease'[l].row = lease[l].row /\ lease'[l].act = lease[l].act
           /\ lease'[l].epoch = lease[l].epoch /\ lease'[l].expires = lease[l].expires
           /\ lease'[l].state = IF l \in gone THEN "deleted" ELSE lease[l].state
  BY <1>0 DEF TypeOK, LeaseRecord
<1>2. TypeOK' /\ RequestsSane'
  BY <1>0, <1>1 DEF TypeOK, RequestsSane
<1>3. RowsSane'
  <2> SUFFICES ASSUME NEW r \in Row
               PROVE  /\ peer'[r].state = "new" => peer'[r] = FreshPeer
                      /\ peer'[r].act = NoActivation => peer'[r].epoch = 0 /\ ~peer'[r].retired
    BY <1>0 DEF RowsSane, TypeOK, Present
  <2>1. CASE peer'[r] = peer[r]
    BY <1>0, <2>1 DEF RowsSane
  <2>2. CASE peer'[r] # peer[r]
    BY <1>0, <2>2 DEF RowsSane
  <2> QED
    BY <2>1, <2>2
<1>4. LeasesSane'
  <2>1. \A l \in Lease : lease[l].state # "free" => lease[l].row \in Row
    BY <1>0 DEF LeasesSane, TypeOK, LeaseRecord
  <2>2. \A l \in Lease : lease'[l].state = "free" <=> lease[l].state = "free"
    BY <1>1
  <2>3. \A r \in Row : peer[r].state # "new" => peer'[r].state # "new"
    OBVIOUS
  <2>4. \A l \in doomed' : lease'[l].row = deleting' /\ deleting' \in Row
    BY <1>0, <1>1 DEF LeasesSane, TypeOK
  <2> QED
    BY <1>0, <1>1, <2>1, <2>2, <2>3, <2>4 DEF LeasesSane
<1>5. \A r \in Row : Present(r)' =>
         /\ Present(r) /\ peer'[r] = peer[r]
         /\ Unended(r)' = Unended(r) \ gone
         /\ \A l \in gone : lease[l].row = r => lease[l].expires <= clock
  BY <1>0, <1>1 DEF Present, Unended
<1>6. LiveLeaseIsCurrent' /\ UntilCovers'
  BY <1>0, <1>1, <1>5 DEF LiveLeaseIsCurrent, UntilCovers, Unended
<1>7. UntilIsGranted'
  <2> SUFFICES ASSUME NEW r \in Row, Present(r)', ~(peer'[r].until <= clock')
               PROVE  \E l \in Unended(r)' : lease'[l].expires = peer'[r].until
    BY DEF UntilIsGranted
  <2>1. Present(r) /\ peer'[r] = peer[r] /\ Unended(r)' = Unended(r) \ gone
    BY <1>5
  <2>2. PICK l \in Unended(r) : lease[l].expires = peer[r].until
    BY <1>0, <2>1 DEF UntilIsGranted
  <2>3. l \in Lease /\ lease[l].row = r
    BY <2>2 DEF Unended
  <2>4. l \notin gone
    BY <1>5, <2>1, <2>2, <2>3
  <2> QED
    BY <1>1, <2>1, <2>2, <2>3, <2>4
<1> QED
  BY <1>2, <1>3, <1>4, <1>6, <1>7 DEF PresenceInv

LEMMA DeleteCommitInv ==
  ASSUME PresenceInv, DeleteCommit
  PROVE  PresenceInv'
<1>0. TypeOK /\ RowsSane /\ LeasesSane
  BY DEF PresenceInv
<1> DEFINE pn == [peer[deleting] EXCEPT !.state = "deleted"]
<1>1. deleting \in Row /\ peer[deleting] \in PeerRecord /\ Present(deleting)
  BY <1>0 DEF DeleteCommit, TypeOK, RowsSane
<1>2. /\ pn \in PeerRecord /\ pn.state = "deleted" /\ pn.act = peer[deleting].act
      /\ pn.epoch = peer[deleting].epoch /\ pn.retired = peer[deleting].retired
  BY <1>1 DEF PeerRecord
<1>3. peer' = [peer EXCEPT ![deleting] = pn]
  BY <1>0, <1>1 DEF DeleteCommit, TypeOK
<1> HIDE DEF pn
<1>4. peer' \in [Row -> PeerRecord] /\ peer'[deleting] = pn
      /\ \A r \in Row \ {deleting} : peer'[r] = peer[r]
  BY <1>0, <1>1, <1>2, <1>3 DEF TypeOK
<1>5. \A l \in doomed : lease[l].row = deleting /\ lease[l].state # "free"
  BY <1>0, <1>1 DEF LeasesSane, TypeOK
<1> QED
  BY <1>0, <1>1, <1>2, <1>4, <1>5, RemovalInv DEF DeleteCommit, TypeOK

LEMMA CleanupInv ==
  ASSUME PresenceInv, Cleanup
  PROVE  PresenceInv'
<1> DEFINE old == {l \in Lease : /\ lease[l].state \in {"open", "ended"}
                                /\ lease[l].expires < clock - Retention
                                /\ l \notin doomed}
<1>1. \A l \in old : lease[l].state # "free" /\ lease[l].expires <= clock
  <2>1. \A l \in old : lease[l].expires \in Nat /\ clock \in Nat
    BY DEF PresenceInv, TypeOK, LeaseRecord
  <2> QED
    BY <2>1
<1>2. peer' \in [Row -> PeerRecord] /\ peer' = peer
  BY DEF PresenceInv, TypeOK, Cleanup
<1>3. /\ lease' = [l \in Lease |->
                     IF l \in old THEN [lease[l] EXCEPT !.state = "deleted"]
                                   ELSE lease[l]]
      /\ clock' = clock /\ req' = req /\ deleting' = deleting /\ doomed' = doomed
  BY DEF Cleanup
<1>4. old \in SUBSET Lease
  OBVIOUS
<1> HIDE DEF old
<1> QED
  BY <1>1, <1>2, <1>3, <1>4, RemovalInv

LEMMA TickInv ==
  ASSUME PresenceInv, Tick
  PROVE  PresenceInv'
<1>0. /\ TypeOK /\ RequestsSane /\ RowsSane /\ LeasesSane
      /\ LiveLeaseIsCurrent /\ UntilCovers /\ UntilIsGranted
  BY DEF PresenceInv
<1>1. /\ clock \in Nat /\ clock' = clock + 1 /\ peer' = peer /\ lease' = lease
      /\ req' = req /\ deleting' = deleting /\ doomed' = doomed
  BY <1>0 DEF Tick, TypeOK
<1>2. TypeOK' /\ RowsSane' /\ LeasesSane' /\ LiveLeaseIsCurrent'
  BY <1>0, <1>1 DEF TypeOK, RowsSane, LeasesSane, LiveLeaseIsCurrent, Present, Unended
<1>3. RequestsSane'
  BY <1>0, <1>1 DEF TypeOK, RequestsSane, Request
<1>4. UntilCovers'
  BY <1>0, <1>1 DEF TypeOK, UntilCovers, Unended, Present, LeaseRecord
<1>5. UntilIsGranted'
  BY <1>0, <1>1 DEF TypeOK, UntilIsGranted, Unended, Present, PeerRecord
<1> QED
  BY <1>2, <1>3, <1>4, <1>5 DEF PresenceInv

LEMMA NextInv == PresenceInv /\ [Next]_vars => PresenceInv'
<1> SUFFICES ASSUME PresenceInv, [Next]_vars PROVE PresenceInv'
  OBVIOUS
<1>1. ASSUME NEW h \in Handler, ClientStep(h) PROVE PresenceInv'
  BY <1>1, ClientInv
<1>2. ASSUME NEW h \in Handler, HandlerStep(h) PROVE PresenceInv'
  BY <1>2, StartInv, RenewInv, EndInv, DeactivateInv, LegacyInv, RejectInv DEF HandlerStep
<1>3. ASSUME NEW r \in Row, CreatePeer(r) PROVE PresenceInv'
  BY <1>3, CreateInv
<1>4. ASSUME NEW r \in Row, DeleteLeases(r) PROVE PresenceInv'
  BY <1>4, DeleteInv
<1>5. CASE DeleteCommit
  BY <1>5, DeleteCommitInv
<1>6. CASE DeleteRollback
  BY <1>6, DeleteInv
<1>7. CASE Cleanup
  BY <1>7, CleanupInv
<1>8. CASE Tick
  BY <1>8, TickInv
<1>9. CASE UNCHANGED vars
  BY <1>9 DEF vars, PresenceInv, TypeOK, RequestsSane, RowsSane, LeasesSane,
              LiveLeaseIsCurrent, UntilCovers, UntilIsGranted, Present, Unended
<1> QED
  BY <1>1, <1>2, <1>3, <1>4, <1>5, <1>6, <1>7, <1>8, <1>9 DEF Next

-----------------------------------------------------------------------------
\* The inductive invariant: well-formed requests, rows and leases, every open
\* lease of the current activation, and the cached aggregate right at any time.
THEOREM PresenceInvariant == Spec => []PresenceInv
<1>1. Init => PresenceInv
  BY InitInv
<1>2. PresenceInv /\ [Next]_vars => PresenceInv'
  BY NextInv
<1> QED
  BY <1>1, <1>2, PTL DEF Spec

\* Type correctness of the model of service/presence.go.
THEOREM TypeCorrect == Spec => []TypeOK
<1>1. PresenceInv => TypeOK
  BY DEF PresenceInv
<1> QED
  BY <1>1, PresenceInvariant, PTL

\* No lease of an earlier or retired activation stays open.
THEOREM LeasesAreCurrent == Spec => []LiveLeaseIsCurrent
<1>1. PresenceInv => LiveLeaseIsCurrent
  BY DEF PresenceInv
<1> QED
  BY <1>1, PresenceInvariant, PTL

\* presence_online_until agrees with the lease table at every moment.
THEOREM AggregateIsRight == Spec => []OnlineUntilIsAggregate
<1>1. PresenceInv => OnlineUntilIsAggregate
  <2> SUFFICES ASSUME PresenceInv, NEW r \in Row, Present(r)
               PROVE  peer[r].until > clock
                        <=> \E l \in Unended(r) : lease[l].expires > clock
    BY DEF OnlineUntilIsAggregate
  <2>1. /\ clock \in Nat /\ peer[r].until \in Nat
        /\ \A l \in Lease : lease[l].expires \in Nat
    BY DEF PresenceInv, TypeOK, PeerRecord, LeaseRecord
  <2>2. peer[r].until > clock => \E l \in Unended(r) : lease[l].expires > clock
    BY <2>1 DEF PresenceInv, UntilIsGranted
  <2>3. \A l \in Unended(r) : lease[l].expires > clock => peer[r].until > clock
    BY <2>1 DEF PresenceInv, UntilCovers, Unended
  <2> QED
    BY <2>2, <2>3
<1> QED
  BY <1>1, PresenceInvariant, PTL

-----------------------------------------------------------------------------
(* Action properties.  Only four steps write a lease or an activation and   *)
(* keep the row: the rest change the state of rows and leases alone.        *)

\* Steps after which activations, epochs and expiries are what they were.
QuietStep ==
  /\ \A r \in Row : Present(r) => /\ peer'[r].epoch = peer[r].epoch
                                  /\ peer'[r].act = peer[r].act
                                  /\ peer'[r].retired = peer[r].retired
  /\ \/ lease' = lease
     \/ \E gone \in SUBSET Lease :
          lease' = [l \in Lease |-> IF l \in gone
                                      THEN [lease[l] EXCEPT !.state = "deleted"]
                                      ELSE lease[l]]

LEMMA QuietSteps ==
  ASSUME PresenceInv, [Next]_vars,
         ~(\E h \in Handler : \/ \E l \in Lease : StartPresenceLease(h, l)
                              \/ RenewPresenceLease(h)
                              \/ EndPresenceLease(h)
                              \/ DeactivatePresenceActivation(h))
  PROVE  QuietStep
<1>0. TypeOK /\ RowsSane
  BY DEF PresenceInv
<1>1. peer \in [Row -> PeerRecord]
  BY <1>0 DEF TypeOK
<1>2. ASSUME UNCHANGED <<peer, lease>> PROVE QuietStep
  BY <1>2 DEF QuietStep
<1>3. ASSUME NEW h \in Handler, ClientStep(h) PROVE QuietStep
  BY <1>2, <1>3 DEF ClientStep, ArriveActivation, ArriveLease, ArriveLegacy, Arrive
<1>4. ASSUME NEW h \in Handler, LegacyReport(h) PROVE QuietStep
  BY <1>1, <1>4 DEF LegacyReport, QuietStep, PeerRecord
<1>5. ASSUME NEW h \in Handler, Reject(h) PROVE QuietStep
  BY <1>2, <1>5 DEF Reject
<1>6. ASSUME NEW r \in Row, CreatePeer(r) PROVE QuietStep
  BY <1>1, <1>6 DEF CreatePeer, QuietStep, Present, PeerRecord
<1>7. ASSUME NEW r \in Row, DeleteLeases(r) PROVE QuietStep
  BY <1>2, <1>7 DEF DeleteLeases
<1>8. CASE DeleteCommit
  <2>1. /\ \A r \in Row : /\ peer'[r].epoch = peer[r].epoch
                          /\ peer'[r].act = peer[r].act
                          /\ peer'[r].retired = peer[r].retired
    BY <1>1, <1>8 DEF DeleteCommit, PeerRecord
  <2>2. doomed \in SUBSET Lease
    BY <1>0 DEF TypeOK
  <2> QED
    BY <1>8, <2>1, <2>2 DEF DeleteCommit, QuietStep
<1>9. CASE DeleteRollback
  BY <1>2, <1>9 DEF DeleteRollback
<1>10. CASE Cleanup
  <2> DEFINE old == {l \in Lease : /\ lease[l].state \in {"open", "ended"}
                                   /\ lease[l].expires < clock - Retention
                                   /\ l \notin doomed}
  <2>1. old \in SUBSET Lease
    OBVIOUS
  <2>2. /\ lease' = [l \in Lease |-> IF l \in old
                                       THEN [lease[l] EXCEPT !.state = "deleted"]
                                       ELSE lease[l]]
        /\ peer' = peer
    BY <1>10 DEF Cleanup
  <2> HIDE DEF old
  <2> QED
    BY <2>1, <2>2 DEF QuietStep
<1>11. CASE Tick
  BY <1>2, <1>11 DEF Tick
<1>12. CASE UNCHANGED vars
  BY <1>2, <1>12 DEF vars
<1> QED
  BY <1>3, <1>4, <1>5, <1>6, <1>7, <1>8, <1>9, <1>10, <1>11, <1>12
  DEF Next, HandlerStep

\* What one transaction does to the activation of its row and to the leases.
LEMMA ActivationSteps ==
  ASSUME PresenceInv, NEW h \in Handler,
         \/ \E l \in Lease : StartPresenceLease(h, l)
         \/ RenewPresenceLease(h)
         \/ EndPresenceLease(h)
         \/ DeactivatePresenceActivation(h)
  PROVE  /\ req[h].row \in Row /\ Present(req[h].row)
         /\ \A s \in Row \ {req[h].row} : peer'[s] = peer[s]
         /\ LET p == peer[req[h].row]
                n == peer'[req[h].row]
            IN \/ n.epoch > p.epoch
               \/ n.epoch = p.epoch /\ n.act = p.act /\ (p.retired => n.retired)
<1>0. TypeOK /\ RequestsSane /\ RowsSane
  BY DEF PresenceInv
<1> DEFINE q == req[h]
           p == peer[q.row]
<1>1. q \in Request /\ q.row \in Row
  BY <1>0 DEF TypeOK, RequestsSane, StartPresenceLease, RenewPresenceLease,
              EndPresenceLease, DeactivatePresenceActivation, LeaseKinds, ActivationKinds
<1>2. Present(q.row)
  BY DEF StartPresenceLease, RenewPresenceLease, EndPresenceLease,
         DeactivatePresenceActivation, MayStart, MayRenew, MayEnd, MayDeactivate
<1>3. p \in PeerRecord /\ peer \in [Row -> PeerRecord]
  BY <1>0, <1>1 DEF TypeOK
<1>4. p.epoch \in Nat /\ q.epoch \in Nat
  BY <1>1, <1>3 DEF PeerRecord, Request
<1>5. p.act = NoActivation => p.epoch = 0
  BY <1>0, <1>1 DEF RowsSane
<1>6. ASSUME NEW l \in Lease, StartPresenceLease(h, l)
      PROVE  /\ \A s \in Row \ {q.row} : peer'[s] = peer[s]
             /\ \/ peer'[q.row].epoch > p.epoch
                \/ /\ peer'[q.row].epoch = p.epoch /\ peer'[q.row].act = p.act
                   /\ (p.retired => peer'[q.row].retired)
  <2>1. MayStart(q) /\ q.kind = "start"
    BY <1>6 DEF StartPresenceLease
  <2>2. q.epoch > 0
    BY <1>0, <2>1 DEF RequestsSane, ActivationKinds
  <2>3. \/ q.epoch > p.epoch
        \/ q.epoch = p.epoch /\ q.act = p.act /\ ~p.retired
    BY <1>4, <1>5, <2>1, <2>2 DEF MayStart, Superseded, IsCurrent
  <2>4. PICK u : peer' = [peer EXCEPT ![q.row] =
                        PresenceUpdate(p, q, q.epoch, q.act, FALSE, u, TRUE, TRUE)]
    BY <1>6 DEF StartPresenceLease
  <2>5. /\ peer'[q.row].epoch = q.epoch /\ peer'[q.row].act = q.act
        /\ \A s \in Row \ {q.row} : peer'[s] = peer[s]
    BY <1>1, <1>3, <2>4 DEF PresenceUpdate, PeerRecord
  <2> QED
    BY <2>3, <2>5
<1>7. ASSUME RenewPresenceLease(h) \/ EndPresenceLease(h)
      PROVE  /\ \A s \in Row \ {q.row} : peer'[s] = peer[s]
             /\ peer'[q.row].epoch = p.epoch /\ peer'[q.row].act = p.act
             /\ peer'[q.row].retired = p.retired
  <2>1. PICK u, mark, touch : peer' = [peer EXCEPT ![q.row] =
               PresenceUpdate(p, q, p.epoch, p.act, p.retired, u, mark, touch)]
    <3>1. CASE RenewPresenceLease(h)
      BY <3>1 DEF RenewPresenceLease
    <3>2. CASE EndPresenceLease(h)
      BY <3>2 DEF EndPresenceLease
    <3> QED
      BY <1>7, <3>1, <3>2
  <2> QED
    BY <1>1, <1>3, <2>1 DEF PresenceUpdate, PeerRecord
<1>8. ASSUME DeactivatePresenceActivation(h)
      PROVE  /\ \A s \in Row \ {q.row} : peer'[s] = peer[s]
             /\ \/ peer'[q.row].epoch > p.epoch
                \/ /\ peer'[q.row].epoch = p.epoch /\ peer'[q.row].act = p.act
                   /\ (p.retired => peer'[q.row].retired)
  <2>1. MayDeactivate(q) /\ q.kind = "deactivate"
    BY <1>8 DEF DeactivatePresenceActivation
  <2>2. q.epoch > 0
    BY <1>0, <2>1 DEF RequestsSane, ActivationKinds
  <2>3. \/ q.epoch > p.epoch
        \/ q.epoch = p.epoch /\ q.act = p.act
    BY <1>4, <1>5, <2>1, <2>2 DEF MayDeactivate, Superseded
  <2>4. peer' = [peer EXCEPT ![q.row] =
                   PresenceUpdate(p, q, q.epoch, q.act, TRUE, 0, TRUE, FALSE)]
    BY <1>8 DEF DeactivatePresenceActivation
  <2>5. /\ peer'[q.row].epoch = q.epoch /\ peer'[q.row].act = q.act
        /\ peer'[q.row].retired = TRUE
        /\ \A s \in Row \ {q.row} : peer'[s] = peer[s]
    BY <1>1, <1>3, <2>4 DEF PresenceUpdate, PeerRecord
  <2> QED
    BY <2>3, <2>5
<1> QED
  BY <1>1, <1>2, <1>6, <1>7, <1>8

\* The activation of a row only moves forward.
THEOREM ActivationsAreMonotonic == Spec => ActivationMonotonic
<1>1. ASSUME PresenceInv, [Next]_vars
      PROVE  [\A r \in Row : Present(r) =>
                \/ peer'[r].epoch > peer[r].epoch
                \/ /\ peer'[r].epoch = peer[r].epoch
                   /\ peer'[r].act = peer[r].act
                   /\ peer[r].retired => peer'[r].retired]_vars
  <2>1. CASE \E h \in Handler : \/ \E l \in Lease : StartPresenceLease(h, l)
                                \/ RenewPresenceLease(h)
                                \/ EndPresenceLease(h)
                                \/ DeactivatePresenceActivation(h)
    BY <1>1, <2>1, ActivationSteps
  <2>2. CASE QuietStep
    BY <2>2 DEF QuietStep
  <2> QED
    BY <1>1, <2>1, <2>2, QuietSteps
<1> QED
  BY <1>1, PresenceInvariant, PTL DEF Spec, ActivationMonotonic

\* What one transaction does to the lease rows: it grants one, renews one that is
\* open, ends one that matches, or ends all of its row and then moves the
\* activation on or retires it.
LEMMA LeaseSteps ==
  ASSUME PresenceInv, NEW h \in Handler,
         \/ \E l \in Lease : StartPresenceLease(h, l)
         \/ RenewPresenceLease(h)
         \/ EndPresenceLease(h)
         \/ DeactivatePresenceActivation(h)
  PROVE  /\ \A l \in Lease :
              \/ lease'[l] = lease[l]
              \/ lease[l].state = "free" /\ lease'[l].row = req[h].row
              \/ lease[l].state = "open" /\ lease'[l].row = lease[l].row
                   /\ lease[l].row = req[h].row
              \/ lease[l].state = "ended" /\ lease'[l].state = "ended"
                   /\ lease'[l].row = lease[l].row
                   /\ lease'[l].expires = lease[l].expires
         /\ \/ \E m \in Lease : \A l \in Lease \ {m} :
                 lease'[l].state = "ended" => lease[l].state = "ended"
            \/ peer'[req[h].row].epoch # peer[req[h].row].epoch
            \/ peer'[req[h].row].retired
<1>0. TypeOK /\ RequestsSane
  BY DEF PresenceInv
<1> DEFINE q == req[h]
           p == peer[q.row]
<1>1. q \in Request /\ q.row \in Row
  BY <1>0 DEF TypeOK, RequestsSane, StartPresenceLease, RenewPresenceLease,
              EndPresenceLease, DeactivatePresenceActivation, LeaseKinds, ActivationKinds
<1>2. p \in PeerRecord /\ peer \in [Row -> PeerRecord] /\ lease \in [Lease -> LeaseRecord]
  BY <1>0, <1>1 DEF TypeOK
<1>3. \A l \in Lease :
        \/ EndAll(q.row)[l] = lease[l]
        \/ /\ lease[l].state = "open" /\ lease[l].row = q.row
           /\ EndAll(q.row)[l].row = lease[l].row
  BY <1>2 DEF EndAll, Unended, LeaseRecord
<1>4. ASSUME NEW m \in Lease, StartPresenceLease(h, m)
      PROVE  /\ lease[m].state = "free" /\ lease'[m].row = q.row /\ lease'[m].state = "open"
             /\ \A l \in Lease \ {m} :
                  \/ lease'[l] = lease[l]
                  \/ /\ lease[l].state = "open" /\ lease[l].row = q.row
                     /\ lease'[l].row = lease[l].row
                     /\ q.epoch > p.epoch
             /\ peer'[q.row].epoch = q.epoch
  <2> DEFINE rows == IF q.epoch > p.epoch THEN EndAll(q.row) ELSE lease
             new == [state |-> "open", row |-> q.row, epoch |-> q.epoch,
                     act |-> q.act, expires |-> q.now + TTL]
  <2>1. lease[m].state = "free" /\ lease' = [rows EXCEPT ![m] = new]
    BY <1>4 DEF StartPresenceLease
  <2>2. DOMAIN rows = Lease
    BY <1>2 DEF EndAll
  <2>3. new.row = q.row /\ new.state = "open"
    OBVIOUS
  <2>4. \A l \in Lease : \/ rows[l] = lease[l]
                         \/ /\ lease[l].state = "open" /\ lease[l].row = q.row
                            /\ rows[l].row = lease[l].row
                            /\ q.epoch > p.epoch
    BY <1>3
  <2>5. peer'[q.row].epoch = q.epoch
    <3>1. PICK u : peer' = [peer EXCEPT ![q.row] =
                        PresenceUpdate(p, q, q.epoch, q.act, FALSE, u, TRUE, TRUE)]
      BY <1>4 DEF StartPresenceLease
    <3> QED
      BY <1>1, <1>2, <3>1 DEF PresenceUpdate, PeerRecord
  <2> HIDE DEF new, rows
  <2> QED
    BY <2>1, <2>2, <2>3, <2>4, <2>5
<1>5. ASSUME RenewPresenceLease(h)
      PROVE  /\ q.lease \in Lease /\ lease[q.lease].state = "open"
             /\ lease[q.lease].row = q.row
             /\ lease'[q.lease].row = lease[q.lease].row
             /\ lease'[q.lease].state = "open"
             /\ \A l \in Lease \ {q.lease} : lease'[l] = lease[l]
  <2>1. MayRenew(q) /\ lease' = [lease EXCEPT ![q.lease].expires = RenewedExpiry(q.lease, q)]
    BY <1>5 DEF RenewPresenceLease
  <2>2. /\ q.lease \in Lease /\ lease[q.lease].state = "open"
        /\ lease[q.lease].row = q.row
    BY <2>1 DEF MayRenew, Matches
  <2> QED
    BY <1>2, <2>1, <2>2 DEF LeaseRecord
<1>6. ASSUME EndPresenceLease(h)
      PROVE  /\ q.lease \in Lease /\ lease[q.lease].state \in {"open", "ended"}
             /\ lease[q.lease].row = q.row
             /\ lease'[q.lease].row = lease[q.lease].row
             /\ lease'[q.lease].state = "ended"
             /\ lease'[q.lease].expires = lease[q.lease].expires
             /\ \A l \in Lease \ {q.lease} : lease'[l] = lease[l]
  <2>1. MayEnd(q) /\ lease' = [lease EXCEPT ![q.lease].state = "ended"]
    BY <1>6 DEF EndPresenceLease, EndOne
  <2>2. /\ q.lease \in Lease /\ lease[q.lease].state \in {"open", "ended"}
        /\ lease[q.lease].row = q.row
    BY <2>1 DEF MayEnd, Matches
  <2> QED
    BY <1>2, <2>1, <2>2 DEF LeaseRecord
<1>7. ASSUME DeactivatePresenceActivation(h)
      PROVE  lease' = EndAll(q.row) /\ peer'[q.row].retired
  BY <1>1, <1>2, <1>7 DEF DeactivatePresenceActivation, PresenceUpdate, PeerRecord
<1>8. q.epoch \in Nat /\ p.epoch \in Nat
  BY <1>1, <1>2 DEF Request, PeerRecord
<1>9. ASSUME NEW m \in Lease, StartPresenceLease(h, m)
      PROVE  \/ \A l \in Lease \ {m} : lease'[l].state = "ended" => lease[l].state = "ended"
             \/ peer'[q.row].epoch # p.epoch
  BY <1>4, <1>8, <1>9
<1>10. ASSUME RenewPresenceLease(h) \/ EndPresenceLease(h)
       PROVE  \E m \in Lease : \A l \in Lease \ {m} :
                lease'[l].state = "ended" => lease[l].state = "ended"
  BY <1>5, <1>6, <1>10
<1> HIDE DEF q, p
<1>11. \A l \in Lease :
         \/ lease'[l] = lease[l]
         \/ lease[l].state = "free" /\ lease'[l].row = q.row
         \/ lease[l].state = "open" /\ lease'[l].row = lease[l].row /\ lease[l].row = q.row
         \/ lease[l].state = "ended" /\ lease'[l].state = "ended"
              /\ lease'[l].row = lease[l].row
              /\ lease'[l].expires = lease[l].expires
  <2>1. ASSUME NEW m \in Lease, StartPresenceLease(h, m), NEW l \in Lease
        PROVE  \/ lease'[l] = lease[l]
               \/ lease[l].state = "free" /\ lease'[l].row = q.row
               \/ lease[l].state = "open" /\ lease'[l].row = lease[l].row
                    /\ lease[l].row = q.row
    BY <1>4, <2>1
  <2>2. CASE RenewPresenceLease(h)
    BY <1>5, <2>2
  <2>3. CASE EndPresenceLease(h)
    BY <1>6, <2>3
  <2>4. CASE DeactivatePresenceActivation(h)
    BY <1>3, <1>7, <2>4
  <2> QED
    BY <2>1, <2>2, <2>3, <2>4
<1>12. \/ \E m \in Lease : \A l \in Lease \ {m} :
            lease'[l].state = "ended" => lease[l].state = "ended"
       \/ peer'[q.row].epoch # p.epoch
       \/ peer'[q.row].retired
  BY <1>7, <1>9, <1>10
<1> QED
  BY <1>11, <1>12 DEF q, p

\* An ended lease is never opened again, nor its expiry moved.
THEOREM EndedLeasesStayEnded == Spec => EndedStaysEnded
<1>1. ASSUME PresenceInv, [Next]_vars
      PROVE  [\A l \in Lease : lease[l].state \in {"ended", "deleted"} =>
                /\ lease'[l].state \in {"ended", "deleted"}
                /\ lease'[l].expires = lease[l].expires]_vars
  <2>0. lease \in [Lease -> LeaseRecord]
    BY <1>1 DEF PresenceInv, TypeOK
  <2>1. CASE \E h \in Handler : \/ \E l \in Lease : StartPresenceLease(h, l)
                                \/ RenewPresenceLease(h)
                                \/ EndPresenceLease(h)
                                \/ DeactivatePresenceActivation(h)
    BY <1>1, <2>1, LeaseSteps
  <2>2. CASE QuietStep
    BY <2>0, <2>2 DEF QuietStep, LeaseRecord
  <2> QED
    BY <1>1, <2>1, <2>2, QuietSteps
<1> QED
  BY <1>1, PresenceInvariant, PTL DEF Spec, EndedStaysEnded

\* No step grants or renews a lease of a deleted row.
THEOREM DeletedRowsAreInert == Spec => DeletedRowIsInert
<1>1. ASSUME PresenceInv, [Next]_vars
      PROVE  [\A r \in Row : peer[r].state = "deleted" =>
                \A l \in Lease : lease'[l].row = r =>
                  /\ lease[l].row = r
                  /\ lease'[l].expires = lease[l].expires]_vars
  <2>0. lease \in [Lease -> LeaseRecord]
    BY <1>1 DEF PresenceInv, TypeOK
  <2>1. CASE \E h \in Handler : \/ \E l \in Lease : StartPresenceLease(h, l)
                                \/ RenewPresenceLease(h)
                                \/ EndPresenceLease(h)
                                \/ DeactivatePresenceActivation(h)
    <3>1. PICK h \in Handler : \/ \E l \in Lease : StartPresenceLease(h, l)
                               \/ RenewPresenceLease(h)
                               \/ EndPresenceLease(h)
                               \/ DeactivatePresenceActivation(h)
      BY <2>1
    <3>2. peer[req[h].row].state = "present"
      BY <1>1, <3>1, ActivationSteps DEF Present
    <3>3. \A l \in Lease : \/ lease'[l].row = req[h].row
                           \/ /\ lease'[l].row = lease[l].row
                              /\ lease'[l].expires = lease[l].expires
      BY <1>1, <3>1, LeaseSteps
    <3> QED
      BY <3>2, <3>3
  <2>2. CASE QuietStep
    BY <2>0, <2>2 DEF QuietStep, LeaseRecord
  <2> QED
    BY <1>1, <2>1, <2>2, QuietSteps
<1> QED
  BY <1>1, PresenceInvariant, PTL DEF Spec, DeletedRowIsInert

\* Ending one lease ends no other lease of the activation.
THEOREM EndingIsLocal == Spec => EndIsLocal
<1>1. ASSUME PresenceInv, [Next]_vars
      PROVE  [\A r \in Row :
                /\ Present(r) /\ Present(r)'
                /\ peer'[r].epoch = peer[r].epoch
                /\ peer'[r].retired = peer[r].retired
                => \A l, m \in Unended(r) :
                     lease'[l].state = "ended" /\ lease'[m].state = "ended" => l = m]_vars
  <2>0. lease \in [Lease -> LeaseRecord]
    BY <1>1 DEF PresenceInv, TypeOK
  <2>1. CASE \E h \in Handler : \/ \E l \in Lease : StartPresenceLease(h, l)
                                \/ RenewPresenceLease(h)
                                \/ EndPresenceLease(h)
                                \/ DeactivatePresenceActivation(h)
    <3>1. PICK h \in Handler : \/ \E l \in Lease : StartPresenceLease(h, l)
                               \/ RenewPresenceLease(h)
                               \/ EndPresenceLease(h)
                               \/ DeactivatePresenceActivation(h)
      BY <2>1
    <3>2. \A r \in Row \ {req[h].row} : \A l \in Unended(r) : lease'[l].state = "open"
      BY <1>1, <3>1, LeaseSteps DEF Unended
    <3>3. \/ \E m \in Lease : \A l \in Lease \ {m} :
               lease'[l].state = "ended" => lease[l].state = "ended"
          \/ peer'[req[h].row].epoch # peer[req[h].row].epoch
          \/ peer'[req[h].row].retired
      BY <1>1, <3>1, LeaseSteps
    <3>4. \A r \in Row : Present(r) /\ peer[r].retired => Unended(r) = {}
      BY <1>1 DEF PresenceInv, LiveLeaseIsCurrent
    <3> QED
      BY <3>2, <3>3, <3>4 DEF Unended
  <2>2. CASE QuietStep
    BY <2>0, <2>2 DEF QuietStep, Unended, LeaseRecord
  <2> QED
    BY <1>1, <2>1, <2>2, QuietSteps
<1> QED
  BY <1>1, PresenceInvariant, PTL DEF Spec, EndIsLocal

-----------------------------------------------------------------------------
(* The history.  First what every transaction of a handler does to what the *)
(* history is compared with, then that it keeps the comparison.             *)

Serves(h) ==
  LET q == req[h]
      r == q.row
  IN  /\ q.kind # "idle" /\ r \in Row /\ Done(h) /\ clock' = clock
      /\ \A s \in Row \ {r} : peer'[s] = peer[s]
      /\ \A l \in Lease : lease'[l].state # "free" =>
           \/ /\ lease[l].state # "free"
              /\ lease'[l].row = lease[l].row /\ lease'[l].expires = lease[l].expires
           \/ /\ AcceptedContact(q)
              /\ lease'[l].row = r /\ lease'[l].expires = q.now + TTL
      /\ \/ peer'[r].until \in {0, peer[r].until}
         \/ \E l \in Lease : /\ lease'[l].state = "open" /\ lease'[l].row = r
                             /\ lease'[l].expires = peer'[r].until
      /\ \/ peer'[r].last = peer[r].last
         \/ AcceptedContact(q) /\ peer'[r].last = q.now
      /\ peer'[r].seen = IF AcceptedV2(q) THEN q.now ELSE peer[r].seen

\* The aggregate is none, or the expiry of an open lease.
LEMMA AggregateGranted ==
  ASSUME NEW L, NEW r, NEW e, NEW a, NEW now, NEW u, ActivePresenceUntil(L, r, e, a, now, u)
  PROVE  u = 0 \/ \E l \in Lease : L[l].state = "open" /\ L[l].row = r /\ L[l].expires = u
BY DEF ActivePresenceUntil

LEMMA StartServes ==
  ASSUME PresenceInv, NEW h \in Handler, NEW l \in Lease, StartPresenceLease(h, l)
  PROVE  Serves(h)
<1> DEFINE q == req[h]
           r == q.row
           p == peer[r]
<1>0. TypeOK /\ RequestsSane /\ LeasesSane
  BY DEF PresenceInv
<1>1. q.kind = "start" /\ r \in Row /\ MayStart(q) /\ lease[l].state = "free"
  BY <1>0 DEF StartPresenceLease, RequestsSane
<1>2. AcceptedV2(q) /\ AcceptedContact(q)
  BY <1>1 DEF AcceptedV2, AcceptedContact
<1>3. PICK u : /\ ActivePresenceUntil(lease', r, q.epoch, q.act, q.now, u)
               /\ peer' = [peer EXCEPT ![r] =
                             PresenceUpdate(p, q, q.epoch, q.act, FALSE, u, TRUE, TRUE)]
  BY DEF StartPresenceLease
<1> DEFINE rows == IF q.epoch > p.epoch THEN EndAll(r) ELSE lease
           new == [state |-> "open", row |-> r, epoch |-> q.epoch,
                   act |-> q.act, expires |-> q.now + TTL]
<1>4. lease' = [rows EXCEPT ![l] = new]
  BY DEF StartPresenceLease
<1>5. /\ rows \in [Lease -> LeaseRecord]
      /\ \A m \in Lease : /\ rows[m].row = lease[m].row
                          /\ rows[m].expires = lease[m].expires
                          /\ rows[m].state # "free" => lease[m].state # "free"
  BY <1>0, <1>1, EndAllType DEF TypeOK, Unended
<1>6. lease'[l] = new /\ \A m \in Lease \ {l} : lease'[m] = rows[m]
  BY <1>4, <1>5
<1>7. \A m \in Lease : lease'[m].state # "free" =>
        \/ /\ lease[m].state # "free"
           /\ lease'[m].row = lease[m].row /\ lease'[m].expires = lease[m].expires
        \/ lease'[m].row = r /\ lease'[m].expires = q.now + TTL
  <2>1. new.row = r /\ new.expires = q.now + TTL
    OBVIOUS
  <2> HIDE DEF new, rows
  <2> QED
    BY <1>5, <1>6, <2>1
<1>8. p \in PeerRecord /\ peer \in [Row -> PeerRecord]
  BY <1>0, <1>1 DEF TypeOK
<1>9. /\ peer'[r] = PresenceUpdate(p, q, q.epoch, q.act, FALSE, u, TRUE, TRUE)
      /\ \A s \in Row \ {r} : peer'[s] = peer[s]
  BY <1>1, <1>3, <1>8
<1>10. /\ peer'[r].until = u /\ peer'[r].seen = q.now
       /\ peer'[r].last = p.last \/ peer'[r].last = q.now
  <2>1. DOMAIN p = {"state", "epoch", "act", "retired", "until", "seen", "last"}
    BY <1>8 DEF PeerRecord
  <2> HIDE DEF p, q
  <2> QED
    BY <1>9, <2>1 DEF PresenceUpdate
<1>11. u = 0 \/ \E m \in Lease : lease'[m].state = "open" /\ lease'[m].row = r /\ lease'[m].expires = u
  BY <1>3, AggregateGranted
<1>12. Done(h) /\ clock' = clock
  BY DEF StartPresenceLease
<1> QED
  BY <1>1, <1>2, <1>7, <1>9, <1>10, <1>11, <1>12 DEF Serves

LEMMA RenewServes ==
  ASSUME PresenceInv, NEW h \in Handler, RenewPresenceLease(h)
  PROVE  Serves(h)
<1> DEFINE q == req[h]
           r == q.row
           p == peer[r]
<1>0. TypeOK /\ RequestsSane /\ LeasesSane
  BY DEF PresenceInv
<1>1. q.kind = "renew" /\ r \in Row /\ MayRenew(q)
  BY <1>0 DEF RenewPresenceLease, RequestsSane
<1>2. AcceptedV2(q) /\ AcceptedContact(q)
  BY <1>1 DEF AcceptedV2, AcceptedContact
<1>3. PICK u : /\ ActivePresenceUntil(lease', r, p.epoch, p.act, q.now, u)
               /\ peer' = [peer EXCEPT ![r] =
                             PresenceUpdate(p, q, p.epoch, p.act, p.retired, u, TRUE, TRUE)]
  BY DEF RenewPresenceLease
<1>4. /\ q.lease \in Lease /\ lease[q.lease].row = r /\ lease[q.lease].state = "open"
      /\ lease' = [lease EXCEPT ![q.lease].expires = q.now + TTL]
  BY <1>1 DEF MayRenew, Matches, RenewPresenceLease, RenewedExpiry
<1>7. \A m \in Lease : lease'[m].state # "free" =>
        \/ /\ lease[m].state # "free"
           /\ lease'[m].row = lease[m].row /\ lease'[m].expires = lease[m].expires
        \/ lease'[m].row = r /\ lease'[m].expires = q.now + TTL
  BY <1>0, <1>4 DEF TypeOK, LeaseRecord
<1>8. p \in PeerRecord /\ peer \in [Row -> PeerRecord]
  BY <1>0, <1>1 DEF TypeOK
<1>9. /\ peer'[r] = PresenceUpdate(p, q, p.epoch, p.act, p.retired, u, TRUE, TRUE)
      /\ \A s \in Row \ {r} : peer'[s] = peer[s]
  BY <1>1, <1>3, <1>8
<1>10. /\ peer'[r].until = u /\ peer'[r].seen = q.now
       /\ peer'[r].last = p.last \/ peer'[r].last = q.now
  <2>1. DOMAIN p = {"state", "epoch", "act", "retired", "until", "seen", "last"}
    BY <1>8 DEF PeerRecord
  <2> HIDE DEF p, q
  <2> QED
    BY <1>9, <2>1 DEF PresenceUpdate
<1>11. u = 0 \/ \E m \in Lease : lease'[m].state = "open" /\ lease'[m].row = r /\ lease'[m].expires = u
  BY <1>3, AggregateGranted
<1>12. Done(h) /\ clock' = clock
  BY DEF RenewPresenceLease
<1> QED
  BY <1>1, <1>2, <1>7, <1>9, <1>10, <1>11, <1>12 DEF Serves

LEMMA EndServes ==
  ASSUME PresenceInv, NEW h \in Handler, EndPresenceLease(h)
  PROVE  Serves(h)
<1> DEFINE q == req[h]
           r == q.row
           p == peer[r]
<1>0. TypeOK /\ RequestsSane /\ LeasesSane
  BY DEF PresenceInv
<1>1. q.kind = "end" /\ r \in Row /\ MayEnd(q)
  BY <1>0 DEF EndPresenceLease, RequestsSane
<1>2. AcceptedV2(q) <=> IsCurrent(p, q)
  BY <1>1 DEF AcceptedV2
<1>3. PICK u : /\ ActivePresenceUntil(lease', r, p.epoch, p.act, q.now, u)
               /\ peer' = [peer EXCEPT ![r] =
                             PresenceUpdate(p, q, p.epoch, p.act, p.retired, u,
                                            IsCurrent(p, q), FALSE)]
  BY DEF EndPresenceLease
<1>4. /\ q.lease \in Lease /\ lease[q.lease].state \in {"open", "ended"}
      /\ lease' = [lease EXCEPT ![q.lease].state = "ended"]
  BY <1>1 DEF MayEnd, Matches, EndPresenceLease, EndOne
<1>7. \A m \in Lease : lease'[m].state # "free" =>
        /\ lease[m].state # "free"
        /\ lease'[m].row = lease[m].row /\ lease'[m].expires = lease[m].expires
  BY <1>0, <1>4 DEF TypeOK, LeaseRecord
<1>8. p \in PeerRecord /\ peer \in [Row -> PeerRecord]
  BY <1>0, <1>1 DEF TypeOK
<1>9. /\ peer'[r] = PresenceUpdate(p, q, p.epoch, p.act, p.retired, u, IsCurrent(p, q), FALSE)
      /\ \A s \in Row \ {r} : peer'[s] = peer[s]
  BY <1>1, <1>3, <1>8
<1>10. /\ peer'[r].until = u /\ peer'[r].last = p.last
       /\ peer'[r].seen = IF IsCurrent(p, q) THEN q.now ELSE p.seen
  <2>1. DOMAIN p = {"state", "epoch", "act", "retired", "until", "seen", "last"}
    BY <1>8 DEF PeerRecord
  <2> HIDE DEF p, q
  <2> QED
    BY <1>9, <2>1 DEF PresenceUpdate
<1>11. u = 0 \/ \E m \in Lease : lease'[m].state = "open" /\ lease'[m].row = r /\ lease'[m].expires = u
  BY <1>3, AggregateGranted
<1>12. Done(h) /\ clock' = clock
  BY DEF EndPresenceLease
<1> QED
  BY <1>1, <1>2, <1>7, <1>9, <1>10, <1>11, <1>12 DEF Serves

LEMMA DeactivateServes ==
  ASSUME PresenceInv, NEW h \in Handler, DeactivatePresenceActivation(h)
  PROVE  Serves(h)
<1> DEFINE q == req[h]
           r == q.row
           p == peer[r]
<1>0. TypeOK /\ RequestsSane
  BY DEF PresenceInv
<1>1. q.kind = "deactivate" /\ r \in Row /\ MayDeactivate(q)
  BY <1>0 DEF DeactivatePresenceActivation, RequestsSane
<1>2. AcceptedV2(q)
  BY <1>1 DEF AcceptedV2
<1>3. /\ peer' = [peer EXCEPT ![r] =
                    PresenceUpdate(p, q, q.epoch, q.act, TRUE, 0, TRUE, FALSE)]
      /\ lease' = EndAll(r)
  BY DEF DeactivatePresenceActivation
<1>7. \A m \in Lease : lease'[m].state # "free" =>
        /\ lease[m].state # "free"
        /\ lease'[m].row = lease[m].row /\ lease'[m].expires = lease[m].expires
  BY <1>0, <1>1, <1>3, EndAllType DEF Unended
<1>8. p \in PeerRecord /\ peer \in [Row -> PeerRecord]
  BY <1>0, <1>1 DEF TypeOK
<1>9. /\ peer'[r] = PresenceUpdate(p, q, q.epoch, q.act, TRUE, 0, TRUE, FALSE)
      /\ \A s \in Row \ {r} : peer'[s] = peer[s]
  BY <1>1, <1>3, <1>8
<1>10. peer'[r].until = 0 /\ peer'[r].last = p.last /\ peer'[r].seen = q.now
  <2>1. DOMAIN p = {"state", "epoch", "act", "retired", "until", "seen", "last"}
    BY <1>8 DEF PeerRecord
  <2> HIDE DEF p, q
  <2> QED
    BY <1>9, <2>1 DEF PresenceUpdate
<1>12. Done(h) /\ clock' = clock
  BY DEF DeactivatePresenceActivation
<1> QED
  BY <1>1, <1>2, <1>7, <1>9, <1>10, <1>12 DEF Serves

LEMMA LegacyServes ==
  ASSUME PresenceInv, NEW h \in Handler, LegacyReport(h)
  PROVE  Serves(h)
<1> DEFINE q == req[h]
           r == q.row
<1>0. TypeOK /\ RequestsSane
  BY DEF PresenceInv
<1>1. q.kind \in LegacyKinds /\ q.kind # "idle" /\ r \in Row /\ Present(r)
  BY <1>0 DEF LegacyReport, RequestsSane, LegacyKinds
<1>2. AcceptedContact(q) /\ ~AcceptedV2(q)
  BY <1>1 DEF AcceptedContact, AcceptedV2, LegacyKinds
<1>3. peer' = [peer EXCEPT ![r].last = q.now] /\ lease' = lease /\ Done(h) /\ clock' = clock
  BY DEF LegacyReport
<1>4. peer[r] \in PeerRecord /\ peer \in [Row -> PeerRecord]
  BY <1>0, <1>1 DEF TypeOK
<1>5. /\ peer'[r].until = peer[r].until /\ peer'[r].last = q.now /\ peer'[r].seen = peer[r].seen
      /\ \A s \in Row \ {r} : peer'[s] = peer[s]
  BY <1>1, <1>3, <1>4 DEF PeerRecord
<1> QED
  BY <1>1, <1>2, <1>3, <1>5 DEF Serves

\* A refused request changes nothing and is not recorded.
LEMMA RejectServes ==
  ASSUME PresenceInv, NEW h \in Handler, Reject(h)
  PROVE  Serves(h)
<1>0. TypeOK /\ RequestsSane
  BY DEF PresenceInv
<1>1. req[h].kind # "idle" /\ req[h].row \in Row
  BY <1>0 DEF Reject, RequestsSane, LegacyKinds
<1>2. ~AcceptedV2(req[h])
  BY DEF Reject, AcceptedV2, LegacyKinds
<1>3. peer' = peer /\ lease' = lease /\ clock' = clock /\ Done(h)
  BY DEF Reject
<1> QED
  BY <1>1, <1>2, <1>3 DEF Serves

-----------------------------------------------------------------------------
\* A transaction of handler h is what the history records.
LEMMA ServedRecorded ==
  ASSUME TypeOK, NEW h \in Handler, Serves(h), HNext, NEW r \in Row
  PROVE  /\ v2At'[r] = IF r = req[h].row /\ AcceptedV2(req[h])
                         THEN Later(v2At[r], req[h].now) ELSE v2At[r]
         /\ contactAt'[r] = IF r = req[h].row /\ AcceptedContact(req[h])
                              THEN Later(contactAt[r], req[h].now) ELSE contactAt[r]
<1>1. \A g \in Handler : req[g].kind # "idle" /\ req'[g] = Idle <=> g = h
  BY DEF Serves, Done, TypeOK, Idle
<1> DEFINE v2 == {g \in Handler : /\ req[g].kind # "idle" /\ req'[g] = Idle
                                  /\ req[g].row = r /\ AcceptedV2(req[g])}
           contact == {g \in Handler : /\ req[g].kind # "idle" /\ req'[g] = Idle
                                       /\ req[g].row = r /\ AcceptedContact(req[g])}
<1>2. v2 = IF r = req[h].row /\ AcceptedV2(req[h]) THEN {h} ELSE {}
  BY <1>1
<1>3. contact = IF r = req[h].row /\ AcceptedContact(req[h]) THEN {h} ELSE {}
  BY <1>1
<1>4. v2At'[r] = IF v2 = {} THEN v2At[r] ELSE Later(v2At[r], req[CHOOSE g \in v2 : TRUE].now)
  BY DEF HNext, Record
<1>5. contactAt'[r] = IF contact = {} THEN contactAt[r]
                      ELSE Later(contactAt[r], req[CHOOSE g \in contact : TRUE].now)
  BY DEF HNext, Record
<1>6. (CHOOSE g \in {h} : TRUE) = h
  OBVIOUS
<1> HIDE DEF v2, contact
<1> QED
  BY <1>2, <1>3, <1>4, <1>5, <1>6

\* Nothing is recorded while no handler answers.
LEMMA NothingRecorded ==
  ASSUME HNext, \A g \in Handler : req[g].kind # "idle" => req'[g] # Idle, NEW r \in Row
  PROVE  v2At'[r] = v2At[r] /\ contactAt'[r] = contactAt[r]
<1>1. {g \in Handler : /\ req[g].kind # "idle" /\ req'[g] = Idle
                       /\ req[g].row = r /\ AcceptedV2(req[g])} = {}
  OBVIOUS
<1>2. {g \in Handler : /\ req[g].kind # "idle" /\ req'[g] = Idle
                       /\ req[g].row = r /\ AcceptedContact(req[g])} = {}
  OBVIOUS
<1> QED
  BY <1>1, <1>2 DEF HNext, Record

LEMMA ServedKeepsHistory ==
  ASSUME PresenceInv, HistoryInv, NEW h \in Handler, Serves(h), HNext,
         lease' \in [Lease -> LeaseRecord], peer' \in [Row -> PeerRecord]
  PROVE  HistoryInv'
<1> DEFINE q == req[h]
           r == q.row
<1>0. TypeOK /\ RequestsSane /\ LeasesSane
  BY DEF PresenceInv
<1>1. /\ q.now \in Nat /\ BaseTime <= q.now /\ q.now <= clock /\ clock <= q.now + MaxDelay
      /\ clock \in Nat /\ clock' = clock /\ r \in Row
      /\ TTL \in Nat /\ MaxDelay \in Nat /\ BaseTime \in Nat /\ BaseTime > 0
  BY <1>0 DEF TypeOK, Request, RequestsSane, HistoryInv, RequestsRecent, Serves
<1>2. \A s \in Row : v2At[s] \in Nat /\ contactAt[s] \in Nat
  BY DEF HistoryInv
<1>3. \A s \in Row :
        /\ v2At'[s] = IF s = r /\ AcceptedV2(q) THEN Later(v2At[s], q.now) ELSE v2At[s]
        /\ contactAt'[s] = IF s = r /\ AcceptedContact(q)
                             THEN Later(contactAt[s], q.now) ELSE contactAt[s]
  BY <1>0, ServedRecorded
<1>4. \A s \in Row : /\ v2At'[s] \in Nat /\ contactAt'[s] \in Nat
                     /\ contactAt[s] <= contactAt'[s]
                     /\ s = r /\ AcceptedContact(q) => q.now <= contactAt'[s]
  BY <1>1, <1>2, <1>3 DEF Later
<1>5. v2At' \in [Row -> Nat] /\ contactAt' \in [Row -> Nat]
  BY <1>4 DEF HNext
<1>6. RequestsRecent'
  <2>1. \A g \in Handler : req'[g] = IF g = h THEN Idle ELSE req[g]
    BY <1>0 DEF Serves, Done, TypeOK
  <2> QED
    BY <1>1, <2>1 DEF RequestsRecent, HistoryInv, Idle
<1>7. SeenFollows'
  <2> SUFFICES ASSUME NEW s \in Row
               PROVE  /\ v2At'[s] <= clock'
                      /\ v2At'[s] > 0 => peer'[s].seen > 0 /\ v2At'[s] <= peer'[s].seen + MaxDelay
    BY DEF SeenFollows
  <2>1. /\ v2At[s] <= clock
        /\ v2At[s] > 0 => peer[s].seen > 0 /\ v2At[s] <= peer[s].seen + MaxDelay
    BY DEF HistoryInv, SeenFollows
  <2>2. CASE s = r /\ AcceptedV2(q)
    <3>1. v2At'[s] <= clock /\ peer'[s].seen = q.now
      BY <1>1, <1>2, <1>3, <2>1, <2>2 DEF Later, Serves
    <3> QED
      BY <1>1, <1>4, <3>1
  <2>3. CASE ~(s = r /\ AcceptedV2(q))
    <3>1. v2At'[s] = v2At[s] /\ peer'[s].seen = peer[s].seen
      BY <1>3, <2>3 DEF Serves
    <3> QED
      BY <1>1, <2>1, <3>1
  <2> QED
    BY <2>2, <2>3
<1>8. ASSUME NEW l \in Lease, lease'[l].state # "free"
      PROVE  lease'[l].row \in Row /\ lease'[l].expires <= contactAt'[lease'[l].row] + TTL
  <2>1. CASE AcceptedContact(q) /\ lease'[l].row = r /\ lease'[l].expires = q.now + TTL
    BY <1>1, <1>4, <2>1
  <2>2. CASE /\ lease[l].state # "free"
             /\ lease'[l].row = lease[l].row /\ lease'[l].expires = lease[l].expires
    <3>1. lease[l].row \in Row /\ lease[l].expires \in Nat
      BY <1>0, <2>2 DEF TypeOK, LeaseRecord, LeasesSane
    <3>2. lease[l].expires <= contactAt[lease[l].row] + TTL
      BY <2>2 DEF HistoryInv, GrantedByContact
    <3> HIDE DEF q
    <3> QED
      BY <1>1, <1>2, <1>4, <2>2, <3>1, <3>2
  <2> QED
    BY <1>8, <2>1, <2>2 DEF Serves
<1>9. ASSUME NEW s \in Row
      PROVE  peer'[s].until <= contactAt'[s] + TTL /\ peer'[s].last <= contactAt'[s]
  <2>0. /\ peer[s].until \in Nat /\ peer[s].last \in Nat
        /\ peer[s].until <= contactAt[s] + TTL /\ peer[s].last <= contactAt[s]
    BY <1>0 DEF TypeOK, PeerRecord, HistoryInv, GrantedByContact
  <2>1. CASE s # r
    BY <1>1, <1>2, <1>4, <2>0, <2>1 DEF Serves
  <2>2. CASE s = r
    <3>1. peer'[s].last <= contactAt'[s]
      BY <1>1, <1>2, <1>4, <2>0, <2>2 DEF Serves
    <3>2. CASE peer'[r].until \in {0, peer[r].until}
      BY <1>1, <1>2, <1>4, <2>0, <2>2, <3>1, <3>2
    <3>3. CASE \E l \in Lease : /\ lease'[l].state = "open" /\ lease'[l].row = r
                                /\ lease'[l].expires = peer'[r].until
      BY <1>8, <2>2, <3>1, <3>3
    <3> QED
      BY <3>2, <3>3 DEF Serves
  <2> QED
    BY <2>1, <2>2
<1> QED
  BY <1>5, <1>6, <1>7, <1>8, <1>9 DEF HistoryInv, GrantedByContact

\* A step of nobody's request, whose row and leases keep what the history says.
LEMMA QuietKeepsHistory ==
  ASSUME PresenceInv, HistoryInv, HNext,
         \A g \in Handler : req[g].kind # "idle" => req'[g] # Idle,
         RequestsRecent', clock <= clock', clock' \in Nat,
         \A r \in Row : /\ peer'[r].until = peer[r].until /\ peer'[r].last = peer[r].last
                        /\ peer'[r].seen = peer[r].seen,
         \A l \in Lease : lease'[l].state # "free" =>
           /\ lease[l].state # "free"
           /\ lease'[l].row = lease[l].row /\ lease'[l].expires = lease[l].expires
  PROVE  HistoryInv'
<1>0. TypeOK /\ LeasesSane
  BY DEF PresenceInv
<1>1. \A r \in Row : v2At'[r] = v2At[r] /\ contactAt'[r] = contactAt[r]
  BY NothingRecorded
<1>2. v2At' \in [Row -> Nat] /\ contactAt' \in [Row -> Nat]
  BY <1>1 DEF HNext, HistoryInv
<1>3. SeenFollows'
  BY <1>0, <1>1 DEF SeenFollows, HistoryInv, TypeOK
<1>4. GrantedByContact'
  <2>1. \A l \in Lease : lease[l].state # "free" => lease[l].row \in Row
    BY <1>0 DEF TypeOK, LeaseRecord, LeasesSane
  <2> QED
    BY <1>1, <2>1 DEF GrantedByContact, HistoryInv
<1> QED
  BY <1>2, <1>3, <1>4 DEF HistoryInv

LEMMA HistoryNext ==
  ASSUME PresenceInv, HistoryInv, [HNext]_hvars
  PROVE  HistoryInv'
<1>0. /\ TypeOK /\ RequestsSane /\ RowsSane
      /\ HistoryInv
  BY DEF PresenceInv
<1>1. PresenceInv'
  BY NextInv DEF HNext, hvars
<1>2. lease' \in [Lease -> LeaseRecord] /\ peer' \in [Row -> PeerRecord] /\ clock' \in Nat
  BY <1>1 DEF PresenceInv, TypeOK
<1>3. peer \in [Row -> PeerRecord] /\ lease \in [Lease -> LeaseRecord] /\ clock \in Nat
  BY <1>0 DEF TypeOK
<1>4. CASE UNCHANGED hvars
  BY <1>0, <1>4 DEF hvars, vars, HistoryInv, RequestsRecent, SeenFollows, GrantedByContact
<1> SUFFICES ASSUME HNext PROVE HistoryInv'
  BY <1>4
<1>5. ASSUME NEW h \in Handler, HandlerStep(h)
      PROVE  HistoryInv'
  <2>1. Serves(h)
    BY <1>5, StartServes, RenewServes, EndServes, DeactivateServes, LegacyServes, RejectServes
    DEF HandlerStep
  <2> QED
    BY <1>0, <1>2, <2>1, ServedKeepsHistory
<1>6. ASSUME NEW h \in Handler, ClientStep(h)
      PROVE  HistoryInv'
  <2>1. PICK q : /\ q.kind # "idle" /\ q.now = clock
                 /\ req[h] = Idle /\ req' = [req EXCEPT ![h] = q]
                 /\ UNCHANGED <<clock, peer, lease>>
    BY <1>6 DEF ClientStep, ArriveActivation, ArriveLease, ArriveLegacy, Arrive, Idle,
      ActivationKinds, LeaseKinds, LegacyKinds
  <2>2. \A g \in Handler : req'[g] = IF g = h THEN q ELSE req[g]
    BY <1>0, <2>1 DEF TypeOK
  <2>3. \A g \in Handler : req[g].kind # "idle" => req'[g] # Idle
    BY <2>1, <2>2 DEF Idle
  <2>4. RequestsRecent'
    BY <1>0, <1>3, <2>1, <2>2 DEF HistoryInv, RequestsRecent
  <2> QED
    BY <1>0, <1>2, <1>3, <2>1, <2>3, <2>4, QuietKeepsHistory
<1>7. ASSUME NEW r \in Row, CreatePeer(r)
      PROVE  HistoryInv'
  <2>1. /\ UNCHANGED <<clock, lease, req>>
        /\ peer' = [peer EXCEPT ![r].state = "present"]
    BY <1>7 DEF CreatePeer
  <2>2. \A s \in Row : /\ peer'[s].until = peer[s].until /\ peer'[s].last = peer[s].last
                       /\ peer'[s].seen = peer[s].seen
    BY <1>3, <2>1 DEF PeerRecord
  <2>3. RequestsRecent' /\ \A g \in Handler : req[g].kind # "idle" => req'[g] # Idle
    BY <1>0, <2>1 DEF HistoryInv, RequestsRecent, Idle
  <2> QED
    BY <1>0, <1>2, <1>3, <2>1, <2>2, <2>3, QuietKeepsHistory
<1>8. ASSUME (\E r \in Row : DeleteLeases(r)) \/ DeleteRollback \/ Cleanup
      PROVE  HistoryInv'
  <2>1. UNCHANGED <<clock, peer, req>>
    BY <1>8 DEF DeleteLeases, DeleteRollback, Cleanup
  <2>2. \A l \in Lease : /\ lease'[l].state # "free" => lease[l].state # "free"
                         /\ lease'[l].row = lease[l].row /\ lease'[l].expires = lease[l].expires
    BY <1>3, <1>8 DEF DeleteLeases, DeleteRollback, Cleanup, LeaseRecord
  <2>3. RequestsRecent' /\ \A g \in Handler : req[g].kind # "idle" => req'[g] # Idle
    BY <1>0, <2>1 DEF HistoryInv, RequestsRecent, Idle
  <2> QED
    BY <1>0, <1>2, <1>3, <2>1, <2>2, <2>3, QuietKeepsHistory
<1>9. CASE DeleteCommit
  <2>1. /\ UNCHANGED <<clock, req>> /\ deleting \in Row
        /\ peer' = [peer EXCEPT ![deleting].state = "deleted"]
    BY <1>0, <1>9 DEF DeleteCommit, TypeOK
  <2>2. \A l \in Lease : /\ lease'[l].state # "free" => lease[l].state # "free" \/ l \in doomed
                         /\ lease'[l].row = lease[l].row /\ lease'[l].expires = lease[l].expires
    BY <1>3, <1>9 DEF DeleteCommit, LeaseRecord
  <2>3. \A l \in doomed : lease[l].state # "free"
    BY <1>0, <2>1 DEF PresenceInv, LeasesSane, TypeOK
  <2>4. \A s \in Row : /\ peer'[s].until = peer[s].until /\ peer'[s].last = peer[s].last
                       /\ peer'[s].seen = peer[s].seen
    BY <1>3, <2>1 DEF PeerRecord
  <2>5. RequestsRecent' /\ \A g \in Handler : req[g].kind # "idle" => req'[g] # Idle
    BY <1>0, <2>1 DEF HistoryInv, RequestsRecent, Idle
  <2> QED
    BY <1>0, <1>2, <1>3, <2>1, <2>2, <2>3, <2>4, <2>5, QuietKeepsHistory
<1>10. CASE Tick
  <2>1. UNCHANGED <<peer, lease, req>> /\ clock' = clock + 1
    BY <1>10 DEF Tick
  <2>2. \A h \in Handler : req[h].now \in Nat
    BY <1>0 DEF TypeOK, Request
  <2>3. RequestsRecent'
    BY <1>0, <1>3, <1>10, <2>1, <2>2 DEF Tick, HistoryInv, RequestsRecent
  <2>4. \A g \in Handler : req[g].kind # "idle" => req'[g] # Idle
    BY <2>1 DEF Idle
  <2> QED
    BY <1>0, <1>2, <1>3, <2>1, <2>3, <2>4, QuietKeepsHistory
<1> QED
  BY <1>5, <1>6, <1>7, <1>8, <1>9, <1>10 DEF HNext, Next

LEMMA HistoryInit == HInit => PresenceInv /\ HistoryInv
<1> SUFFICES ASSUME HInit PROVE PresenceInv /\ HistoryInv
  OBVIOUS
<1>1. PresenceInv
  BY InitInv DEF HInit
<1>2. HistoryInv
  BY DEF HInit, Init, HistoryInv, RequestsRecent, SeenFollows, GrantedByContact,
    Idle, FreshPeer, FreeLease
<1> QED
  BY <1>1, <1>2

\* A queued request is at most MaxDelay old, and whatever shows a peer online
\* was granted by a contact.
THEOREM HistoryInvariant == HSpec => [](PresenceInv /\ HistoryInv)
<1>1. PresenceInv /\ HistoryInv /\ [HNext]_hvars => (PresenceInv /\ HistoryInv)'
  BY NextInv, HistoryNext DEF HNext, hvars
<1> QED
  BY <1>1, HistoryInit, PTL DEF HSpec

\* A peer shown online was heard from within the TTL or the legacy window.
THEOREM OnlineHadContact == HSpec => []OnlineMeansRecentContact
<1>1. PresenceInv /\ HistoryInv => OnlineMeansRecentContact
  <2> SUFFICES ASSUME PresenceInv, HistoryInv, NEW r \in Row, Online(r)
               PROVE  contactAt[r] + TTL > clock \/ contactAt[r] + LegacyWindow > clock
    BY DEF OnlineMeansRecentContact
  <2>1. /\ peer[r].until \in Nat /\ peer[r].last \in Nat /\ clock \in Nat /\ contactAt[r] \in Nat
        /\ peer[r].until <= contactAt[r] + TTL /\ peer[r].last <= contactAt[r]
        /\ TTL \in Nat /\ LegacyWindow \in Nat
    BY DEF PresenceInv, TypeOK, PeerRecord, HistoryInv, GrantedByContact
  <2>2. peer[r].until > clock \/ peer[r].last > clock - LegacyWindow
    BY DEF Online, IsOnlineAt
  <2> QED
    BY <2>1, <2>2
<1> QED
  BY <1>1, HistoryInvariant, PTL

\* For the fallback window after v2 activity the leases alone decide.
THEOREM LeasesHaveAuthority == HSpec => []AuthorityWithinDelay
<1>1. PresenceInv /\ HistoryInv => AuthorityWithinDelay
  <2> SUFFICES ASSUME PresenceInv, HistoryInv, NEW r \in Row, Present(r), v2At[r] > 0,
                      clock + MaxDelay <= v2At[r] + Fallback
               PROVE  Online(r) <=> peer[r].until > clock
    BY DEF AuthorityWithinDelay
  <2>1. /\ peer[r].seen \in Nat /\ clock \in Nat /\ v2At[r] \in Nat
        /\ peer[r].seen > 0 /\ v2At[r] <= peer[r].seen + MaxDelay
        /\ Fallback \in Nat /\ MaxDelay \in Nat
    BY DEF PresenceInv, TypeOK, PeerRecord, HistoryInv, SeenFollows
  <2>2. clock - peer[r].seen <= Fallback
    BY <2>1
  <2> QED
    BY <2>1, <2>2 DEF Online, IsOnlineAt
<1> QED
  BY <1>1, HistoryInvariant, PTL

-----------------------------------------------------------------------------
(* Administrator scopes: rows and grants                                     *)

LEMMA RowsByTable ==
  /\ \A u \in User : RowsOf(u) = Account
  /\ \A i \in Item : RowsOf(i) = ItemRow
  /\ \A x \in Group \cup Coll \cup Peer : RowsOf(x) = Owned
BY AdminScopesAssumption DEF RowsOf

LEMMA RowThere ==
  ASSUME Tables(db), NEW x \in Resource \cup Item, Exists(x)
  PROVE  db[x] \in RowsOf(x)
BY DEF Tables, Exists

\* What becomes of one row, or of several that go.
LEMMA TablesExcept ==
  ASSUME Tables(db), NEW x \in Resource \cup Item, NEW v \in RowsOf(x) \cup {Unused, Gone},
         db' = [db EXCEPT ![x] = v]
  PROVE  Tables(db)' /\ \A y \in Resource \cup Item : db'[y] = IF y = x THEN v ELSE db[y]
<1>1. DOMAIN db = Resource \cup Item
  BY DEF Tables
<1>2. \A y \in Resource \cup Item : db'[y] = IF y = x THEN v ELSE db[y]
  BY <1>1
<1>3. db' = [y \in Resource \cup Item |-> db'[y]]
  BY <1>1
<1>4. \A y \in Resource \cup Item : db'[y] \in RowsOf(y) \cup {Unused, Gone}
  BY <1>2 DEF Tables
<1> QED
  BY <1>2, <1>3, <1>4 DEF Tables

LEMMA TablesRemoved ==
  ASSUME Tables(db), NEW xs, db' = Removed(xs)
  PROVE  Tables(db)' /\ \A y \in Resource \cup Item : db'[y] = IF y \in xs THEN Gone ELSE db[y]
<1>1. DOMAIN db = Resource \cup Item
  BY DEF Tables
<1>2. \A y \in Resource \cup Item : db'[y] = IF y \in xs THEN Gone ELSE db[y]
  BY <1>1 DEF Removed
<1>3. db' = [y \in Resource \cup Item |-> db'[y]]
  BY <1>1 DEF Removed
<1>4. \A y \in Resource \cup Item : db'[y] \in RowsOf(y) \cup {Unused, Gone}
  BY <1>2 DEF Tables
<1> QED
  BY <1>2, <1>3, <1>4 DEF Tables

LEMMA RoleThere ==
  ASSUME Tables(db), NEW u \in User
  PROVE  /\ RoleOf(u) \in Role => db[u] \in Account /\ Exists(u) /\ db[u].role = RoleOf(u)
         /\ RoleOf(u) \in Role \cup {"none"} /\ (Exists(u) <=> RoleOf(u) # "none")
<1>1. u \in Resource \cup Item /\ RowsOf(u) = Account
  BY RowsByTable DEF Resource
<1>2. Exists(u) => db[u] \in Account
  BY <1>1, RowThere
<1>3. Exists(u) => db[u].role \in Role
  BY <1>2 DEF Account
<1> QED
  BY <1>2, <1>3 DEF RoleOf, Role

\* Whoever is managed is in some table; and what a handler may manage is remembered.
LEMMA ManagedThere ==
  ASSUME grants \subseteq User \X Resource, NEW a, NEW x, Manages(a, x)
  PROVE  x \in Resource
BY DEF Manages, Resource

LEMMA ReachGrows ==
  ASSUME reach \in [AdminRequest -> SUBSET Resource], Remember
  PROVE  /\ reach' \in [AdminRequest -> SUBSET Resource]
         /\ \A r \in AdminRequest : Busy(r)' =>
              /\ reach[r] \subseteq reach'[r]
              /\ ~op'[r].super => {x \in Resource : Manages(op[r].actor, x)'} \subseteq reach'[r]
<1>1. \A r \in AdminRequest : Within(r)' \subseteq Resource
  BY DEF Within
<1>2. \A r \in AdminRequest : reach'[r] = IF Busy(r)' THEN reach[r] \cup Within(r)' ELSE {}
  BY DEF Remember
<1>3. reach' \in [AdminRequest -> SUBSET Resource]
  BY <1>1 DEF Remember
<1>4. ASSUME NEW r \in AdminRequest, Busy(r)'
      PROVE  /\ reach[r] \subseteq reach'[r]
             /\ ~op'[r].super => {x \in Resource : Manages(op[r].actor, x)'} \subseteq reach'[r]
  BY <1>2, <1>4 DEF Within
<1> QED
  BY <1>3, <1>4

-----------------------------------------------------------------------------
(* Steps of the requests                                                    *)

\* Grants stay with scoped administrators and on what exists, if whoever changes
\* roles and whatever goes takes the grants along and is no target of a replacement.
LEMMA DataStep ==
  ASSUME ScopesInv, Tables(db)', grants' \subseteq grants,
         \A r \in AdminRequest : op'[r].pc \in {"validate", "commit"} => op'[r] = op[r],
         \A u \in User : RoleOf(u)' # RoleOf(u) =>
           /\ ~Locked(u)
           /\ \A g \in grants' : g[1] # u /\ (Serializable => g[2] # u),
         \A x \in Resource \ User : Exists(x) /\ ~Exists(x)' => \A g \in grants' : g[2] # x
  PROVE  TargetsHeld' /\ GrantHolders' /\ (Serializable => GrantsConcrete)'
<1>1. grants \subseteq User \X Resource
  BY DEF ScopesInv, ScopesTyped
<1>2. GrantHolders'
  <2>1. ASSUME NEW g \in grants' PROVE RoleOf(g[1])' = "admin"
    <3>1. g \in grants /\ g[1] \in User /\ RoleOf(g[1]) = "admin"
      BY <1>1, <2>1 DEF ScopesInv, GrantHolders
    <3> QED
      BY <2>1, <3>1
  <2> QED
    BY <2>1 DEF GrantHolders
<1>3. ASSUME Serializable PROVE GrantsConcrete'
  <2>1. ASSUME NEW g \in grants'
        PROVE  IF g[2] \in User THEN RoleOf(g[2])' = "user" ELSE Exists(g[2])'
    <3>1. g \in grants /\ g[2] \in Resource
      BY <1>1, <2>1
    <3>2. IF g[2] \in User THEN RoleOf(g[2]) = "user" ELSE Exists(g[2])
      BY <1>3, <3>1 DEF ScopesInv, GrantsConcrete, Valid
    <3> QED
      BY <1>3, <2>1, <3>1, <3>2
  <2> QED
    BY <2>1 DEF GrantsConcrete, Valid
<1>4. TargetsHeld'
  <2>1. ASSUME NEW r \in AdminRequest, op'[r].pc \in {"validate", "commit"}
        PROVE  RoleOf(op[r].x)' = "admin"
    <3>1. op'[r] = op[r] /\ op[r].pc \in {"validate", "commit"}
      BY <2>1
    <3>2. RoleOf(op[r].x) = "admin"
      BY <3>1 DEF ScopesInv, TargetsHeld
    <3>3. op[r].x \in User
      BY <3>1 DEF ScopesInv, RequestsFit, AskFits, Busy
    <3>4. Locked(op[r].x)
      BY <3>1 DEF Locked
    <3>5. RoleOf(op[r].x)' = RoleOf(op[r].x) \/ ~Locked(op[r].x)
      <4>1. PICK v \in User : v = op[r].x
        BY <3>3
      <4>2. op'[r].x = v
        BY <3>1, <4>1
      <4>3. RoleOf(v)' = RoleOf(v) \/ ~Locked(v)
        OBVIOUS
      <4> QED
        BY <4>1, <4>2, <4>3 DEF RoleOf, Exists
    <3> QED
      BY <3>2, <3>4, <3>5
  <2> QED
    BY <2>1 DEF TargetsHeld
<1> QED
  BY <1>2, <1>3, <1>4

\* What one request becomes, while the others only see more.
LEMMA RequestStep ==
  ASSUME ScopesInv, Remember, NEW q \in AdminRequest,
         NEW f \in Pending \cup {New, Answered}, op' = [op EXCEPT ![q] = f],
         f.pc \notin {"new", "done"} => AskFits(f),
         Asking(q)'
  PROVE  /\ reach' \in [AdminRequest -> SUBSET Resource]
         /\ RequestsFit' /\ \A r \in AdminRequest : Asking(r)'
<1>1. /\ reach \in [AdminRequest -> SUBSET Resource]
      /\ op \in [AdminRequest -> Pending \cup {New, Answered}]
  BY DEF ScopesInv, ScopesTyped, RequestsFit
<1>2. /\ op'[q] = f /\ \A r \in AdminRequest \ {q} : op'[r] = op[r]
      /\ op' \in [AdminRequest -> Pending \cup {New, Answered}]
  BY <1>1
<1>3. RequestsFit'
  <2>1. ASSUME NEW r \in AdminRequest, op'[r].pc \notin {"new", "done"}
        PROVE  AskFits(op'[r])
    <3>1. CASE r = q
      BY <1>2, <2>1, <3>1
    <3>2. CASE r # q
      BY <1>2, <2>1, <3>2 DEF ScopesInv, RequestsFit, Busy
    <3> QED
      BY <3>1, <3>2
  <2> QED
    BY <1>2, <2>1 DEF RequestsFit, Busy, AskFits
<1>4. ASSUME NEW r \in AdminRequest, r # q PROVE Asking(r)'
  <2>1. op'[r] = op[r] /\ Asking(r)
    BY <1>2, <1>4 DEF ScopesInv
  <2>2. op[r].pc = "check" => reach[r] \subseteq reach'[r]
    BY <1>1, <2>1, ReachGrows DEF Busy
  <2> QED
    BY <2>1, <2>2 DEF Asking
<1> QED
  BY <1>1, <1>3, <1>4, ReachGrows

LEMMA OthersStep ==
  ASSUME ScopesInv, Remember, op' = op
  PROVE  /\ reach' \in [AdminRequest -> SUBSET Resource]
         /\ RequestsFit' /\ \A r \in AdminRequest : Asking(r)'
<1>1. /\ reach \in [AdminRequest -> SUBSET Resource] /\ RequestsFit
      /\ \A r \in AdminRequest : Asking(r)
  BY DEF ScopesInv, ScopesTyped
<1>2. RequestsFit'
  BY <1>1 DEF RequestsFit, Busy
<1>3. ASSUME NEW r \in AdminRequest PROVE Asking(r)'
  <2>1. op[r].pc = "check" => reach[r] \subseteq reach'[r]
    BY <1>1, ReachGrows DEF Busy
  <2> QED
    BY <1>1, <2>1 DEF Asking
<1> QED
  BY <1>1, <1>2, <1>3, ReachGrows

\* A request that is answered.
LEMMA EndStep ==
  ASSUME ScopesInv, Remember, NEW q \in AdminRequest, End(q)
  PROVE  /\ reach' \in [AdminRequest -> SUBSET Resource]
         /\ RequestsFit' /\ \A r \in AdminRequest : Asking(r)'
         /\ \A r \in AdminRequest : op'[r].pc \in {"validate", "commit"} => op'[r] = op[r]
<1>1. op \in [AdminRequest -> Pending \cup {New, Answered}]
  BY DEF ScopesInv, RequestsFit
<1>2. op' = [op EXCEPT ![q] = Answered] /\ Answered.pc = "done"
  BY DEF End, Answered
<1>3. Asking(q)'
  BY <1>1, <1>2 DEF Asking
<1>4. \A r \in AdminRequest : op'[r].pc \in {"validate", "commit"} => op'[r] = op[r]
  BY <1>1, <1>2
<1> QED
  BY <1>2, <1>3, <1>4, RequestStep

\* The rows, the grants and the requests together.
LEMMA Together ==
  ASSUME Tables(db)', grants' \subseteq User \X Resource,
         reach' \in [AdminRequest -> SUBSET Resource],
         RequestsFit', \A r \in AdminRequest : Asking(r)',
         TargetsHeld', GrantHolders', (Serializable => GrantsConcrete)'
  PROVE  ScopesInv'
BY DEF ScopesInv, ScopesTyped

\* While rows and grants stay, requests go on.
LEMMA SameData ==
  ASSUME ScopesInv, UNCHANGED <<db, grants>>,
         reach' \in [AdminRequest -> SUBSET Resource],
         RequestsFit', \A r \in AdminRequest : Asking(r)',
         \A r \in AdminRequest : op'[r].pc \in {"validate", "commit"} => op'[r] = op[r]
  PROVE  ScopesInv'
<1>1. Tables(db)' /\ grants' \subseteq grants /\ grants' \subseteq User \X Resource
  BY DEF ScopesInv, ScopesTyped, Tables
<1>2. \A u \in User : RoleOf(u)' = RoleOf(u)
  BY DEF RoleOf, Exists
<1>3. \A x : Exists(x)' <=> Exists(x)
  BY DEF Exists
<1>4. TargetsHeld' /\ GrantHolders' /\ (Serializable => GrantsConcrete)'
  BY <1>1, <1>2, <1>3, DataStep
<1> QED
  BY <1>1, <1>4, Together

Sensible(kind, x, put, named) ==
  /\ kind \in {"create", "edit", "touch", "delete", "purge", "replace"}
  /\ x \in Resource \cup Item \cup {None}
  /\ put \in Account \cup Owned \cup ItemRow \cup {None}
  /\ named \subseteq Resource
  /\ kind \in {"create", "edit"} => x \in Resource \cup Item /\ put \in RowsOf(x)
  /\ kind = "edit" => x \in User \cup Coll \cup Item
  /\ kind \in {"touch", "delete"} => x \in Resource \cup Item /\ put = None
  /\ kind = "purge" => x = None /\ put = None /\ named \subseteq Peer
  /\ kind = "replace" => x \in User /\ put = None
  /\ kind \in {"edit", "touch", "delete"} => named = {}

LEMMA ReceiveInv ==
  ASSUME ScopesInv, Remember, NEW r \in AdminRequest, NEW a \in User,
         NEW kind, NEW x, NEW put, NEW batch, NEW named,
         Sensible(kind, x, put, named), batch \in BOOLEAN,
         Receive(r, a, kind, x, put, batch, named)
  PROVE  ScopesInv'
<1> DEFINE f == [pc |-> "find", kind |-> kind, actor |-> a, super |-> RoleOf(a) = "super",
                 x |-> x, put |-> put, batch |-> batch, named |-> named, seen |-> None,
                 checks |-> <<>>]
<1>1. op' = [op EXCEPT ![r] = f] /\ UNCHANGED <<db, grants>>
  BY DEF Receive
<1>2. f \in Pending
  <2>1. (RoleOf(a) = "super") \in BOOLEAN /\ <<>> \in Seq(Question)
    OBVIOUS
  <2> QED
    BY <2>1 DEF Pending, Sensible
<1>3. AskFits(f) /\ f.pc = "find"
  BY DEF AskFits, Sensible
<1> HIDE DEF f
<1>4. op \in [AdminRequest -> Pending \cup {New, Answered}]
  BY DEF ScopesInv, RequestsFit
<1>5. Asking(r)'
  BY <1>1, <1>3, <1>4 DEF Asking
<1>6. \A q \in AdminRequest : op'[q].pc \in {"validate", "commit"} => op'[q] = op[q]
  BY <1>1, <1>3, <1>4
<1>7. /\ reach' \in [AdminRequest -> SUBSET Resource]
      /\ RequestsFit' /\ \A q \in AdminRequest : Asking(q)'
  <2>1. f \in Pending \cup {New, Answered}
    BY <1>2
  <2>2. f.pc \notin {"new", "done"} => AskFits(f)
    BY <1>3
  <2>3. PICK g \in Pending \cup {New, Answered} :
          op' = [op EXCEPT ![r] = g] /\ (g.pc \notin {"new", "done"} => AskFits(g))
    BY <1>1, <2>1, <2>2
  <2> QED
    BY <1>5, <2>3, RequestStep
<1> QED
  BY <1>1, <1>6, <1>7, SameData

LEMMA ItemFormsFit ==
  ASSUME NEW super \in BOOLEAN, NEW table \in {"book", "tag", "rule"},
         NEW f \in ItemForms[super][table]
  PROVE  f \in ItemRow
BY DEF ItemForms

LEMMA AskInv ==
  ASSUME ScopesInv, Remember, NEW r \in AdminRequest, Ask(r)
  PROVE  ScopesInv'
<1>1. PICK a \in User : AskUser(r, a) \/ AskResource(r, a) \/ AskItem(r, a)
  BY DEF Ask
<1>2. /\ User \subseteq Resource /\ Group \subseteq Resource /\ Coll \subseteq Resource
      /\ Peer \subseteq Resource /\ {} \subseteq Resource
      /\ \A u \in User : [owner |-> u] \in Owned /\ [owner |-> None] \in Owned
  BY DEF Resource, Owned
<1>3. CASE AskUser(r, a)
  <2>1. PICK u \in User :
          \/ \E put \in {f \in Account : f.group \in Named} :
               \/ db[u] = Unused /\ Receive(r, a, "create", u, put, FALSE, {})
               \/ Receive(r, a, "edit", u, put, FALSE, {})
          \/ Receive(r, a, "touch", u, None, FALSE, {})
          \/ Receive(r, a, "delete", u, None, FALSE, {})
          \/ \E s \in Scopes : Receive(r, a, "replace", u, None, FALSE, s)
    BY <1>3 DEF AskUser
  <2>2. RowsOf(u) = Account
    BY RowsByTable
  <2>3. ASSUME NEW put \in Account, Receive(r, a, "create", u, put, FALSE, {})
        PROVE  ScopesInv'
    <3>1. Sensible("create", u, put, {})
      BY <1>2, <2>2, <2>3 DEF Sensible
    <3> QED
      BY <3>1, <2>3, ReceiveInv
  <2>4. ASSUME NEW put \in Account, Receive(r, a, "edit", u, put, FALSE, {})
        PROVE  ScopesInv'
    <3>1. Sensible("edit", u, put, {})
      BY <1>2, <2>2, <2>4 DEF Sensible
    <3> QED
      BY <3>1, <2>4, ReceiveInv
  <2>5. CASE Receive(r, a, "touch", u, None, FALSE, {})
    <3>1. Sensible("touch", u, None, {})
      BY <1>2, <2>5 DEF Sensible
    <3> QED
      BY <3>1, <2>5, ReceiveInv
  <2>6. CASE Receive(r, a, "delete", u, None, FALSE, {})
    <3>1. Sensible("delete", u, None, {})
      BY <1>2, <2>6 DEF Sensible
    <3> QED
      BY <3>1, <2>6, ReceiveInv
  <2>7. ASSUME NEW s \in Scopes, Receive(r, a, "replace", u, None, FALSE, s)
        PROVE  ScopesInv'
    <3>1. s \in SUBSET Resource
      BY AdminScopesAssumption
    <3>2. Sensible("replace", u, None, s)
      BY <1>2, <3>1 DEF Sensible
    <3> QED
      BY <2>7, <3>2, ReceiveInv
  <2> QED
    BY <2>1, <2>3, <2>4, <2>5, <2>6, <2>7
<1>4. CASE AskResource(r, a)
  <2>1. ASSUME NEW x \in Group \cup Peer,
               \/ db[x] = Unused /\ Receive(r, a, "create", x, [owner |-> None], FALSE, {})
               \/ Receive(r, a, "touch", x, None, FALSE, {})
               \/ Receive(r, a, "delete", x, None, FALSE, {})
        PROVE  ScopesInv'
    <3>1. RowsOf(x) = Owned /\ x \in Resource
      BY <1>2, RowsByTable
    <3>2. [owner |-> None] \in Owned
      BY DEF Owned
    <3>3. CASE Receive(r, a, "create", x, [owner |-> None], FALSE, {})
      <4>1. Sensible("create", x, [owner |-> None], {})
        BY <1>2, <3>1, <3>2 DEF Sensible
      <4> QED
        BY <3>3, <4>1, ReceiveInv
    <3>4. CASE Receive(r, a, "touch", x, None, FALSE, {})
      <4>1. Sensible("touch", x, None, {})
        BY <1>2, <3>1, <3>4 DEF Sensible
      <4> QED
        BY <4>1, <3>4, ReceiveInv
    <3>5. CASE Receive(r, a, "delete", x, None, FALSE, {})
      <4>1. Sensible("delete", x, None, {})
        BY <1>2, <3>1, <3>5 DEF Sensible
      <4> QED
        BY <4>1, <3>5, ReceiveInv
    <3> QED
      BY <2>1, <3>3, <3>4, <3>5
  <2>2. ASSUME NEW c \in Coll,
               \/ \E u \in User \cap Named :
                    \/ db[c] = Unused /\ Receive(r, a, "create", c, [owner |-> u], FALSE, {})
                    \/ Receive(r, a, "edit", c, [owner |-> u], FALSE, {})
               \/ Receive(r, a, "delete", c, None, FALSE, {})
        PROVE  ScopesInv'
    <3>1. RowsOf(c) = Owned /\ c \in Resource
      BY <1>2, RowsByTable
    <3>2. ASSUME NEW put \in Owned, Receive(r, a, "create", c, put, FALSE, {})
          PROVE  ScopesInv'
      <4>1. Sensible("create", c, put, {})
        BY <1>2, <3>1, <3>2 DEF Sensible
      <4> QED
        BY <4>1, <3>2, ReceiveInv
    <3>3. ASSUME NEW put \in Owned, Receive(r, a, "edit", c, put, FALSE, {})
          PROVE  ScopesInv'
      <4>1. Sensible("edit", c, put, {})
        BY <1>2, <3>1, <3>3 DEF Sensible
      <4> QED
        BY <4>1, <3>3, ReceiveInv
    <3>4. CASE Receive(r, a, "delete", c, None, FALSE, {})
      <4>1. Sensible("delete", c, None, {})
        BY <1>2, <3>1, <3>4 DEF Sensible
      <4> QED
        BY <4>1, <3>4, ReceiveInv
    <3> QED
      BY <1>2, <2>2, <3>2, <3>3, <3>4
  <2>3. ASSUME NEW peers \in (SUBSET Peer) \ {{}},
               Receive(r, a, "purge", None, None, TRUE, peers)
        PROVE  ScopesInv'
    <3>1. Sensible("purge", None, None, peers)
      BY <1>2, <2>3 DEF Sensible
    <3> QED
      BY <3>1, <2>3, ReceiveInv
  <2> QED
    BY <1>4, <2>1, <2>2, <2>3 DEF AskResource
<1>5. CASE AskItem(r, a)
  <2>1. PICK i \in Item :
          \/ \E table \in {"book", "tag", "rule"} : \E f \in ItemForms[RoleOf(a) = "super"][table] :
               \/ /\ db[i] = Unused
                  /\ \/ Receive(r, a, "create", i, f, FALSE, {})
                     \/ /\ table = "book"
                        /\ \/ Receive(r, a, "create", i, f, TRUE, {})
                           \/ \E p \in Peer : Receive(r, a, "create", i, f, TRUE, {p})
               \/ /\ Exists(i) /\ db[i].table = table
                  /\ Receive(r, a, "edit", i, f, FALSE, {})
          \/ Receive(r, a, "delete", i, None, FALSE, {})
    BY <1>5 DEF AskItem
  <2>2. RowsOf(i) = ItemRow
    BY RowsByTable
  <2>3. ASSUME NEW f \in ItemRow, NEW batch \in BOOLEAN, NEW named \in SUBSET Resource,
               Receive(r, a, "create", i, f, batch, named)
        PROVE  ScopesInv'
    <3>1. Sensible("create", i, f, named)
      BY <2>2, <2>3 DEF Sensible
    <3> QED
      BY <3>1, <2>2, <2>3, ReceiveInv
  <2>4. ASSUME NEW f \in ItemRow, Receive(r, a, "edit", i, f, FALSE, {})
        PROVE  ScopesInv'
    <3>1. Sensible("edit", i, f, {})
      BY <1>2, <2>2, <2>4 DEF Sensible
    <3> QED
      BY <3>1, <2>4, ReceiveInv
  <2>5. CASE Receive(r, a, "delete", i, None, FALSE, {})
    <3>1. Sensible("delete", i, None, {})
      BY <1>2, <2>5 DEF Sensible
    <3> QED
      BY <3>1, <2>5, ReceiveInv
  <2>6. ASSUME NEW table \in {"book", "tag", "rule"}, NEW f \in ItemForms[RoleOf(a) = "super"][table],
               \/ /\ db[i] = Unused
                  /\ \/ Receive(r, a, "create", i, f, FALSE, {})
                     \/ /\ table = "book"
                        /\ \/ Receive(r, a, "create", i, f, TRUE, {})
                           \/ \E p \in Peer : Receive(r, a, "create", i, f, TRUE, {p})
               \/ /\ Exists(i) /\ db[i].table = table
                  /\ Receive(r, a, "edit", i, f, FALSE, {})
        PROVE  ScopesInv'
    <3>1. f \in ItemRow
      BY ItemFormsFit
    <3>2. CASE Receive(r, a, "edit", i, f, FALSE, {})
      BY <2>4, <3>1, <3>2
    <3>3. ASSUME NEW batch \in BOOLEAN, NEW named \in SUBSET Resource,
                 Receive(r, a, "create", i, f, batch, named)
          PROVE  ScopesInv'
      BY <2>3, <3>1, <3>3
    <3>4. {} \in SUBSET Resource /\ \A p \in Peer : {p} \in SUBSET Resource
      BY <1>2
    <3> QED
      BY <2>6, <3>2, <3>3, <3>4
  <2> QED
    BY <2>1, <2>5, <2>6
<1> QED
  BY <1>1, <1>3, <1>4, <1>5

-----------------------------------------------------------------------------
(* The questions a handler asks, one after the other                        *)

Plain(s) == s \in Seq(Question) /\ \A i \in 1..Len(s) : s[i][1] # "owner"

LEMMA ConcatChecks ==
  ASSUME NEW s \in Seq(Question), NEW t \in Seq(Question)
  PROVE  /\ s \o t \in Seq(Question)
         /\ OwnersAfter(s) /\ OwnersAfter(t) => OwnersAfter(s \o t)
         /\ Plain(s) /\ Plain(t) => Plain(s \o t)
         /\ \A x : Outstanding(s, x) \/ Outstanding(t, x) => Outstanding(s \o t, x)
<1> DEFINE st == s \o t
<1>1. /\ st \in Seq(Question) /\ Len(st) = Len(s) + Len(t)
      /\ \A i \in 1..Len(st) : st[i] = IF i <= Len(s) THEN s[i] ELSE t[i - Len(s)]
      /\ Len(s) \in Nat /\ Len(t) \in Nat
  BY ConcatProperties
<1>2. /\ \A i \in 1..Len(s) : i \in 1..Len(st) /\ st[i] = s[i]
      /\ \A i \in 1..Len(t) : i + Len(s) \in 1..Len(st) /\ st[i + Len(s)] = t[i]
  BY <1>1
<1>3. \A i \in 1..Len(st) : \/ i \in 1..Len(s) /\ st[i] = s[i]
                            \/ i - Len(s) \in 1..Len(t) /\ st[i] = t[i - Len(s)]
  BY <1>1
<1> HIDE DEF st
<1>4. ASSUME OwnersAfter(s), OwnersAfter(t) PROVE OwnersAfter(st)
  <2>1. ASSUME NEW i \in 1..Len(st), st[i][1] = "owner"
        PROVE  st[i][2] \in Coll \/ (i > 1 /\ st[i - 1] = <<"manage", Personal>>)
    <3>1. CASE i \in 1..Len(s) /\ st[i] = s[i]
      <4>1. s[i][2] \in Coll \/ (i > 1 /\ s[i - 1] = <<"manage", Personal>>)
        BY <1>4, <2>1, <3>1 DEF OwnersAfter
      <4>2. i > 1 => i - 1 \in 1..Len(s)
        BY <1>1, <3>1
      <4> QED
        BY <1>2, <3>1, <4>1, <4>2
    <3>2. CASE i - Len(s) \in 1..Len(t) /\ st[i] = t[i - Len(s)]
      <4>1. PICK j \in 1..Len(t) : j = i - Len(s)
        BY <3>2
      <4>2. t[j][2] \in Coll \/ (j > 1 /\ t[j - 1] = <<"manage", Personal>>)
        BY <1>4, <2>1, <3>2, <4>1 DEF OwnersAfter
      <4>3. j > 1 => i > 1 /\ j - 1 \in 1..Len(t) /\ (j - 1) + Len(s) = i - 1
        BY <1>1, <4>1
      <4> QED
        BY <1>2, <3>2, <4>1, <4>2, <4>3
    <3> QED
      BY <1>3, <3>1, <3>2
  <2> QED
    BY <2>1 DEF OwnersAfter
<1>5. ASSUME Plain(s), Plain(t) PROVE Plain(st)
  BY <1>1, <1>3, <1>5 DEF Plain
<1>6. ASSUME NEW x, Outstanding(s, x) \/ Outstanding(t, x) PROVE Outstanding(st, x)
  <2>1. CASE Outstanding(s, x)
    BY <1>2, <2>1 DEF Outstanding
  <2>2. CASE Outstanding(t, x)
    BY <1>2, <2>2 DEF Outstanding
  <2> QED
    BY <1>6, <2>1, <2>2
<1> QED
  BY <1>1, <1>4, <1>5, <1>6 DEF st

LEMMA PlainOwners ==
  ASSUME NEW s, Plain(s)
  PROVE  s \in Seq(Question) /\ OwnersAfter(s)
BY DEF Plain, OwnersAfter

LEMMA OneCheck ==
  ASSUME NEW q \in Question, q[1] # "owner"
  PROVE  Plain(<<q>>)
BY DEF Plain

LEMMA NoChecks == Plain(<<>>)
BY DEF Plain

LEMMA ManageCheck ==
  ASSUME NEW x \in Resource \cup Item \cup {Personal, None}
  PROVE  Plain(Manage(x)) /\ Outstanding(Manage(x), x)
<1>1. <<"manage", x>> \in Question
  BY DEF Question
<1>2. Outstanding(Manage(x), x)
  BY DEF Outstanding, Manage
<1> QED
  BY <1>1, <1>2, OneCheck DEF Manage

LEMMA IfChecks ==
  ASSUME NEW b \in BOOLEAN, NEW s, b => Plain(s)
  PROVE  Plain(If(b, s)) /\ (b => If(b, s) = s)
BY NoChecks DEF If

\* The next question, and those left.
LEMMA NextCheck ==
  ASSUME NEW s \in Seq(Question), s # <<>>
  PROVE  /\ Head(s) \in Question /\ Tail(s) \in Seq(Question)
         /\ \E i \in 1..Len(s) : s[i] = Head(s)
         /\ \A i \in 1..Len(Tail(s)) : i + 1 \in 1..Len(s) /\ Tail(s)[i] = s[i + 1]
         /\ OwnersAfter(s) =>
              /\ Head(s)[1] = "owner" => Head(s)[2] \in Coll
              /\ Head(s) # <<"manage", Personal>> => OwnersAfter(Tail(s))
         /\ \A x : Outstanding(s, x) =>
              \/ Outstanding(Tail(s), x)
              \/ Head(s) = <<"manage", x>>
              \/ Head(s)[1] = "peers" /\ x \in Head(s)[2]
<1>1. /\ Head(s) \in Question /\ Tail(s) \in Seq(Question)
      /\ Len(s) \in Nat \ {0} /\ Len(Tail(s)) = Len(s) - 1 /\ Head(s) = s[1]
      /\ \A i \in 1..Len(Tail(s)) : Tail(s)[i] = s[i + 1]
  BY HeadTailProperties, EmptySeq
<1> DEFINE t == Tail(s)
           h == Head(s)
<1>2. /\ 1 \in 1..Len(s) /\ s[1] = h
      /\ \A i \in 1..Len(t) : i + 1 \in 1..Len(s) /\ t[i] = s[i + 1]
      /\ \A i \in 1..Len(s) : i = 1 \/ (i - 1 \in 1..Len(t) /\ t[i - 1] = s[i])
  BY <1>1
<1>3. Len(t) \in Nat
  BY <1>1
<1> HIDE DEF t, h
<1>4. ASSUME OwnersAfter(s), h[1] = "owner" PROVE h[2] \in Coll
  BY <1>2, <1>4 DEF OwnersAfter
<1>5. ASSUME OwnersAfter(s), h # <<"manage", Personal>> PROVE OwnersAfter(t)
  <2>1. ASSUME NEW i \in 1..Len(t), t[i][1] = "owner"
        PROVE  t[i][2] \in Coll \/ (i > 1 /\ t[i - 1] = <<"manage", Personal>>)
    <3>1. i + 1 \in 1..Len(s) /\ t[i] = s[i + 1] /\ (i + 1) - 1 = i
      BY <1>2
    <3>2. s[i + 1][2] \in Coll \/ s[(i + 1) - 1] = <<"manage", Personal>>
      BY <1>5, <2>1, <3>1 DEF OwnersAfter
    <3>3. s[i] = <<"manage", Personal>> => i > 1 /\ t[i - 1] = s[i]
      <4>1. i \in 1..Len(s)
        BY <1>2, <1>3, <3>1
      <4>2. s[i] = <<"manage", Personal>> => i # 1
        BY <1>2, <1>5
      <4>3. i # 1 => i > 1 /\ i - 1 \in 1..Len(t)
        BY <1>3
      <4>4. i # 1 => t[i - 1] = s[i]
        BY <1>2, <4>1
      <4> QED
        BY <4>2, <4>3, <4>4
    <3> QED
      BY <3>1, <3>2, <3>3
  <2> QED
    BY <2>1 DEF OwnersAfter
<1>6. ASSUME NEW x, Outstanding(s, x), ~Outstanding(t, x)
      PROVE  h = <<"manage", x>> \/ (h[1] = "peers" /\ x \in h[2])
  <2>1. PICK i \in 1..Len(s) : s[i] = <<"manage", x>> \/ (s[i][1] = "peers" /\ x \in s[i][2])
    BY <1>6 DEF Outstanding
  <2>2. i = 1
    BY <1>2, <1>6, <2>1 DEF Outstanding
  <2> QED
    BY <1>2, <2>1, <2>2
<1> QED
  BY <1>1, <1>2, <1>4, <1>5, <1>6 DEF t, h

\* The row as it will be written is one of the same table.
LEMMA PutFits ==
  ASSUME NEW o \in Pending, AskFits(o), o.kind # "replace", NEW seen,
         o.kind \in {"edit", "touch", "delete"} => seen \in RowsOf(o.x)
  PROVE  /\ o.kind \in {"create", "edit"} => Put(o, seen) \in RowsOf(o.x)
         /\ o.kind \notin {"create", "edit"} => Put(o, seen) = None
         /\ Put(o, seen) \in Account \cup Owned \cup ItemRow \cup {None}
<1>1. CASE o.super \/ o.put = None
  <2>1. Put(o, seen) = o.put
    BY <1>1 DEF Put
  <2> QED
    BY <2>1 DEF AskFits, Pending
<1>2. CASE ~(o.super \/ o.put = None)
  <2>1. o.kind \in {"create", "edit"} /\ o.put \in RowsOf(o.x) /\ o.x \in Resource \cup Item
    BY <1>2 DEF AskFits, Pending
  <2>2. CASE o.x \in User
    <3>1. RowsOf(o.x) = Account /\ o.put \in Account
      BY <2>1, <2>2, RowsByTable
    <3>2. [o.put EXCEPT !.role = "user"] \in Account
      BY <3>1 DEF Account, Role
    <3>3. Put(o, seen) = [o.put EXCEPT !.role = "user"]
      BY <1>2, <2>2 DEF Put
    <3> QED
      BY <2>1, <3>1, <3>2, <3>3
  <2>3. CASE o.x \notin User /\ o.kind = "edit" /\ o.x \in Coll
    <3>1. Put(o, seen) = seen
      BY <1>2, <2>3 DEF Put
    <3>2. seen \in Owned /\ RowsOf(o.x) = Owned
      BY <2>3, RowsByTable
    <3> QED
      BY <2>1, <3>1, <3>2
  <2>4. CASE o.x \notin User \cup Coll /\ o.kind = "edit" /\ o.x \in Item
    <3>1. seen \in ItemRow /\ o.put \in ItemRow /\ RowsOf(o.x) = ItemRow
      BY <2>1, <2>4, RowsByTable
    <3>2. [o.put EXCEPT !.owner = seen.owner, !.coll = seen.coll] \in ItemRow
      BY <3>1 DEF ItemRow
    <3>3. Put(o, seen) = [o.put EXCEPT !.owner = seen.owner, !.coll = seen.coll]
      BY <1>2, <2>4 DEF Put
    <3> QED
      BY <2>1, <3>1, <3>2, <3>3
  <2>5. CASE o.x \notin User /\ ~(o.kind = "edit" /\ o.x \in Coll \cup Item)
    <3>1. Put(o, seen) = o.put
      BY <1>2, <2>5 DEF Put
    <3> QED
      BY <2>1, <3>1 DEF Pending
  <2> QED
    BY <2>2, <2>3, <2>4, <2>5
<1> QED
  BY <1>1, <1>2

\* What the checks of a scoped administrator's request cover.
Covers(o, seen, put, checks) ==
  LET f == [o EXCEPT !.seen = seen, !.put = put] IN
  /\ OwnersAfter(checks)
  /\ (\E i \in 1..Len(checks) : checks[i][1] = "owner") => o.kind = "create" /\ o.x \in Item
  /\ \A x \in Touched(f) \cup Placed(f) : Outstanding(checks, x)
  /\ o.x \in User /\ put # None => put.role = "user"

LEMMA UserCovers ==
  ASSUME NEW o \in Pending, AskFits(o), o.kind # "replace", ~o.super, o.x \in User,
         NEW seen, o.kind # "create" => seen \in Account
  PROVE  /\ UserChecks(o, seen) \in Seq(Question)
         /\ Covers(o, seen, Put(o, seen), UserChecks(o, seen))
<1> DEFINE put == Put(o, seen)
           b == o.kind = "create" \/ (o.kind = "edit" /\ o.put.group # seen.group)
           s == If(o.kind # "create", Manage(o.x))
           t == If(b, Manage(o.put.group))
           f == [o EXCEPT !.seen = seen, !.put = put]
<1>1. o.kind \in {"create", "edit", "touch", "delete"} /\ o.x \in Resource /\ RowsOf(o.x) = Account
      /\ o.x \notin Item
  BY RowsByTable, AdminScopesAssumption DEF Pending, AskFits, Resource
<1>2. o.kind \in {"create", "edit"} => o.put \in Account /\ o.put.group \in Group
  BY <1>1 DEF AskFits, Account
<1>3. put # None => /\ o.kind \in {"create", "edit"}
                    /\ put.group = o.put.group /\ put.role = "user"
  <2>1. put # None => o.put # None /\ put = [o.put EXCEPT !.role = "user"]
    BY <1>1 DEF Put
  <2>2. o.put # None => o.kind \in {"create", "edit"}
    BY <1>1 DEF AskFits
  <2> QED
    BY <1>2, <2>1, <2>2 DEF Account
<1>4. Plain(Manage(o.x)) /\ Outstanding(Manage(o.x), o.x)
  BY <1>1, ManageCheck
<1>5. b => /\ Plain(Manage(o.put.group))
           /\ Outstanding(Manage(o.put.group), o.put.group)
  BY <1>2, ManageCheck DEF Resource
<1>6. Plain(s) /\ (o.kind # "create" => s = Manage(o.x))
  BY <1>4, IfChecks
<1>7. Plain(t) /\ (b => t = Manage(o.put.group))
  BY <1>5, IfChecks
<1>8. /\ f.kind = o.kind /\ f.x = o.x /\ f.put = put /\ f.seen = seen
  BY DEF Pending
<1> DEFINE P == put
<1>9. /\ Touched(f) \subseteq {o.x} /\ (Touched(f) # {} => o.kind # "create")
      /\ \A x \in Placed(f) : x = o.put.group /\ b
  <2>1. Touched(f) \subseteq {o.x} /\ (Touched(f) # {} => o.kind # "create")
    BY <1>1, <1>8 DEF Touched
  <2>2. \A x \in Placed(f) : put # None /\ x = put.group /\ (o.kind = "edit" => x # seen.group)
    BY <1>1, <1>8 DEF Placed
  <2> QED
    BY <1>3, <2>1, <2>2
<1>10. UserChecks(o, seen) = s \o t
  BY DEF UserChecks
<1> HIDE DEF s, t, b, f, put
<1>11. /\ s \o t \in Seq(Question) /\ Plain(s \o t)
       /\ \A x : Outstanding(s, x) \/ Outstanding(t, x) => Outstanding(s \o t, x)
  BY <1>6, <1>7, ConcatChecks DEF Plain
<1>12. \A x \in Touched(f) \cup Placed(f) : Outstanding(s \o t, x)
  BY <1>4, <1>5, <1>6, <1>7, <1>9, <1>11
<1>13. OwnersAfter(s \o t) /\ ~\E i \in 1..Len(s \o t) : (s \o t)[i][1] = "owner"
  BY <1>11, PlainOwners DEF Plain
<1> QED
  BY <1>3, <1>10, <1>11, <1>12, <1>13 DEF Covers, f, put

LEMMA ItemCovers ==
  ASSUME NEW o \in Pending, AskFits(o), o.kind # "replace", ~o.super, o.x \in Item,
         NEW seen, o.kind # "create" => seen \in ItemRow
  PROVE  /\ ItemChecks(o, seen) \in Seq(Question)
         /\ Covers(o, seen, Put(o, seen), ItemChecks(o, seen))
<1> DEFINE put == Put(o, seen)
           coll == IF o.kind = "create" THEN o.put.coll ELSE seen.coll
           b == o.put # None /\ o.put.table = "rule"
           m == Manage(coll)
           n == If(o.kind = "create", << <<"owner", coll>> >>)
           t == If(b, Manage(o.put.to))
           f == [o EXCEPT !.seen = seen, !.put = put]
<1>1. /\ o.kind \in {"create", "edit", "touch", "delete"} /\ o.x \notin Resource
      /\ RowsOf(o.x) = ItemRow
  BY RowsByTable, AdminScopesAssumption DEF Pending, AskFits, Resource
<1>2. /\ o.put # None => o.kind \in {"create", "edit"}
      /\ o.kind \in {"create", "edit"} => o.put \in ItemRow
  BY <1>1 DEF AskFits
<1>3. coll \in Book
  BY <1>2 DEF ItemRow
<1>4. coll \in Resource \cup Item \cup {Personal, None}
  BY <1>3 DEF Book, Resource
<1>5. b => o.put.to \in Resource \cup Item \cup {Personal, None}
  BY <1>2 DEF ItemRow, Resource
<1>6. Plain(m) /\ Outstanding(m, coll)
  BY <1>4, ManageCheck
<1>7. Plain(t) /\ (b => Outstanding(t, o.put.to))
  <2>1. b => Plain(Manage(o.put.to)) /\ Outstanding(Manage(o.put.to), o.put.to)
    BY <1>5, ManageCheck
  <2> QED
    BY <2>1, IfChecks
<1>8. /\ m \o n \in Seq(Question) /\ OwnersAfter(m \o n) /\ Outstanding(m \o n, coll)
      /\ (\E i \in 1..Len(m \o n) : (m \o n)[i][1] = "owner") => o.kind = "create"
  <2>1. CASE o.kind # "create"
    <3>1. n = <<>> /\ m \in Seq(Question)
      BY <1>6, <2>1 DEF If, Plain
    <3>2. m \o n = m
      BY <3>1, ConcatEmptySeq
    <3> QED
      BY <1>6, <3>1, <3>2, PlainOwners DEF Plain
  <2>2. CASE o.kind = "create"
    <3>1. m = << <<"manage", coll>> >> /\ n = << <<"owner", coll>> >>
      BY <2>2 DEF Manage, If
    <3>2. <<"owner", coll>> \in Question /\ <<"manage", coll>> \in Question
      BY <1>4 DEF Question
    <3> HIDE DEF m, n, coll
    <3>4. /\ m \in Seq(Question) /\ n \in Seq(Question)
          /\ Len(m) = 1 /\ Len(n) = 1 /\ m[1] = <<"manage", coll>> /\ n[1] = <<"owner", coll>>
      BY <3>1, <3>2
    <3>3. Len(m \o n) = 2 /\ (m \o n)[1] = <<"manage", coll>> /\ (m \o n)[2] = <<"owner", coll>>
      BY <3>4, ConcatProperties
    <3>5. m \o n \in Seq(Question) /\ Outstanding(m \o n, coll)
      BY <1>6, <3>4, ConcatChecks
    <3>6. (m \o n)[1][1] = "manage" /\ (m \o n)[2][2] = coll
      BY <3>3
    <3>7. coll \in Coll \/ coll = Personal
      BY <1>3 DEF Book
    <3>9. OwnersAfter(m \o n)
      <4>1. ASSUME NEW i \in 1..Len(m \o n), (m \o n)[i][1] = "owner"
            PROVE  (m \o n)[i][2] \in Coll \/ (i > 1 /\ (m \o n)[i - 1] = <<"manage", Personal>>)
        <5>1. i = 2
          BY <3>3, <3>6, <4>1
        <5> QED
          BY <3>3, <3>6, <3>7, <5>1
      <4> QED
        BY <4>1 DEF OwnersAfter
    <3> QED
      BY <2>2, <3>5, <3>9
  <2> QED
    BY <2>1, <2>2
<1>9. /\ f.kind = o.kind /\ f.x = o.x /\ f.put = put /\ f.seen = seen
  BY DEF Pending
<1>10. put # None => /\ o.put # None /\ put.coll = coll /\ put.table = o.put.table
                     /\ put.to = o.put.to
  <2>1. put # None => o.put # None
    BY DEF Put
  <2>2. o.put # None /\ o.kind = "create" => put = o.put
    BY <1>1 DEF Put, Resource
  <2>3. o.put # None /\ o.kind = "edit" =>
          put = [o.put EXCEPT !.owner = seen.owner, !.coll = seen.coll]
    BY <1>1, AdminScopesAssumption DEF Put, Resource
  <2> QED
    BY <1>2, <2>1, <2>2, <2>3 DEF ItemRow
<1>11. \A x \in Touched(f) \cup Placed(f) : x = coll \/ (b /\ x = o.put.to)
  <2>1. \A x \in Touched(f) : x = coll
    <3>0. o.kind # "create" => coll = seen.coll
      OBVIOUS
    <3> HIDE DEF f, coll
    <3>1. CASE o.kind = "create"
      <4>1. Touched(f) = {}
        BY <1>9, <3>1 DEF Touched
      <4> QED
        BY <4>1
    <3>2. CASE o.kind # "create"
      <4>1. Touched(f) = {seen.coll}
        BY <1>1, <1>9, <3>2 DEF Touched
      <4> QED
        BY <3>0, <3>2, <4>1
    <3> QED
      BY <3>1, <3>2
  <2>2. f.x \notin User
    BY <1>1, <1>9 DEF Resource
  <2>3. \A x \in Placed(f) :
          /\ put # None
          /\ x = put.coll \/ (put.table = "rule" /\ x = put.to)
    BY <1>9, <2>2 DEF Placed, Rule
  <2> QED
    BY <1>10, <2>1, <2>3
<1>12. ItemChecks(o, seen) = (m \o n) \o t
  BY DEF ItemChecks
<1>13. o.x \notin User
  BY <1>1 DEF Resource
<1> DEFINE mn == m \o n
<1> HIDE DEF m, n, t, b, f, put, coll, mn
<1>14. mn \in Seq(Question) /\ t \in Seq(Question) /\ OwnersAfter(t)
       /\ ~\E i \in 1..Len(t) : t[i][1] = "owner"
  BY <1>7, <1>8, PlainOwners DEF Plain, mn
<1>15. /\ mn \o t \in Seq(Question) /\ OwnersAfter(mn \o t)
       /\ \A x : Outstanding(mn, x) \/ Outstanding(t, x) => Outstanding(mn \o t, x)
       /\ Plain(mn) => Plain(mn \o t)
  BY <1>7, <1>8, <1>14, ConcatChecks DEF mn
<1>16. (\E i \in 1..Len(mn \o t) : (mn \o t)[i][1] = "owner") => o.kind = "create"
  <2>1. (\E i \in 1..Len(mn) : mn[i][1] = "owner") => o.kind = "create"
    BY <1>8 DEF mn
  <2> QED
    BY <1>14, <1>15, <2>1 DEF Plain
<1>17. \A x \in Touched(f) \cup Placed(f) : Outstanding(mn \o t, x)
  BY <1>7, <1>8, <1>11, <1>15 DEF mn
<1> QED
  BY <1>12, <1>13, <1>15, <1>16, <1>17 DEF Covers, f, put, mn

LEMMA OtherCovers ==
  ASSUME NEW o \in Pending, AskFits(o), o.kind # "replace", ~o.super, o.x \notin User \cup Item,
         NEW seen
  PROVE  LET s == If(o.kind # "purge", Manage(o.x))
         IN  s \in Seq(Question) /\ Covers(o, seen, Put(o, seen), s)
<1> DEFINE put == Put(o, seen)
           s == If(o.kind # "purge", Manage(o.x))
           f == [o EXCEPT !.seen = seen, !.put = put]
<1>1. Plain(Manage(o.x)) /\ Outstanding(Manage(o.x), o.x)
  BY ManageCheck DEF Pending
<1>2. Plain(s) /\ (o.kind # "purge" => s = Manage(o.x))
  BY <1>1, IfChecks
<1>3. /\ f.kind = o.kind /\ f.x = o.x
  BY DEF Pending
<1>4. \A x \in Touched(f) \cup Placed(f) : x = o.x /\ o.kind # "purge"
  BY <1>3 DEF Touched, Placed
<1> HIDE DEF s, f, put
<1>5. s \in Seq(Question) /\ OwnersAfter(s) /\ ~\E i \in 1..Len(s) : s[i][1] = "owner"
  BY <1>2, PlainOwners DEF Plain
<1> QED
  BY <1>1, <1>2, <1>4, <1>5 DEF Covers, f, put, s

\* What everybody's form is checked for covers the devices it names.
LEMMA FormCovers ==
  ASSUME NEW o \in Pending, AskFits(o), o.kind # "replace", NEW put,
         o.kind \in {"create", "edit"} => put \in RowsOf(o.x)
  PROVE  /\ Plain(FormChecks(o, put))
         /\ \A p \in o.named : Outstanding(FormChecks(o, put), p)
<1> DEFINE a == o.x \in Item /\ put.coll # Personal
           s == If(a, << <<"exists", put.coll>> >>)
           t == << <<"peers", o.named>> >>
           b == o.named # {}
           c == o.x \in Item /\ o.put # None /\ o.put.table # "tag" /\ ~o.batch
           u == If(c, << <<"confirm", o.x>> >>)
<1>1. /\ o.x \in Resource \cup Item \cup {None} /\ o.named \subseteq Resource
      /\ o.kind \in {"create", "edit", "touch", "delete", "purge"}
  BY DEF Pending
<1>2. a /\ b => Plain(<< <<"exists", put.coll>> >>)
  <2>1. a /\ b => o.kind = "create"
    BY <1>1, AdminScopesAssumption DEF AskFits
  <2>2. a => RowsOf(o.x) = ItemRow
    BY RowsByTable
  <2>3. a /\ b => put.coll \in Resource \cup Item \cup {Personal, None}
    <3>1. a /\ b => put \in ItemRow
      BY <2>1, <2>2
    <3>2. put \in ItemRow => put.coll \in Coll \cup {Personal}
      BY DEF ItemRow, Book
    <3> QED
      BY <3>1, <3>2 DEF Resource
  <2>4. a /\ b => <<"exists", put.coll>> \in Question
    BY <2>3 DEF Question
  <2> QED
    BY <2>4, OneCheck
<1>3. Plain(t) /\ \A p \in o.named : Outstanding(t, p)
  <2>1. <<"peers", o.named>> \in Question
    BY <1>1 DEF Question
  <2>2. \A p \in o.named : Outstanding(t, p)
    BY DEF Outstanding
  <2> QED
    BY <2>1, <2>2, OneCheck
<1>4. Plain(u)
  <2>1. <<"confirm", o.x>> \in Question
    BY <1>1 DEF Question
  <2>2. Plain(<< <<"confirm", o.x>> >>)
    BY <2>1, OneCheck
  <2> QED
    BY <2>2, IfChecks
<1>5. b => Plain(s)
  BY <1>2, IfChecks
<1>6. FormChecks(o, put) = If(b, s \o t) \o u
  BY DEF FormChecks
<1>7. b \in BOOLEAN /\ \A p \in o.named : b
  OBVIOUS
<1> HIDE DEF a, s, t, b, c, u
<1>8. b => Plain(s \o t) /\ \A p \in o.named : Outstanding(s \o t, p)
  BY <1>3, <1>5, ConcatChecks DEF Plain
<1>9. Plain(If(b, s \o t)) /\ (b => If(b, s \o t) = s \o t)
  BY <1>7, <1>8, IfChecks
<1> DEFINE w == If(b, s \o t)
<1> HIDE DEF w
<1>10. Plain(w) /\ \A p \in o.named : Outstanding(w, p)
  BY <1>7, <1>8, <1>9 DEF w
<1>11. Plain(w \o u) /\ \A p \in o.named : Outstanding(w \o u, p)
  BY <1>4, <1>10, ConcatChecks DEF Plain
<1> QED
  BY <1>6, <1>11 DEF w

\* All that is asked for a request: of its administrator's scope and of its form.
LEMMA AllCovers ==
  ASSUME NEW o \in Pending, AskFits(o), o.kind # "replace", NEW seen,
         o.kind \in {"edit", "touch", "delete"} => seen \in RowsOf(o.x)
  PROVE  LET put == Put(o, seen)
             checks == ScopeChecks(o, seen) \o FormChecks(o, put)
         IN  /\ checks \in Seq(Question) /\ OwnersAfter(checks)
             /\ (\E i \in 1..Len(checks) : checks[i][1] = "owner") =>
                  o.kind = "create" /\ o.x \in Item
             /\ ~o.super => Covers(o, seen, put, checks)
             /\ \A p \in o.named : Outstanding(checks, p)
<1> DEFINE put == Put(o, seen)
           s == ScopeChecks(o, seen)
           t == FormChecks(o, put)
           f == [o EXCEPT !.seen = seen, !.put = put]
<1>1. o.kind \in {"create", "edit"} => put \in RowsOf(o.x)
  BY PutFits
<1>2. Plain(t) /\ \A p \in o.named : Outstanding(t, p)
  BY <1>1, FormCovers
<1>3. o.kind \in {"create", "edit", "touch", "delete", "purge"}
  BY DEF Pending
<1>4. CASE o.super
  <2>1. s = <<>>
    BY <1>4 DEF ScopeChecks
  <2> HIDE DEF s, t, put
  <2>2. Plain(s)
    BY <2>1, NoChecks
  <2>3. Plain(s \o t) /\ \A p \in o.named : Outstanding(s \o t, p)
    BY <1>2, <2>2, ConcatChecks DEF Plain
  <2>4. OwnersAfter(s \o t) /\ ~\E i \in 1..Len(s \o t) : (s \o t)[i][1] = "owner"
    BY <2>3, PlainOwners DEF Plain
  <2> QED
    BY <1>4, <2>3, <2>4 DEF s, t, put, Plain
<1>5. CASE ~o.super
  <2>1. s \in Seq(Question) /\ Covers(o, seen, put, s)
    <3>1. CASE o.x \in User
      <4>1. o.kind # "create" => seen \in Account
        BY <1>3, <3>1, RowsByTable, AdminScopesAssumption DEF AskFits, Resource
      <4>2. s = UserChecks(o, seen)
        BY <1>5, <3>1 DEF ScopeChecks
      <4> QED
        BY <1>5, <3>1, <4>1, <4>2, UserCovers
    <3>2. CASE o.x \in Item
      <4>1. o.kind # "create" => seen \in ItemRow
        BY <1>3, <3>2, RowsByTable, AdminScopesAssumption DEF AskFits
      <4>2. s = ItemChecks(o, seen)
        BY <1>5, <3>2, AdminScopesAssumption DEF ScopeChecks
      <4> QED
        BY <1>5, <3>2, <4>1, <4>2, ItemCovers
    <3>3. CASE o.x \notin User \cup Item
      <4>1. s = If(o.kind # "purge", Manage(o.x))
        BY <1>5, <3>3 DEF ScopeChecks
      <4> QED
        BY <1>5, <3>3, <4>1, OtherCovers
    <3> QED
      BY <3>1, <3>2, <3>3
  <2> HIDE DEF s, t, put
  <2>2. /\ OwnersAfter(s)
        /\ (\E i \in 1..Len(s) : s[i][1] = "owner") => o.kind = "create" /\ o.x \in Item
        /\ \A x \in Touched(f) \cup Placed(f) : Outstanding(s, x)
        /\ o.x \in User /\ put # None => put.role = "user"
    BY <2>1 DEF Covers
  <2> HIDE DEF f
  <2>3. t \in Seq(Question) /\ OwnersAfter(t) /\ ~\E i \in 1..Len(t) : t[i][1] = "owner"
    BY <1>2, PlainOwners DEF Plain
  <2>4. /\ s \o t \in Seq(Question) /\ OwnersAfter(s \o t)
        /\ \A x : Outstanding(s, x) \/ Outstanding(t, x) => Outstanding(s \o t, x)
    BY <2>1, <2>2, <2>3, ConcatChecks
  <2>5. (\E i \in 1..Len(s \o t) : (s \o t)[i][1] = "owner") => o.kind = "create" /\ o.x \in Item
    <3>1. ASSUME NEW i \in 1..Len(s \o t), (s \o t)[i][1] = "owner"
          PROVE  \E j \in 1..Len(s) : s[j][1] = "owner"
      <4>1. CASE i <= Len(s)
        BY <2>1, <2>3, <3>1, <4>1, ConcatProperties
      <4>2. CASE ~(i <= Len(s))
        <5>1. (s \o t)[i] = t[i - Len(s)] /\ i - Len(s) \in 1..Len(t)
          BY <2>1, <2>3, <3>1, <4>2, ConcatProperties
        <5> QED
          BY <2>3, <3>1, <5>1
      <4> QED
        BY <4>1, <4>2
    <3> QED
      BY <2>2, <3>1
  <2>6. /\ \A x \in Touched(f) \cup Placed(f) : Outstanding(s \o t, x)
        /\ \A p \in o.named : Outstanding(s \o t, p)
    BY <1>2, <2>2, <2>4
  <2>7. Covers(o, seen, put, s \o t)
    BY <2>2, <2>4, <2>5, <2>6 DEF Covers, f
  <2> QED
    BY <2>4, <2>5, <2>6, <2>7 DEF s, t, put
<1> QED
  BY <1>4, <1>5

LEMMA FindInv ==
  ASSUME ScopesInv, Remember, NEW r \in AdminRequest, Find(r)
  PROVE  ScopesInv'
<1> DEFINE o == op[r]
           seen == IF o.kind \in {"create", "purge"} THEN None ELSE db[o.x]
           put == Put(o, seen)
           checks == ScopeChecks(o, seen) \o FormChecks(o, put)
           f == [o EXCEPT !.pc = "check", !.seen = seen, !.put = put, !.checks = checks]
<1>1. /\ op \in [AdminRequest -> Pending \cup {New, Answered}]
      /\ reach \in [AdminRequest -> SUBSET Resource] /\ Tables(db)
  BY DEF ScopesInv, RequestsFit, ScopesTyped
<1>2. /\ o.pc = "find" /\ o.kind # "replace" /\ seen \notin {Unused, Gone}
      /\ op' = [op EXCEPT ![r] = f] /\ UNCHANGED <<db, grants>>
  BY <1>1 DEF Find
<1>3. o \in Pending /\ AskFits(o)
  <2>1. o \in Pending
    BY <1>1, <1>2 DEF New, Answered
  <2> QED
    BY <1>2, <2>1 DEF ScopesInv, RequestsFit, Busy
<1>4. o.kind \in {"create", "edit", "touch", "delete", "purge"}
  BY <1>2, <1>3 DEF Pending
<1>5. o.kind \in {"edit", "touch", "delete"} => seen \in RowsOf(o.x)
  <2>1. o.kind \in {"edit", "touch", "delete"} =>
          o.x \in Resource \cup Item /\ seen = db[o.x]
    BY <1>3 DEF AskFits
  <2> QED
    BY <1>1, <1>2, <2>1 DEF Tables
<1>6. seen \in Account \cup Owned \cup ItemRow \cup {None}
  <2>1. o.kind \in {"create", "purge"} => seen = None
    OBVIOUS
  <2> QED
    BY <1>4, <1>5, <2>1 DEF RowsOf
<1> HIDE DEF seen
<1>7. /\ o.kind \in {"create", "edit"} => put \in RowsOf(o.x)
      /\ o.kind \notin {"create", "edit"} => put = None
      /\ put \in Account \cup Owned \cup ItemRow \cup {None}
  BY <1>2, <1>3, <1>5, PutFits
<1>8. /\ checks \in Seq(Question) /\ OwnersAfter(checks)
      /\ (\E i \in 1..Len(checks) : checks[i][1] = "owner") => o.kind = "create" /\ o.x \in Item
      /\ ~o.super => Covers(o, seen, put, checks)
      /\ \A p \in o.named : Outstanding(checks, p)
  BY <1>2, <1>3, <1>5, AllCovers
<1> HIDE DEF put, checks
<1>9. /\ f \in Pending /\ f.pc = "check" /\ f.checks = checks /\ f.seen = seen /\ f.put = put
      /\ f.kind = o.kind /\ f.x = o.x /\ f.super = o.super /\ f.named = o.named
  BY <1>3, <1>6, <1>7, <1>8 DEF Pending
<1>10. AskFits(f)
  BY <1>2, <1>3, <1>7, <1>9 DEF AskFits
<1>11. ~o.super => /\ \A x \in Touched(f) \cup Placed(f) : Outstanding(checks, x)
                   /\ o.x \in User /\ put # None => put.role = "user"
  <2> DEFINE g == [o EXCEPT !.seen = seen, !.put = put]
  <2>1. g.kind = o.kind /\ g.x = o.x /\ g.seen = seen /\ g.put = put
    BY <1>3 DEF Pending
  <2>2. ~o.super => /\ \A x \in Touched(g) \cup Placed(g) : Outstanding(checks, x)
                    /\ o.x \in User /\ put # None => put.role = "user"
    BY <1>8 DEF Covers
  <2> HIDE DEF f, g
  <2>3. Touched(f) = Touched(g) /\ Placed(f) = Placed(g)
    BY <1>9, <2>1 DEF Touched, Placed, Rule
  <2> QED
    BY <2>2, <2>3
<1>12. op'[r] = f
  BY <1>1, <1>2
<1> HIDE DEF f
<1>13. Asking(r)'
  <2>1. OwnersAfter(f.checks)
    BY <1>8, <1>9
  <2>2. (\E i \in 1..Len(f.checks) : f.checks[i][1] = "owner") => f.kind = "create" /\ f.x \in Item
    BY <1>8, <1>9
  <2>3. ~f.super => /\ \A x \in Touched(f) \cup Placed(f) \cup f.named : Outstanding(f.checks, x)
                    /\ f.x \in User /\ f.put # None => f.put.role = "user"
    BY <1>8, <1>9, <1>11
  <2> QED
    BY <1>12, <2>1, <2>2, <2>3 DEF Asking
<1>14. /\ reach' \in [AdminRequest -> SUBSET Resource]
       /\ RequestsFit' /\ \A q \in AdminRequest : Asking(q)'
  <2>1. f \in Pending \cup {New, Answered} /\ (f.pc \notin {"new", "done"} => AskFits(f))
    BY <1>9, <1>10
  <2>2. op' = [op EXCEPT ![r] = f]
    BY <1>2 DEF f
  <2> QED
    BY <1>13, <2>1, <2>2, RequestStep
<1>15. \A q \in AdminRequest : op'[q].pc \in {"validate", "commit"} => op'[q] = op[q]
  <2>1. \A q \in AdminRequest \ {r} : op'[q] = op[q]
    BY <1>1, <1>2
  <2> QED
    BY <1>9, <1>12, <2>1
<1> QED
  BY <1>2, <1>14, <1>15, SameData

\* What is managed while a request goes on is remembered.
LEMMA Remembered ==
  ASSUME ScopesInv, Remember, UNCHANGED <<db, grants>>, NEW r \in AdminRequest,
         Busy(r)', op'[r].actor = op[r].actor, ~op'[r].super,
         NEW x, Manages(op[r].actor, x)
  PROVE  x \in reach'[r]
<1>1. reach \in [AdminRequest -> SUBSET Resource] /\ grants \subseteq User \X Resource
  BY DEF ScopesInv, ScopesTyped
<1>2. x \in Resource
  BY <1>1, ManagedThere
<1>3. Manages(op[r].actor, x)'
  <2> DEFINE a == op[r].actor
  <2>1. op'[r].actor = a
    OBVIOUS
  <2>2. \A y : (Exists(y)' <=> Exists(y)) /\ RoleOf(y)' = RoleOf(y)
    BY DEF RoleOf, Exists
  <2>3. \A u : (RoleOf(u)' = "user" /\ \E y \in {u, db'[u].group} : <<a, y>> \in grants') <=> ManagesUser(a, u)
    BY <2>2 DEF ManagesUser
  <2> QED
    BY <2>1, <2>2 DEF Manages, ManagesPeer, ManagesUser
<1>4. x \in {y \in Resource : Manages(op[r].actor, y)'}
  BY <1>2, <1>3
<1> QED
  BY <1>1, <1>4, ReachGrows

LEMMA CheckInv ==
  ASSUME ScopesInv, Remember, NEW r \in AdminRequest, Check(r)
  PROVE  ScopesInv'
<1> DEFINE o == op[r]
           h == Head(o.checks)
           t == Tail(o.checks)
           put == IF h[1] = "owner" THEN [o.put EXCEPT !.owner = db[h[2]].owner] ELSE o.put
           f == [o EXCEPT !.checks = t, !.put = put]
<1>1. /\ op \in [AdminRequest -> Pending \cup {New, Answered}]
      /\ reach \in [AdminRequest -> SUBSET Resource] /\ Tables(db)
      /\ grants \subseteq User \X Resource
  BY DEF ScopesInv, RequestsFit, ScopesTyped
<1>2. /\ o.pc = "check" /\ o.checks # <<>> /\ Passes(o, h[1], h[2])
      /\ op' = [op EXCEPT ![r] = f] /\ UNCHANGED <<db, grants>>
  BY <1>1 DEF Check
<1>3. o \in Pending /\ AskFits(o) /\ Asking(r)
  <2>1. o \in Pending
    BY <1>1, <1>2 DEF New, Answered
  <2> QED
    BY <1>2, <2>1 DEF ScopesInv, RequestsFit, Busy
<1>4. o.checks \in Seq(Question)
  BY <1>3 DEF Pending
<1>5. /\ OwnersAfter(o.checks)
      /\ (\E i \in 1..Len(o.checks) : o.checks[i][1] = "owner") => o.kind = "create" /\ o.x \in Item
      /\ ~o.super =>
           /\ \A x \in Touched(o) \cup Placed(o) \cup o.named : x \in reach[r] \/ Outstanding(o.checks, x)
           /\ o.x \in User /\ o.put # None => o.put.role = "user"
  BY <1>2, <1>3 DEF Asking
<1>6. /\ h \in Question /\ t \in Seq(Question)
      /\ \E i \in 1..Len(o.checks) : o.checks[i] = h
      /\ \A i \in 1..Len(t) : i + 1 \in 1..Len(o.checks) /\ t[i] = o.checks[i + 1]
      /\ h[1] = "owner" => h[2] \in Coll
      /\ h # <<"manage", Personal>> => OwnersAfter(t)
      /\ \A x : Outstanding(o.checks, x) =>
           \/ Outstanding(t, x)
           \/ h = <<"manage", x>>
           \/ h[1] = "peers" /\ x \in h[2]
  BY <1>2, <1>4, <1>5, NextCheck
<1> HIDE DEF h, t
<1>7. /\ \A x : h = <<"manage", x>> => Manages(o.actor, x)
      /\ h[1] = "peers" /\ ~o.super => \A x \in h[2] : Manages(o.actor, x)
      /\ h[1] = "owner" => Exists(h[2])
  BY <1>2 DEF Passes
<1>8. OwnersAfter(t)
  <2>1. h # <<"manage", Personal>>
    BY <1>1, <1>7, ManagedThere, AdminScopesAssumption
  <2> QED
    BY <1>6, <2>1
<1>9. h[1] = "owner" =>
        /\ o.kind = "create" /\ o.x \in Item /\ o.put \in ItemRow
        /\ put = [o.put EXCEPT !.owner = db[h[2]].owner] /\ db[h[2]].owner \in User \cup {None}
  <2>1. h[1] = "owner" => o.kind = "create" /\ o.x \in Item
    BY <1>5, <1>6
  <2>2. h[1] = "owner" => o.put \in ItemRow
    BY <1>3, <2>1, RowsByTable DEF AskFits
  <2>3. h[1] = "owner" => db[h[2]] \in Owned
    BY <1>1, <1>6, <1>7, RowThere, RowsByTable DEF Resource
  <2> QED
    BY <2>1, <2>2, <2>3 DEF Owned
<1>10. h[1] = "owner" =>
         /\ put \in ItemRow /\ put.coll = o.put.coll /\ put.to = o.put.to /\ put.table = o.put.table
         /\ put # None /\ o.put # None /\ RowsOf(o.x) = ItemRow /\ o.x \notin User
  <2>1. h[1] = "owner" =>
          put \in ItemRow /\ put.coll = o.put.coll /\ put.to = o.put.to /\ put.table = o.put.table
    BY <1>9 DEF ItemRow
  <2>2. h[1] = "owner" => RowsOf(o.x) = ItemRow /\ o.x \notin User
    BY <1>9, RowsByTable, AdminScopesAssumption
  <2>3. None \notin ItemRow
    BY AdminScopesAssumption
  <2> QED
    BY <1>9, <2>1, <2>2, <2>3
<1>11. h[1] # "owner" => put = o.put
  OBVIOUS
<1> HIDE DEF put
<1>12. /\ f \in Pending /\ f.pc = "check" /\ f.checks = t /\ f.seen = o.seen /\ f.put = put
       /\ f.kind = o.kind /\ f.x = o.x /\ f.super = o.super /\ f.named = o.named
       /\ f.actor = o.actor
  <2>1. put \in Account \cup Owned \cup ItemRow \cup {None}
    BY <1>3, <1>10, <1>11 DEF Pending
  <2> QED
    BY <1>2, <1>3, <1>6, <2>1 DEF Pending
<1>13. op'[r] = f
  BY <1>1, <1>2
<1> HIDE DEF f
<1>14. AskFits(f)
  BY <1>2, <1>3, <1>9, <1>10, <1>11, <1>12 DEF AskFits
<1>15. Touched(f) = Touched(o) /\ Placed(f) = Placed(o)
  <2>1. Touched(f) = Touched(o)
    BY <1>12 DEF Touched
  <2>2. CASE h[1] = "owner"
    <3>1. Rule(f) <=> Rule(o)
      BY <1>10, <1>12, <2>2 DEF Rule
    <3> QED
      BY <1>10, <1>12, <2>1, <2>2, <3>1 DEF Placed
  <2>3. CASE h[1] # "owner"
    BY <1>11, <1>12, <2>1, <2>3 DEF Placed, Rule
  <2> QED
    BY <2>2, <2>3
<1>16. ASSUME NEW x, ~o.super, Manages(o.actor, x) PROVE x \in reach'[r]
  <2>1. Busy(r)' /\ op'[r].actor = op[r].actor /\ ~op'[r].super
    BY <1>12, <1>13, <1>16 DEF Busy
  <2> QED
    BY <1>2, <1>16, <2>1, Remembered
<1>17. reach[r] \subseteq reach'[r]
  <2>1. Busy(r)'
    BY <1>12, <1>13 DEF Busy
  <2> QED
    BY <1>1, <2>1, ReachGrows
<1>18. Asking(r)'
  <2>1. (\E i \in 1..Len(f.checks) : f.checks[i][1] = "owner") => f.kind = "create" /\ f.x \in Item
    <3>1. ASSUME NEW i \in 1..Len(t), t[i][1] = "owner"
          PROVE  o.kind = "create" /\ o.x \in Item
      <4>1. i + 1 \in 1..Len(o.checks) /\ o.checks[i + 1][1] = "owner"
        BY <1>6, <3>1
      <4> QED
        BY <1>5, <4>1
    <3> QED
      BY <1>12, <3>1
  <2>2. ASSUME ~f.super, NEW x \in Touched(f) \cup Placed(f) \cup f.named
        PROVE  x \in reach'[r] \/ Outstanding(f.checks, x)
    <3>1. x \in Touched(o) \cup Placed(o) \cup o.named /\ ~o.super
      BY <1>12, <1>15, <2>2
    <3>2. x \in reach[r] \/ Outstanding(o.checks, x)
      BY <1>5, <3>1
    <3>3. Outstanding(o.checks, x) => Outstanding(t, x) \/ Manages(o.actor, x)
      BY <1>6, <1>7, <3>1
    <3> QED
      BY <1>12, <1>16, <1>17, <3>1, <3>2, <3>3
  <2>3. ASSUME ~f.super, f.x \in User, f.put # None
        PROVE  f.put.role = "user"
    BY <1>5, <1>10, <1>11, <1>12, <2>3
  <2>4. OwnersAfter(f.checks)
    BY <1>8, <1>12
  <2> QED
    BY <1>13, <2>1, <2>2, <2>3, <2>4 DEF Asking
<1>19. /\ reach' \in [AdminRequest -> SUBSET Resource]
       /\ RequestsFit' /\ \A q \in AdminRequest : Asking(q)'
  <2>1. f \in Pending \cup {New, Answered} /\ (f.pc \notin {"new", "done"} => AskFits(f))
    BY <1>12, <1>14
  <2>2. op' = [op EXCEPT ![r] = f]
    BY <1>2 DEF f
  <2> QED
    BY <1>18, <2>1, <2>2, RequestStep
<1>20. \A q \in AdminRequest : op'[q].pc \in {"validate", "commit"} => op'[q] = op[q]
  <2>1. \A q \in AdminRequest \ {r} : op'[q] = op[q]
    BY <1>1, <1>2
  <2> QED
    BY <1>12, <1>13, <2>1
<1> QED
  BY <1>2, <1>19, <1>20, SameData

-----------------------------------------------------------------------------
(* What a handler does when everything has been asked                       *)

\* Who changes roles is no target of a replacement and keeps no grant, and what
\* goes leaves none.
Released ==
  /\ \A u \in User : RoleOf(u)' # RoleOf(u) =>
       /\ ~Locked(u)
       /\ \A g \in grants' : g[1] # u /\ (Serializable => g[2] # u)
  /\ \A x \in Resource \ User : Exists(x) /\ ~Exists(x)' => \A g \in grants' : g[2] # x

\* A request that is answered writes rows and takes grants away.
LEMMA WriteInv ==
  ASSUME ScopesInv, Remember, NEW r \in AdminRequest, End(r),
         Tables(db)', grants' \subseteq grants,
         Released
  PROVE  ScopesInv'
<1>1. grants' \subseteq User \X Resource
  BY DEF ScopesInv, ScopesTyped
<1>2. /\ reach' \in [AdminRequest -> SUBSET Resource]
      /\ RequestsFit' /\ \A q \in AdminRequest : Asking(q)'
      /\ \A q \in AdminRequest : op'[q].pc \in {"validate", "commit"} => op'[q] = op[q]
  BY EndStep
<1>3. TargetsHeld' /\ GrantHolders' /\ (Serializable => GrantsConcrete)'
  BY <1>2, DataStep DEF Released
<1> QED
  BY <1>1, <1>2, <1>3, Together

\* The same of what happens besides.
LEMMA HappenInv ==
  ASSUME ScopesInv, Remember, op' = op,
         Tables(db)', grants' \subseteq grants,
         Released
  PROVE  ScopesInv'
<1>1. grants' \subseteq User \X Resource
  BY DEF ScopesInv, ScopesTyped
<1>2. /\ reach' \in [AdminRequest -> SUBSET Resource]
      /\ RequestsFit' /\ \A q \in AdminRequest : Asking(q)'
  BY OthersStep
<1>3. TargetsHeld' /\ GrantHolders' /\ (Serializable => GrantsConcrete)'
  BY DataStep DEF Released
<1> QED
  BY <1>1, <1>2, <1>3, Together

\* Another row than an account's changes no role.
LEMMA RolesStay ==
  ASSUME Tables(db), Tables(db)', \A u \in User : db'[u] = db[u]
  PROVE  \A u \in User : RoleOf(u)' = RoleOf(u)
BY DEF RoleOf, Exists

LEMMA RowCreated ==
  ASSUME ScopesInv, Remember, NEW r \in AdminRequest, Create(r)
  PROVE  ScopesInv'
<1> DEFINE o == op[r]
<1>1. /\ op \in [AdminRequest -> Pending \cup {New, Answered}] /\ Tables(db)
      /\ o.pc = "check" /\ o.kind = "create" /\ db' = [db EXCEPT ![o.x] = o.put]
      /\ db[o.x] = Unused /\ grants' = grants /\ End(r)
  BY DEF ScopesInv, RequestsFit, ScopesTyped, Create, Doing, Ready
<1>2. AskFits(o)
  BY <1>1 DEF ScopesInv, RequestsFit, Busy
<1>3. o.x \in Resource \cup Item /\ o.put \in RowsOf(o.x)
  BY <1>1, <1>2 DEF AskFits
<1>4. Tables(db)' /\ \A y \in Resource \cup Item : db'[y] = IF y = o.x THEN o.put ELSE db[y]
  <2>1. o.put \in RowsOf(o.x) \cup {Unused, Gone} /\ db' = [db EXCEPT ![o.x] = o.put] /\ Tables(db)
    BY <1>1, <1>3
  <2> HIDE DEF o
  <2> QED
    BY <1>3, <2>1, TablesExcept
<1>5. \A u \in User : RoleOf(u)' # RoleOf(u) => u = o.x /\ RoleOf(u) = "none"
  BY <1>1, <1>4 DEF RoleOf, Exists, Resource
<1>6. ASSUME NEW u \in User, RoleOf(u) = "none" PROVE ~Locked(u)
  BY <1>6 DEF Locked, ScopesInv, TargetsHeld
<1>7. ASSUME NEW u \in User, RoleOf(u) = "none", NEW g \in grants
      PROVE  g[1] # u /\ (Serializable => g[2] # u)
  <2>1. g[1] # u
    BY <1>7 DEF ScopesInv, GrantHolders
  <2>2. ASSUME Serializable PROVE g[2] # u
    BY <1>7, <2>2 DEF ScopesInv, GrantsConcrete, Valid
  <2> QED
    BY <2>1, <2>2
<1>8. ASSUME NEW x \in Resource \ User, Exists(x) PROVE Exists(x)'
  BY <1>1, <1>4, <1>8 DEF Exists
<1>9. grants' \subseteq grants
  BY <1>1
<1>10. ASSUME NEW u \in User, RoleOf(u)' # RoleOf(u)
       PROVE  ~Locked(u) /\ \A g \in grants' : g[1] # u /\ (Serializable => g[2] # u)
  BY <1>1, <1>5, <1>6, <1>7, <1>10
<1>11. Released
  BY <1>8, <1>10 DEF Released
<1> QED
  BY <1>1, <1>4, <1>9, <1>11, WriteInv

LEMMA StrippedKeeps ==
  ASSUME NEW u, NEW xs, NEW g \in Stripped(u, xs)
  PROVE  g \in grants /\ g[1] # u /\ g[2] # u /\ g[2] \notin xs
BY DEF Stripped, Ungranted

LEMMA UserEdited ==
  ASSUME ScopesInv, Remember, NEW r \in AdminRequest, EditUser(r)
  PROVE  ScopesInv'
<1> DEFINE o == op[r]
<1>1. /\ op \in [AdminRequest -> Pending \cup {New, Answered}] /\ Tables(db)
      /\ o.pc = "check" /\ o.kind = "edit" /\ o.x \in User
      /\ Exists(o.x) /\ ~Locked(o.x) /\ db' = [db EXCEPT ![o.x] = o.put]
      /\ grants' = IF RoleOf(o.x) = o.put.role THEN grants ELSE Stripped(o.x, {})
      /\ End(r)
  BY DEF ScopesInv, RequestsFit, ScopesTyped, EditUser, Doing, Ready
<1>2. AskFits(o)
  BY <1>1 DEF ScopesInv, RequestsFit, Busy
<1>3. o.x \in Resource \cup Item /\ o.put \in Account /\ o.put \in RowsOf(o.x)
  BY <1>1, <1>2, RowsByTable DEF AskFits
<1>4. Tables(db)' /\ \A y \in Resource \cup Item : db'[y] = IF y = o.x THEN o.put ELSE db[y]
  <2>1. o.put \in RowsOf(o.x) \cup {Unused, Gone} /\ db' = [db EXCEPT ![o.x] = o.put] /\ Tables(db)
    BY <1>1, <1>3
  <2> HIDE DEF o
  <2> QED
    BY <1>3, <2>1, TablesExcept
<1>5. \A u \in User : u # o.x => RoleOf(u)' = RoleOf(u)
  BY <1>4 DEF RoleOf, Exists, Resource
<1>7. grants' \subseteq grants
  BY <1>1, StrippedKeeps
<1>8. ASSUME NEW u \in User, RoleOf(u)' # RoleOf(u)
      PROVE  ~Locked(u) /\ \A g \in grants' : g[1] # u /\ (Serializable => g[2] # u)
  <2>1. u = o.x /\ ~Locked(u)
    BY <1>1, <1>5, <1>8
  <2>2. grants' = Stripped(u, {})
    <3>1. PICK v \in User : v = o.x
      BY <1>1
    <3>2. db'[v] = o.put /\ o.put \notin {Unused, Gone}
      BY <1>3, <1>4, <3>1, AdminScopesAssumption
    <3>3. RoleOf(v)' = o.put.role
      BY <3>2 DEF RoleOf, Exists
    <3> QED
      BY <1>1, <1>8, <2>1, <3>1, <3>3
  <2> QED
    BY <2>1, <2>2, StrippedKeeps
<1>9. ASSUME NEW x \in Resource \ User, Exists(x) PROVE Exists(x)'
  BY <1>1, <1>4, <1>9 DEF Exists
<1>10. Released
  BY <1>8, <1>9 DEF Released
<1> QED
  BY <1>1, <1>4, <1>7, <1>10, WriteInv

LEMMA RowEdited ==
  ASSUME ScopesInv, Remember, NEW r \in AdminRequest, Edit(r)
  PROVE  ScopesInv'
<1> DEFINE o == op[r]
<1>1. /\ op \in [AdminRequest -> Pending \cup {New, Answered}] /\ Tables(db)
      /\ o.pc = "check" /\ o.kind = "edit" /\ o.x \notin User
      /\ db' = IF Exists(o.x) THEN [db EXCEPT ![o.x] = o.put] ELSE db
      /\ grants' = grants /\ End(r)
  BY DEF ScopesInv, RequestsFit, ScopesTyped, Edit, Doing, Ready
<1>2. AskFits(o)
  BY <1>1 DEF ScopesInv, RequestsFit, Busy
<1>3. o.x \in Resource \cup Item /\ o.put \in RowsOf(o.x)
  BY <1>1, <1>2 DEF AskFits
<1>4. o.put \notin {Unused, Gone}
  BY <1>3, AdminScopesAssumption DEF RowsOf
<1>5. /\ Tables(db)'
      /\ \A y \in Resource \cup Item : db'[y] = db[y] \/ (y = o.x /\ db'[y] = o.put)
  <2>1. CASE Exists(o.x)
    <3>1. db' = [db EXCEPT ![o.x] = o.put]
      BY <1>1, <2>1
    <3>2. o.put \in RowsOf(o.x) \cup {Unused, Gone} /\ Tables(db)
      BY <1>1, <1>3
    <3> HIDE DEF o
    <3>3. Tables(db)' /\ \A y \in Resource \cup Item : db'[y] = IF y = o.x THEN o.put ELSE db[y]
      BY <1>3, <3>1, <3>2, TablesExcept
    <3> QED
      BY <3>3
  <2>2. CASE ~Exists(o.x)
    BY <1>1, <2>2 DEF Tables
  <2> QED
    BY <2>1, <2>2
<1>6. \A u \in User : db'[u] = db[u]
  BY <1>1, <1>5 DEF Resource
<1>7. \A u \in User : RoleOf(u)' = RoleOf(u)
  BY <1>1, <1>5, <1>6, RolesStay
<1>8. ASSUME NEW x \in Resource \ User, Exists(x) PROVE Exists(x)'
  BY <1>4, <1>5, <1>8 DEF Exists
<1>9. grants' \subseteq grants
  BY <1>1
<1>10. Released
  BY <1>7, <1>8 DEF Released
<1> QED
  BY <1>1, <1>5, <1>9, <1>10, WriteInv

LEMMA AnswerInv ==
  ASSUME ScopesInv, Remember, NEW r \in AdminRequest, Touch(r) \/ Fail(r)
  PROVE  ScopesInv'
<1>1. End(r) /\ UNCHANGED <<db, grants>>
  BY DEF Touch, Fail
<1> QED
  BY <1>1, EndStep, SameData

LEMMA EraseInv ==
  ASSUME ScopesInv, Remember, NEW r \in AdminRequest, EraseUserId(r)
  PROVE  ScopesInv'
<1>1. /\ db' = [x \in DOMAIN db |-> IF x \in Peer /\ Exists(x) /\ db[x].owner = op[r].x
                                    THEN [owner |-> None] ELSE db[x]]
      /\ End(r) /\ grants' = grants /\ Tables(db)
  BY DEF EraseUserId, ScopesInv, ScopesTyped
<1>2. DOMAIN db = Resource \cup Item /\ \A y \in Resource \cup Item : db[y] \in RowsOf(y) \cup {Unused, Gone}
  BY <1>1 DEF Tables
<1>3. [owner |-> None] \in Owned /\ \A p \in Peer : RowsOf(p) = Owned
  BY RowsByTable DEF Owned
<1>4. \A y \in Resource \cup Item : db'[y] = db[y] \/ (y \in Peer /\ db'[y] = [owner |-> None])
  BY <1>1, <1>2
<1>5. Tables(db)'
  <2>1. db' = [y \in Resource \cup Item |-> db'[y]]
    BY <1>1, <1>2
  <2>2. \A y \in Resource \cup Item : db'[y] \in RowsOf(y) \cup {Unused, Gone}
    BY <1>2, <1>3, <1>4
  <2> QED
    BY <2>1, <2>2 DEF Tables
<1>6. \A u \in User : RoleOf(u)' = RoleOf(u)
  <2>1. \A u \in User : db'[u] = db[u]
    BY <1>4, AdminScopesAssumption DEF Resource
  <2> QED
    BY <1>1, <1>5, <2>1, RolesStay
<1>7. ASSUME NEW x \in Resource \ User, Exists(x) PROVE Exists(x)'
  BY <1>3, <1>4, <1>7, AdminScopesAssumption DEF Exists
<1>8. grants' \subseteq grants
  BY <1>1
<1>9. Released
  BY <1>6, <1>7 DEF Released
<1> QED
  BY <1>1, <1>5, <1>8, <1>9, WriteInv

\* Rows that go take their grants along.
LEMMA RemovalFits ==
  ASSUME ScopesInv, NEW xs, xs \cap User = {}, db' = Removed(xs),
         grants' \subseteq Ungranted(xs \cap Resource)
  PROVE  /\ Tables(db)' /\ grants' \subseteq grants
         /\ \A u \in User : RoleOf(u)' = RoleOf(u)
         /\ \A x \in Resource \ User : Exists(x) /\ ~Exists(x)' => \A g \in grants' : g[2] # x
<1>1. Tables(db)
  BY DEF ScopesInv, ScopesTyped
<1>2. Tables(db)' /\ \A y \in Resource \cup Item : db'[y] = IF y \in xs THEN Gone ELSE db[y]
  BY <1>1, TablesRemoved
<1>3. \A u \in User : RoleOf(u)' = RoleOf(u)
  <2>1. \A u \in User : db'[u] = db[u]
    BY <1>2 DEF Resource
  <2> QED
    BY <1>1, <1>2, <2>1, RolesStay
<1>4. \A g \in grants' : g \in grants /\ g[2] \notin xs \cap Resource
  BY DEF Ungranted
<1>5. \A x \in Resource \ User : Exists(x) /\ ~Exists(x)' => x \in xs
  BY <1>2 DEF Exists
<1> QED
  BY <1>2, <1>3, <1>4, <1>5

LEMMA CollectionRemoval ==
  ASSUME ScopesInv, NEW c \in Coll, RemoveCollection(c)
  PROVE  \E xs : xs \cap User = {} /\ db' = Removed(xs) /\ grants' \subseteq Ungranted(xs \cap Resource)
<1> DEFINE xs == {c} \cup ItemsOf(c)
<1>1. db' = Removed(xs) /\ grants' = Ungranted({c})
  BY DEF RemoveCollection
<1>2. ItemsOf(c) \subseteq Item
  BY DEF ItemsOf
<1>3. xs \cap User = {} /\ xs \cap Resource \subseteq {c}
  BY <1>2, AdminScopesAssumption DEF Resource
<1>4. Ungranted({c}) \subseteq Ungranted(xs \cap Resource)
  BY <1>3 DEF Ungranted
<1> QED
  BY <1>1, <1>3, <1>4

LEMMA RowsDeleted ==
  ASSUME ScopesInv, Remember, NEW r \in AdminRequest, Delete(r)
  PROVE  ScopesInv'
<1> DEFINE o == op[r]
<1>1. /\ op \in [AdminRequest -> Pending \cup {New, Answered}]
      /\ o.pc = "check" /\ o.kind \in {"delete", "purge"} /\ o.x \notin User /\ End(r)
      /\ IF o.x \in Coll THEN RemoveCollection(o.x)
         ELSE LET xs == IF o.kind = "purge" THEN o.named ELSE {o.x}
              IN  db' = Removed(xs) /\ grants' = Ungranted(xs)
  BY DEF ScopesInv, RequestsFit, Delete, Ready
<1>2. AskFits(o)
  BY <1>1 DEF ScopesInv, RequestsFit, Busy
<1>3. PICK xs : xs \cap User = {} /\ db' = Removed(xs) /\ grants' \subseteq Ungranted(xs \cap Resource)
  <2>1. CASE o.x \in Coll
    BY <1>1, <2>1, CollectionRemoval
  <2>2. CASE o.x \notin Coll
    <3> DEFINE xs == IF o.kind = "purge" THEN o.named ELSE {o.x}
    <3>1. db' = Removed(xs) /\ grants' = Ungranted(xs)
      BY <1>1, <2>2
    <3>2. xs \cap User = {}
      BY <1>1, <1>2, AdminScopesAssumption DEF AskFits
    <3>3. Ungranted(xs) \subseteq Ungranted(xs \cap Resource)
      BY DEF Ungranted
    <3> HIDE DEF xs
    <3> QED
      BY <3>1, <3>2, <3>3
  <2> QED
    BY <2>1, <2>2
<1>4. /\ Tables(db)' /\ grants' \subseteq grants
      /\ \A u \in User : RoleOf(u)' = RoleOf(u)
      /\ \A x \in Resource \ User : Exists(x) /\ ~Exists(x)' => \A g \in grants' : g[2] # x
  BY <1>3, RemovalFits
<1>5. End(r)
  BY <1>1
<1>6. ASSUME NEW u \in User, RoleOf(u)' # RoleOf(u)
      PROVE  ~Locked(u) /\ \A g \in grants' : g[1] # u /\ (Serializable => g[2] # u)
  BY <1>4, <1>6
<1>7. ASSUME NEW x \in Resource \ User, Exists(x), ~Exists(x)'
      PROVE  \A g \in grants' : g[2] # x
  BY <1>4, <1>7
<1>8. Tables(db)' /\ grants' \subseteq grants
  BY <1>4
<1> HIDE DEF o
<1>9. Released
  BY <1>6, <1>7 DEF Released
<1> QED
  BY <1>5, <1>8, <1>9, WriteInv

LEMMA UsersDeleted ==
  ASSUME ScopesInv, Remember, NEW r \in AdminRequest, DeleteUser(r)
  PROVE  ScopesInv'
<1> DEFINE u == op[r].x
           own == {c \in Coll : Exists(c) /\ db[c].owner = u}
           items == {i \in Item : Exists(i) /\ u \in {db[i].owner, db[i].to}}
           f == [op[r] EXCEPT !.pc = "erase"]
           xs == {u} \cup own \cup items
<1>1. /\ op \in [AdminRequest -> Pending \cup {New, Answered}] /\ Tables(db)
      /\ grants \subseteq User \X Resource
      /\ op[r].pc = "check" /\ op[r].kind = "delete" /\ u \in User /\ ~Locked(u)
      /\ db' = Removed(xs) /\ grants' = Stripped(u, own)
      /\ op' = [op EXCEPT ![r] = f]
  BY DEF ScopesInv, RequestsFit, ScopesTyped, DeleteUser, Doing, Ready
<1>2. op[r] \in Pending /\ AskFits(op[r])
  <2>1. op[r] \in Pending
    BY <1>1 DEF New, Answered
  <2> QED
    BY <1>1, <2>1 DEF ScopesInv, RequestsFit, Busy
<1>3. f \in Pending /\ f.pc = "erase" /\ AskFits(f)
  BY <1>1, <1>2 DEF Pending, AskFits
<1>4. xs \cap User = {u} /\ xs \cap Resource \subseteq {u} \cup own
  BY <1>1, AdminScopesAssumption DEF Resource
<1> HIDE DEF u, own, items, xs, f
<1>5. /\ reach' \in [AdminRequest -> SUBSET Resource]
      /\ RequestsFit' /\ \A q \in AdminRequest : Asking(q)'
  <2>1. op'[r] = f
    BY <1>1
  <2>2. Asking(r)'
    BY <1>3, <2>1 DEF Asking
  <2>3. f \in Pending \cup {New, Answered} /\ (f.pc \notin {"new", "done"} => AskFits(f))
    BY <1>3
  <2> QED
    BY <1>1, <2>2, <2>3, RequestStep
<1>6. \A q \in AdminRequest : op'[q].pc \in {"validate", "commit"} => op'[q] = op[q]
  BY <1>1, <1>3
<1>7. Tables(db)' /\ \A y \in Resource \cup Item : db'[y] = IF y \in xs THEN Gone ELSE db[y]
  BY <1>1, TablesRemoved
<1>8. grants' \subseteq grants /\ \A g \in grants' : g[1] # u /\ g[2] # u /\ g[2] \notin own
  BY <1>1, StrippedKeeps
<1>9. Released
  <2>1. ASSUME NEW v \in User, RoleOf(v)' # RoleOf(v) PROVE v = u
    <3>1. v \in xs
      BY <1>7, <2>1 DEF RoleOf, Exists, Resource
    <3> QED
      BY <1>4, <3>1
  <2>2. ASSUME NEW x \in Resource \ User, Exists(x), ~Exists(x)' PROVE \A g \in grants' : g[2] # x
    <3>1. x \in xs
      BY <1>7, <2>2 DEF Exists
    <3> QED
      BY <1>4, <1>8, <3>1
  <2> QED
    BY <1>1, <1>8, <2>1, <2>2 DEF Released
<1>10. TargetsHeld' /\ GrantHolders' /\ (Serializable => GrantsConcrete)'
  BY <1>6, <1>7, <1>8, <1>9, DataStep DEF Released
<1>11. grants' \subseteq User \X Resource
  BY <1>1, <1>8
<1> QED
  BY <1>5, <1>7, <1>10, <1>11, Together

-----------------------------------------------------------------------------
(* The replacement of a scope                                                *)

LEMMA ReplacementGoesOn ==
  ASSUME ScopesInv, Remember, NEW r \in AdminRequest, NEW from,
         NEW to \in {"lock", "validate", "commit"},
         Step(r, from, to), from \in {"find", "lock", "validate"},
         to # "lock" => RoleOf(op[r].x) = "admin"
  PROVE  ScopesInv'
<1> DEFINE f == [op[r] EXCEPT !.pc = to]
<1>1. /\ op \in [AdminRequest -> Pending \cup {New, Answered}] /\ Tables(db)
      /\ grants \subseteq User \X Resource
      /\ op[r].pc = from /\ op[r].kind = "replace"
      /\ op' = [op EXCEPT ![r] = f] /\ UNCHANGED <<db, grants>>
  BY DEF ScopesInv, RequestsFit, ScopesTyped, Step
<1>2. op[r] \in Pending /\ AskFits(op[r])
  <2>1. op[r] \in Pending
    BY <1>1 DEF New, Answered
  <2> QED
    BY <1>1, <2>1 DEF ScopesInv, RequestsFit, Busy
<1>3. f \in Pending /\ f.pc = to /\ f.x = op[r].x /\ AskFits(f)
  BY <1>1, <1>2 DEF Pending, AskFits
<1> HIDE DEF f
<1>4. op'[r] = f
  BY <1>1
<1>5. /\ reach' \in [AdminRequest -> SUBSET Resource]
      /\ RequestsFit' /\ \A q \in AdminRequest : Asking(q)'
  <2>1. Asking(r)'
    BY <1>3, <1>4 DEF Asking
  <2>2. f \in Pending \cup {New, Answered} /\ (f.pc \notin {"new", "done"} => AskFits(f))
    BY <1>3
  <2> QED
    BY <1>1, <2>1, <2>2, RequestStep
<1>6. Tables(db)'
  BY <1>1 DEF Tables
<1>7. \A y : RoleOf(y)' = RoleOf(y) /\ (Exists(y)' <=> Exists(y))
  BY <1>1 DEF RoleOf, Exists
<1>8. GrantHolders'
  BY <1>1, <1>7 DEF GrantHolders, ScopesInv
<1>9. (Serializable => GrantsConcrete)'
  BY <1>1, <1>7 DEF GrantsConcrete, Valid, ScopesInv
<1>10. TargetsHeld'
  <2>1. ASSUME NEW q \in AdminRequest, op'[q].pc \in {"validate", "commit"}
        PROVE  RoleOf(op[q].x)' = "admin"
    <3>1. op'[q].x = op[q].x
      BY <1>1, <1>3
    <3>2. RoleOf(op[q].x) = "admin"
      <4>1. CASE q = r
        BY <1>3, <1>4, <2>1, <4>1
      <4>2. CASE q # r
        <5>1. op[q].pc \in {"validate", "commit"}
          BY <1>1, <2>1, <4>2
        <5> QED
          BY <5>1 DEF ScopesInv, TargetsHeld
      <4> QED
        BY <4>1, <4>2
    <3>3. RoleOf(op[q].x)' = RoleOf(op[q].x)
      BY <1>1, <3>1 DEF RoleOf, Exists
    <3> QED
      BY <3>2, <3>3
  <2> QED
    BY <2>1 DEF TargetsHeld
<1>11. grants' \subseteq User \X Resource
  BY <1>1
<1> QED
  BY <1>5, <1>6, <1>8, <1>9, <1>10, <1>11, Together

LEMMA TargetsFound ==
  ASSUME ScopesInv, Remember, NEW r \in AdminRequest,
         FindTarget(r) \/ LockTarget(r) \/ ValidateScopeSet(r)
  PROVE  ScopesInv'
<1>1. CASE FindTarget(r)
  BY <1>1, ReplacementGoesOn DEF FindTarget
<1>2. CASE LockTarget(r)
  BY <1>2, ReplacementGoesOn DEF LockTarget, StillScoped
<1>3. CASE ValidateScopeSet(r)
  <2>1. Step(r, "validate", "commit") /\ op[r].pc = "validate"
    BY <1>3 DEF ValidateScopeSet, Step
  <2>2. RoleOf(op[r].x) = "admin"
    BY <2>1 DEF ScopesInv, TargetsHeld
  <2> QED
    BY <2>1, <2>2, ReplacementGoesOn
<1> QED
  BY <1>1, <1>2, <1>3

LEMMA ScopesReplaced ==
  ASSUME ScopesInv, Remember, NEW r \in AdminRequest, Replace(r)
  PROVE  ScopesInv'
<1> DEFINE o == op[r]
<1>1. /\ op \in [AdminRequest -> Pending \cup {New, Answered}] /\ Tables(db)
      /\ grants \subseteq User \X Resource
      /\ o.pc = "commit" /\ (Serializable => Valid(o.named)) /\ End(r) /\ db' = db
      /\ grants' = {g \in grants : g[1] # o.x} \cup {<<o.x, x>> : x \in o.named}
  BY DEF ScopesInv, RequestsFit, ScopesTyped, Replace
<1>2. o \in Pending /\ AskFits(o)
  <2>1. o \in Pending
    BY <1>1 DEF New, Answered
  <2> QED
    BY <1>1, <2>1 DEF ScopesInv, RequestsFit, Busy
<1>3. o.x \in User /\ o.named \subseteq Resource /\ RoleOf(o.x) = "admin"
  BY <1>1, <1>2 DEF AskFits, Pending, ScopesInv, TargetsHeld
<1>4. \A g \in grants' : g \in grants \/ (g[1] = o.x /\ g[2] \in o.named)
  BY <1>1
<1>5. grants' \subseteq User \X Resource
  BY <1>1, <1>3
<1>6. /\ reach' \in [AdminRequest -> SUBSET Resource]
      /\ RequestsFit' /\ \A q \in AdminRequest : Asking(q)'
      /\ \A q \in AdminRequest : op'[q].pc \in {"validate", "commit"} => op'[q] = op[q]
  BY <1>1, EndStep
<1>7. Tables(db)'
  BY <1>1 DEF Tables
<1>8. \A y : RoleOf(y)' = RoleOf(y) /\ (Exists(y)' <=> Exists(y))
  BY <1>1 DEF RoleOf, Exists
<1>9. GrantHolders'
  <2>1. ASSUME NEW g \in grants' PROVE RoleOf(g[1]) = "admin"
    BY <1>3, <1>4, <2>1 DEF ScopesInv, GrantHolders
  <2>2. ASSUME NEW g \in grants' PROVE RoleOf(g[1])' = "admin"
    BY <1>8, <2>1, <2>2
  <2> QED
    BY <2>2 DEF GrantHolders
<1>10. ASSUME Serializable PROVE GrantsConcrete'
  <2>1. ASSUME NEW g \in grants'
        PROVE  IF g[2] \in User THEN RoleOf(g[2]) = "user" ELSE Exists(g[2])
    BY <1>1, <1>4, <1>10, <2>1 DEF ScopesInv, GrantsConcrete, Valid
  <2>2. ASSUME NEW g \in grants'
        PROVE  IF g[2] \in User THEN RoleOf(g[2])' = "user" ELSE Exists(g[2])'
    BY <1>8, <2>1, <2>2
  <2> QED
    BY <2>2 DEF GrantsConcrete, Valid
<1>11. TargetsHeld'
  <2>1. ASSUME NEW q \in AdminRequest, op'[q].pc \in {"validate", "commit"}
        PROVE  RoleOf(op[q].x)' = "admin"
    <3>1. op'[q] = op[q] /\ RoleOf(op[q].x) = "admin"
      BY <1>6, <2>1 DEF ScopesInv, TargetsHeld
    <3> QED
      BY <1>1, <3>1 DEF RoleOf, Exists
  <2> QED
    BY <2>1 DEF TargetsHeld
<1> QED
  BY <1>5, <1>6, <1>7, <1>9, <1>10, <1>11, Together

-----------------------------------------------------------------------------
(* What happens besides                                                      *)

LEMMA Recovered ==
  ASSUME ScopesInv, Remember, NEW u \in User, Recover(u)
  PROVE  ScopesInv'
<1> DEFINE v == [db[u] EXCEPT !.role = "super"]
<1>1. /\ Tables(db) /\ Exists(u) /\ ~Locked(u) /\ op' = op
      /\ db' = [db EXCEPT ![u] = v] /\ grants' = Stripped(u, {})
  BY DEF ScopesInv, ScopesTyped, Recover, Tables
<1>2. u \in Resource \cup Item /\ v \in RowsOf(u)
  <2>1. u \in Resource \cup Item /\ RowsOf(u) = Account
    BY RowsByTable DEF Resource
  <2>2. db[u] \in Account
    BY <1>1, <2>1, RowThere
  <2> QED
    BY <2>1, <2>2 DEF Account, Role
<1> HIDE DEF v
<1>3. Tables(db)' /\ \A y \in Resource \cup Item : db'[y] = IF y = u THEN v ELSE db[y]
  <2>1. v \in RowsOf(u) \cup {Unused, Gone}
    BY <1>2
  <2> QED
    BY <1>1, <1>2, <2>1, TablesExcept
<1>4. \A w \in User : RoleOf(w)' # RoleOf(w) => w = u
  BY <1>3 DEF RoleOf, Exists, Resource
<1>5. grants' \subseteq grants /\ \A g \in grants' : g[1] # u /\ g[2] # u
  BY <1>1, StrippedKeeps
<1>6. ASSUME NEW x \in Resource \ User, Exists(x) PROVE Exists(x)'
  BY <1>3, <1>6 DEF Exists
<1>7. Released
  BY <1>1, <1>4, <1>5, <1>6 DEF Released
<1> QED
  BY <1>1, <1>3, <1>5, <1>7, HappenInv

LEMMA PeerBound ==
  ASSUME ScopesInv, Remember, NEW p \in Peer, NEW u \in User \cup {None}, BindPeer(p, u)
  PROVE  ScopesInv'
<1> DEFINE v == [db[p] EXCEPT !.owner = u]
<1>1. /\ Tables(db) /\ Exists(p) /\ op' = op /\ db' = [db EXCEPT ![p] = v] /\ grants' = grants
  BY DEF ScopesInv, ScopesTyped, BindPeer, Tables
<1>2. p \in Resource \cup Item /\ v \in RowsOf(p) /\ v \in Owned
  <2>1. p \in Resource \cup Item /\ RowsOf(p) = Owned
    BY RowsByTable DEF Resource
  <2>2. db[p] \in Owned
    BY <1>1, <2>1, RowThere
  <2> QED
    BY <2>1, <2>2 DEF Owned
<1> HIDE DEF v
<1>3. Tables(db)' /\ \A y \in Resource \cup Item : db'[y] = IF y = p THEN v ELSE db[y]
  <2>1. v \in RowsOf(p) \cup {Unused, Gone}
    BY <1>2
  <2> QED
    BY <1>1, <1>2, <2>1, TablesExcept
<1>4. \A w \in User : RoleOf(w)' = RoleOf(w)
  <2>1. \A w \in User : db'[w] = db[w]
    BY <1>3, AdminScopesAssumption DEF Resource
  <2> QED
    BY <1>1, <1>3, <2>1, RolesStay
<1>5. ASSUME NEW x \in Resource \ User, Exists(x) PROVE Exists(x)'
  BY <1>2, <1>3, <1>5, AdminScopesAssumption DEF Exists
<1>6. Released
  BY <1>4, <1>5 DEF Released
<1>7. grants' \subseteq grants
  BY <1>1
<1> QED
  BY <1>1, <1>3, <1>6, <1>7, HappenInv

LEMMA OwnCollectionDeleted ==
  ASSUME ScopesInv, Remember, NEW c \in Coll, DeleteOwnCollection(c)
  PROVE  ScopesInv'
<1>1. op' = op /\ RemoveCollection(c)
  BY DEF DeleteOwnCollection
<1>2. PICK xs : xs \cap User = {} /\ db' = Removed(xs) /\ grants' \subseteq Ungranted(xs \cap Resource)
  BY <1>1, CollectionRemoval
<1>3. /\ Tables(db)' /\ grants' \subseteq grants
      /\ \A u \in User : RoleOf(u)' = RoleOf(u)
      /\ \A x \in Resource \ User : Exists(x) /\ ~Exists(x)' => \A g \in grants' : g[2] # x
  BY <1>2, RemovalFits
<1>4. Released
  BY <1>3 DEF Released
<1> QED
  BY <1>1, <1>3, <1>4, HappenInv

-----------------------------------------------------------------------------
(* The specification                                                         *)

LEMMA ScopesInitially == ScopesInit => ScopesInv
<1> SUFFICES ASSUME ScopesInit PROVE ScopesInv
  OBVIOUS
<1>1. PICK s \in Stored : db = s.db /\ grants = s.grants
  BY DEF ScopesInit
<1>2. /\ Tables(db) /\ grants \subseteq User \X Resource
      /\ \A g \in grants :
           /\ db[g[1]] \in Account /\ db[g[1]].role = "admin"
           /\ db[g[2]] \notin {Unused, Gone}
           /\ g[2] \in User => db[g[2]].role = "user"
  BY <1>1, GrantsAssumption
<1>3. /\ op = [r \in AdminRequest |-> New] /\ reach = [r \in AdminRequest |-> {}]
      /\ New.pc = "new"
  BY DEF ScopesInit, New
<1>4. ScopesTyped
  BY <1>2, <1>3 DEF ScopesTyped
<1>5. RequestsFit /\ TargetsHeld /\ \A r \in AdminRequest : Asking(r)
  BY <1>3 DEF RequestsFit, TargetsHeld, Asking, Busy
<1>6. GrantHolders
  BY <1>2, AdminScopesAssumption DEF GrantHolders, RoleOf, Exists
<1>7. GrantsConcrete
  BY <1>2 DEF GrantsConcrete, Valid, RoleOf, Exists
<1> QED
  BY <1>4, <1>5, <1>6, <1>7 DEF ScopesInv

LEMMA ScopesStutter == ScopesInv /\ UNCHANGED scopeVars => ScopesInv'
<1> SUFFICES ASSUME ScopesInv, UNCHANGED scopeVars PROVE ScopesInv'
  OBVIOUS
<1>1. db' = db /\ grants' = grants /\ op' = op /\ reach' = reach
  BY DEF scopeVars
<1>2. ScopesTyped'
  BY <1>1 DEF ScopesInv, ScopesTyped, Tables
<1>3. RequestsFit'
  BY <1>1 DEF ScopesInv, RequestsFit, Busy
<1>4. TargetsHeld' /\ GrantHolders' /\ (Serializable => GrantsConcrete)'
  BY <1>1 DEF ScopesInv, TargetsHeld, GrantHolders, GrantsConcrete, Valid, RoleOf, Exists
<1>5. \A r \in AdminRequest : Asking(r)'
  BY <1>1 DEF ScopesInv, Asking
<1> QED
  BY <1>2, <1>3, <1>4, <1>5 DEF ScopesInv

LEMMA HandledInv ==
  ASSUME ScopesInv, Remember, NEW r \in AdminRequest, Handle(r)
  PROVE  ScopesInv'
BY AskInv, FindInv, CheckInv, RowCreated, UserEdited, RowEdited, AnswerInv, UsersDeleted, EraseInv,
   RowsDeleted, TargetsFound, ScopesReplaced
DEF Handle

\* Whatever requests do and whatever happens besides, rows, grants and requests fit.
THEOREM ScopesInvariant == ScopesSpec => []ScopesInv
<1>1. ASSUME ScopesInv, ScopesNext PROVE ScopesInv'
  <2>1. Remember
    BY <1>1 DEF ScopesNext
  <2>2. CASE \E r \in AdminRequest : Handle(r) /\ UNCHANGED events
    BY <1>1, <2>1, <2>2, HandledInv
  <2>3. CASE Happen
    BY <1>1, <2>1, <2>3, Recovered, PeerBound, OwnCollectionDeleted DEF Happen
  <2> QED
    BY <1>1, <2>2, <2>3 DEF ScopesNext
<1> QED
  BY <1>1, ScopesInitially, ScopesStutter, PTL DEF ScopesSpec

\* Nobody but a scoped administrator holds a grant: demotions, promotions, deletions
\* and recoveries take them, and no replacement gives one back to who is none.
THEOREM GrantsHaveHolders == ScopesSpec => []GrantHolders
<1>1. ScopesInv => GrantHolders
  BY DEF ScopesInv
<1> QED
  BY <1>1, ScopesInvariant, PTL

\* Where a transaction fails if what it read has changed, what is granted exists and
\* of accounts only ordinary users are.
THEOREM GrantsAreConcrete ==
  ASSUME Serializable
  PROVE  ScopesSpec => []GrantsConcrete
<1>1. ScopesInv => GrantsConcrete
  BY DEF ScopesInv
<1> QED
  BY <1>1, ScopesInvariant, PTL

\* All that a scoped administrator's handler is about to touch has been within its
\* scope since the request came in.
THEOREM ActsStayWithinScope == ScopesSpec => []ActsWithinScope
<1>1. ASSUME ScopesInv PROVE ActsWithinScope
  <2>1. ASSUME NEW r \in AdminRequest, Ready(r), ~op[r].super
        PROVE  /\ Touched(op[r]) \cup Placed(op[r]) \cup op[r].named \subseteq reach[r]
               /\ op[r].x \in User /\ op[r].put # None => op[r].put.role = "user"
    <3>1. op[r].pc = "check" /\ op[r].checks = <<>> /\ Asking(r)
      BY <1>1, <2>1 DEF Ready, ScopesInv
    <3>2. \A x : ~Outstanding(op[r].checks, x)
      BY <3>1 DEF Outstanding
    <3>3. /\ \A x \in Touched(op[r]) \cup Placed(op[r]) \cup op[r].named : x \in reach[r]
          /\ op[r].x \in User /\ op[r].put # None => op[r].put.role = "user"
      BY <2>1, <3>1, <3>2 DEF Asking
    <3> QED
      BY <3>3
  <2> QED
    BY <2>1 DEF ActsWithinScope
<1> QED
  BY <1>1, ScopesInvariant, PTL
=============================================================================
