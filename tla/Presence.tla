------------------------------ MODULE Presence ------------------------------
(***************************************************************************)
(* Presence Lease v2: the online state of one device identity (an ID/UUID  *)
(* pair), kept in its peer row and in the leases granted to the client.    *)
(*                                                                         *)
(* A handler works in two steps.  Its first step resolves the peer row and *)
(* reads the wall clock; its second step is the transaction, run under the *)
(* keyed mutex and the row lock.  Any number of other steps, clock ticks   *)
(* included, may come between: the transaction uses the time its handler   *)
(* read earlier, and that time may be old.                                 *)
(*                                                                         *)
(* Times are in abstract units.  Bounds of the model: MaxTime (the clock), *)
(* LastArrival and LastReport (no v2 request and no legacy report arrives  *)
(* later), MaxDelay (the longest a handler waits between its two steps)    *)
(* and MaxEpoch.                                                           *)
(***************************************************************************)
EXTENDS Naturals, FiniteSets

CONSTANTS
  Row,           \* row ids the device's peer record may get, one after another
  Lease,         \* leases (a lease id with its bearer token) the server may grant
  Handler,       \* concurrent request handlers
  ActivationID,  \* random ids of profile activations
  NoActivation,  \* the empty activation id of a fresh row
  NoRow, NoLease,
  MaxEpoch,      \* bound: highest activation epoch a client presents
  TTL,           \* PresenceLeaseTTL
  Fallback,      \* PresenceLegacyFallbackAfter
  Throttle,      \* presenceLastOnlineInterval
  LegacyWindow,  \* how long a legacy report keeps a peer online
  Retention,     \* presenceLeaseRecordRetention
  BaseTime,      \* the clock at the start, far from zero
  LastArrival,   \* bound: clients make no v2 request after this time
  LastReport,    \* bound: and no legacy report after this one
  MaxTime,       \* bound: the clock stops here
  MaxDelay       \* bound: how old a handler's time may be when it is used

ASSUME PresenceAssumption ==
  /\ NoActivation \notin ActivationID
  /\ NoRow \notin Row
  /\ NoLease \notin Lease
  /\ MaxEpoch \in Nat /\ TTL \in Nat \ {0} /\ Fallback \in Nat /\ Throttle \in Nat
  /\ LegacyWindow \in Nat /\ Retention \in Nat
  /\ BaseTime \in Nat /\ BaseTime > LegacyWindow /\ BaseTime > Retention
  /\ LastArrival \in Nat /\ LastReport \in Nat /\ MaxTime \in Nat /\ MaxDelay \in Nat

VARIABLES
  clock,    \* time.Now() of the server
  peer,     \* the peer rows
  lease,    \* the peer_presence_leases rows
  req,      \* what each handler is doing
  deleting, \* the row an administrator's delete transaction is removing
  doomed    \* the leases that transaction has deleted and not committed

vars == <<clock, peer, lease, req, deleting, doomed>>

-----------------------------------------------------------------------------
Epoch == 1 .. MaxEpoch
LeaseKinds == {"renew", "end"}
ActivationKinds == {"start", "deactivate"}
LegacyKinds == {"heartbeat", "sysinfo"}

PeerRecord ==
  [state   : {"new", "present", "deleted"},
   epoch   : Nat,                             \* PresenceActivationEpoch
   act     : ActivationID \cup {NoActivation},\* PresenceActivationID
   retired : BOOLEAN,                         \* PresenceActivationRetired
   until   : Nat,                             \* PresenceOnlineUntil
   seen    : Nat,                             \* PresenceV2SeenAt
   last    : Nat]                             \* LastOnlineTime

LeaseRecord ==
  [state   : {"free", "open", "ended", "deleted"},
   row     : Row \cup {NoRow},
   epoch   : Nat,
   act     : ActivationID \cup {NoActivation},
   expires : Nat]

Request ==
  [kind  : {"idle"} \cup LeaseKinds \cup ActivationKinds \cup LegacyKinds,
   row   : Row \cup {NoRow},
   epoch : Nat,
   act   : ActivationID \cup {NoActivation},
   lease : Lease \cup {NoLease},
   now   : Nat]

FreshPeer == [state |-> "new", epoch |-> 0, act |-> NoActivation,
              retired |-> FALSE, until |-> 0, seen |-> 0, last |-> 0]
FreeLease == [state |-> "free", row |-> NoRow, epoch |-> 0,
              act |-> NoActivation, expires |-> 0]
Idle == [kind |-> "idle", row |-> NoRow, epoch |-> 0, act |-> NoActivation,
         lease |-> NoLease, now |-> 0]

Init ==
  /\ clock = BaseTime
  /\ peer = [r \in Row |-> FreshPeer]
  /\ lease = [l \in Lease |-> FreeLease]
  /\ req = [h \in Handler |-> Idle]
  /\ deleting = NoRow
  /\ doomed = {}

-----------------------------------------------------------------------------
\* Mutant: a deleted row still found.
PresentOrDeleted(r) == peer[r].state \in {"present", "deleted"}

Present(r) == peer[r].state = "present"

\* The leases of row r that nobody has ended.
Unended(r) == {l \in Lease : lease[l].state = "open" /\ lease[l].row = r}

\* Mutant: the legacy fallback opens one unit early.
IsOnlineAtEarly(p, now) ==
  \/ p.until > now
  \/ /\ ~(p.seen > 0 /\ now - p.seen < Fallback)
     /\ p.last > now - LegacyWindow

\* IsOnlineAt(peer, now).
IsOnlineAt(p, now) ==
  \/ p.until > now
  \/ /\ ~(p.seen > 0 /\ now - p.seen <= Fallback)
     /\ p.last > now - LegacyWindow

Online(r) == Present(r) /\ IsOnlineAt(peer[r], clock)

\* Mutant: the clash of two activations of one epoch goes unnoticed.
SupersededByEpoch(p, q) == p.epoch > q.epoch

\* The request's activation lost against the one the row holds.
Superseded(p, q) ==
  \/ p.epoch > q.epoch
  \/ p.epoch = q.epoch /\ p.act # NoActivation /\ p.act # q.act

IsCurrent(p, q) == p.epoch = q.epoch /\ p.act = q.act

\* Mutant: ended leases still counted.
ActivePresenceUntilOfAll(L, r, e, a, now, u) ==
  LET until == {L[l].expires : l \in {m \in Lease :
                 /\ L[m].row = r /\ L[m].epoch = e /\ L[m].act = a
                 /\ L[m].expires > now}}
  IN \/ until = {} /\ u = 0
     \/ u \in until /\ \A x \in until : x <= u

\* u is activePresenceUntil over the lease rows L for activation e, a of row r.
ActivePresenceUntil(L, r, e, a, now, u) ==
  LET until == {L[l].expires : l \in {m \in Lease :
                 /\ L[m].state = "open" /\ L[m].row = r
                 /\ L[m].epoch = e /\ L[m].act = a /\ L[m].expires > now}}
  IN \/ until = {} /\ u = 0
     \/ u \in until /\ \A x \in until : x <= u

\* The columns updatePresencePeer writes.
PresenceUpdate(p, q, e, a, retired, until, markV2Seen, touch) ==
  [p EXCEPT !.epoch = e, !.act = a, !.retired = retired, !.until = until,
            !.seen = IF markV2Seen THEN q.now ELSE p.seen,
            !.last = IF touch /\ (p.last = 0 \/ q.now >= p.last + Throttle)
                       THEN q.now ELSE p.last]

\* The lease a renew or end request names: its bearer token, row and activation
\* must all match (presenceLeaseQuery).
Matches(l, q) ==
  /\ l \in Lease
  /\ lease[l].state \in {"open", "ended"}
  /\ lease[l].row = q.row /\ lease[l].epoch = q.epoch /\ lease[l].act = q.act

\* Mutant: a lease that has already expired is left as it is.
EndUnexpired(r) ==
  [l \in Lease |-> IF l \in Unended(r) /\ lease[l].expires > clock
                    THEN [lease[l] EXCEPT !.state = "ended"]
                    ELSE lease[l]]

\* The takeover and the deactivation end every unended lease of the row.
EndAll(r) ==
  [l \in Lease |-> IF l \in Unended(r) THEN [lease[l] EXCEPT !.state = "ended"]
                                       ELSE lease[l]]

\* Mutant: the end request ends its whole activation.
EndActivation(m) ==
  [l \in Lease |->
     IF lease[l].row = lease[m].row /\ lease[l].state = "open"
     THEN [lease[l] EXCEPT !.state = "ended"] ELSE lease[l]]
EndOne(m) == [lease EXCEPT ![m].state = "ended"]

\* Mutant: a renewal adds to what is left of the lease.
ExpiryAfterExpiry(m, q) == lease[m].expires + TTL
RenewedExpiry(m, q) == q.now + TTL

-----------------------------------------------------------------------------
(* Requests arrive: the handler resolves the row and reads the clock.      *)

Arrive(h, q) ==
  /\ req[h] = Idle
  /\ req' = [req EXCEPT ![h] = q]
  /\ UNCHANGED <<clock, peer, lease, deleting, doomed>>

\* Bound: a start arrives only while a lease is left for it.
LeaseLeft ==
  Cardinality({h \in Handler : req[h].kind = "start"}) <
    Cardinality({l \in Lease : lease[l].state = "free"})

ArriveActivation(h, r, k, e, a) ==
  /\ clock <= LastArrival
  /\ Present(r)
  /\ k = "start" => LeaseLeft
  /\ Arrive(h, [kind |-> k, row |-> r, epoch |-> e, act |-> a,
                lease |-> NoLease, now |-> clock])

\* A client presents a lease under the activation it was granted for or, in the
\* middle of a profile switch, under the current one.
ArriveLease(h, r, k, l) ==
  /\ clock <= LastArrival
  /\ Present(r)
  /\ lease[l].state # "free"
  /\ \E g \in {lease[l], peer[r]} :
       /\ g.epoch > 0
       /\ Arrive(h, [kind |-> k, row |-> r, epoch |-> g.epoch, act |-> g.act,
                     lease |-> l, now |-> clock])

\* A heartbeat within the throttle interval of the last one writes nothing.
ArriveLegacy(h, r, k) ==
  /\ clock <= LastReport
  /\ Present(r)
  /\ k = "heartbeat" => clock >= peer[r].last + Throttle
  /\ Arrive(h, [Idle EXCEPT !.kind = k, !.row = r, !.now = clock])

\* BindRegistryIdentity creates the row of an identity that has none.
CreatePeer(r) ==
  /\ clock <= LastArrival
  /\ peer[r].state = "new"
  /\ \A s \in Row : ~Present(s)
  /\ peer' = [peer EXCEPT ![r].state = "present"]
  /\ UNCHANGED <<clock, lease, req, deleting, doomed>>

-----------------------------------------------------------------------------
(* The transactions.  A statement that must write a lease row the open     *)
(* delete transaction holds waits for it (the DOOMED conjuncts).           *)

Done(h) == req' = [req EXCEPT ![h] = Idle]

MayStart(q) ==
  LET p == peer[q.row] IN
  /\ Present(q.row)
  /\ ~Superseded(p, q)
  /\ ~(IsCurrent(p, q) /\ p.retired)

StartPresenceLease(h, l) ==
  LET q == req[h]
      p == peer[q.row]
      takeover == q.epoch > p.epoch
      rows == IF takeover THEN EndAll(q.row) ELSE lease
  IN /\ q.kind = "start"
     /\ MayStart(q)
     /\ takeover => Unended(q.row) \cap doomed = {}
     /\ lease[l].state = "free"
     /\ lease' = [rows EXCEPT ![l] =
                    [state |-> "open", row |-> q.row, epoch |-> q.epoch,
                     act |-> q.act, expires |-> q.now + TTL]]
     /\ \E u \in {0} \cup {lease'[m].expires : m \in Lease} :
          /\ ActivePresenceUntil(lease', q.row, q.epoch, q.act, q.now, u)
          /\ peer' = [peer EXCEPT ![q.row] =
                        PresenceUpdate(p, q, q.epoch, q.act, FALSE, u, TRUE, TRUE)]
     /\ Done(h)
     /\ UNCHANGED <<clock, deleting, doomed>>

\* Mutant: the ended lease is not refused.
MayRenewEnded(q) ==
  LET p == peer[q.row] IN
  /\ Present(q.row)
  /\ IsCurrent(p, q) /\ ~p.retired
  /\ Matches(q.lease, q)
  /\ lease[q.lease].expires > q.now

MayRenew(q) ==
  LET p == peer[q.row] IN
  /\ Present(q.row)
  /\ IsCurrent(p, q) /\ ~p.retired
  /\ Matches(q.lease, q)
  /\ lease[q.lease].state = "open"
  /\ lease[q.lease].expires > q.now

RenewPresenceLease(h) ==
  LET q == req[h]
      p == peer[q.row]
  IN /\ q.kind = "renew"
     /\ MayRenew(q)
     /\ q.lease \notin doomed
     /\ lease' = [lease EXCEPT ![q.lease].expires = RenewedExpiry(q.lease, q)]
     /\ \E u \in {0} \cup {lease'[m].expires : m \in Lease} :
          /\ ActivePresenceUntil(lease', q.row, p.epoch, p.act, q.now, u)
          /\ peer' = [peer EXCEPT ![q.row] =
                        PresenceUpdate(p, q, p.epoch, p.act, p.retired, u, TRUE, TRUE)]
     /\ Done(h)
     /\ UNCHANGED <<clock, deleting, doomed>>

MayEnd(q) == Present(q.row) /\ Matches(q.lease, q)

EndPresenceLease(h) ==
  LET q == req[h]
      p == peer[q.row]
  IN /\ q.kind = "end"
     /\ MayEnd(q)
     /\ q.lease \notin doomed
     /\ lease' = EndOne(q.lease)
     /\ \E u \in {0} \cup {lease'[m].expires : m \in Lease} :
          /\ ActivePresenceUntil(lease', q.row, p.epoch, p.act, q.now, u)
          /\ peer' = [peer EXCEPT ![q.row] =
                        PresenceUpdate(p, q, p.epoch, p.act, p.retired, u,
                                       IsCurrent(p, q), FALSE)]
     /\ Done(h)
     /\ UNCHANGED <<clock, deleting, doomed>>

MayDeactivate(q) == Present(q.row) /\ ~Superseded(peer[q.row], q)

DeactivatePresenceActivation(h) ==
  LET q == req[h]
      p == peer[q.row]
  IN /\ q.kind = "deactivate"
     /\ MayDeactivate(q)
     /\ Unended(q.row) \cap doomed = {}
     /\ lease' = EndAll(q.row)
     /\ peer' = [peer EXCEPT ![q.row] =
                   PresenceUpdate(p, q, q.epoch, q.act, TRUE, 0, TRUE, FALSE)]
     /\ Done(h)
     /\ UNCHANGED <<clock, deleting, doomed>>

\* UpdatePresence (heartbeat) and StoreSysinfo write last_online_time blindly.
LegacyReport(h) ==
  LET q == req[h] IN
  /\ q.kind \in LegacyKinds
  /\ Present(q.row)
  /\ peer' = [peer EXCEPT ![q.row].last = q.now]
  /\ Done(h)
  /\ UNCHANGED <<clock, lease, deleting, doomed>>

\* Mutant: a request for a row deleted meanwhile is never answered.
RejectPresent(h) ==
  LET q == req[h] IN
  /\ \/ q.kind = "start" /\ Present(q.row) /\ ~MayStart(q)
     \/ q.kind = "renew" /\ Present(q.row) /\ ~MayRenew(q)
     \/ q.kind = "end" /\ Present(q.row) /\ ~MayEnd(q)
     \/ q.kind = "deactivate" /\ Present(q.row) /\ ~MayDeactivate(q)
  /\ Done(h)
  /\ UNCHANGED <<clock, peer, lease, deleting, doomed>>

\* Every other outcome is an error response and a rolled back transaction.
Reject(h) ==
  LET q == req[h] IN
  /\ \/ q.kind = "start" /\ ~MayStart(q)
     \/ q.kind = "renew" /\ ~MayRenew(q)
     \/ q.kind = "end" /\ ~MayEnd(q)
     \/ q.kind = "deactivate" /\ ~MayDeactivate(q)
     \/ q.kind \in LegacyKinds /\ ~Present(q.row)
  /\ Done(h)
  /\ UNCHANGED <<clock, peer, lease, deleting, doomed>>

-----------------------------------------------------------------------------
(* PeerService.Delete: leases first, then the row, then commit.            *)

DeleteLeases(r) ==
  /\ clock <= LastArrival
  /\ Present(r)
  /\ deleting = NoRow
  /\ deleting' = r
  /\ doomed' = {l \in Lease : lease[l].row = r /\ lease[l].state # "deleted"}
  /\ UNCHANGED <<clock, peer, lease, req>>

DeleteCommit ==
  /\ deleting # NoRow
  /\ peer' = [peer EXCEPT ![deleting].state = "deleted"]
  /\ lease' = [l \in Lease |->
                 IF l \in doomed THEN [lease[l] EXCEPT !.state = "deleted"]
                                 ELSE lease[l]]
  /\ deleting' = NoRow
  /\ doomed' = {}
  /\ UNCHANGED <<clock, req>>

\* Mutant: the rollback keeps its list of deleted leases.
DeleteRollbackKeepsLocks ==
  /\ deleting # NoRow
  /\ deleting' = NoRow
  /\ UNCHANGED <<clock, peer, lease, req, doomed>>

\* An error, or the database choosing the transaction as deadlock victim.
DeleteRollback ==
  /\ deleting # NoRow
  /\ deleting' = NoRow
  /\ doomed' = {}
  /\ UNCHANGED <<clock, peer, lease, req>>

\* DataRetentionService.Cleanup deletes leases that expired long ago.
Cleanup ==
  LET old == {l \in Lease : /\ lease[l].state \in {"open", "ended"}
                            /\ lease[l].expires < clock - Retention
                            /\ l \notin doomed}
  IN /\ old # {}
     /\ lease' = [l \in Lease |->
                    IF l \in old THEN [lease[l] EXCEPT !.state = "deleted"]
                                 ELSE lease[l]]
     /\ UNCHANGED <<clock, peer, req, deleting, doomed>>

Tick ==
  /\ clock < MaxTime
  /\ \A h \in Handler : req[h].kind # "idle" => clock < req[h].now + MaxDelay
  /\ clock' = clock + 1
  /\ UNCHANGED <<peer, lease, req, deleting, doomed>>

-----------------------------------------------------------------------------
HandlerStep(h) ==
  \/ \E l \in Lease : StartPresenceLease(h, l)
  \/ RenewPresenceLease(h)
  \/ EndPresenceLease(h)
  \/ DeactivatePresenceActivation(h)
  \/ LegacyReport(h)
  \/ Reject(h)

ClientStep(h) ==
  \E r \in Row :
    \/ \E k \in ActivationKinds, e \in Epoch, a \in ActivationID :
         ArriveActivation(h, r, k, e, a)
    \/ \E k \in LeaseKinds, l \in Lease : ArriveLease(h, r, k, l)
    \/ \E k \in LegacyKinds : ArriveLegacy(h, r, k)

Next ==
  \/ \E h \in Handler : ClientStep(h) \/ HandlerStep(h)
  \/ \E r \in Row : CreatePeer(r) \/ DeleteLeases(r)
  \/ DeleteCommit
  \/ DeleteRollback
  \/ Cleanup
  \/ Tick

Spec == Init /\ [][Next]_vars

\* Time passes, the delete transaction ends and handlers finish.  A handler that
\* waits for a row lock gets it before a transaction that asks for it later, so
\* it is not passed over for ever: strong fairness.
Fairness ==
  /\ WF_vars(Tick)
  /\ \A h \in Handler : SF_vars(HandlerStep(h))
  /\ WF_vars(DeleteCommit \/ DeleteRollback)

FairSpec == Spec /\ Fairness

-----------------------------------------------------------------------------
(* Properties.                                                             *)

TypeOK ==
  /\ clock \in Nat
  /\ peer \in [Row -> PeerRecord]
  /\ lease \in [Lease -> LeaseRecord]
  /\ req \in [Handler -> Request]
  /\ deleting \in Row \cup {NoRow}
  /\ doomed \subseteq Lease
  /\ deleting = NoRow => doomed = {}

\* Every lease of a present row that nobody has ended belongs to the activation
\* the row holds, and that activation has not been retired: the takeover in
\* StartPresenceLease and DeactivatePresenceActivation leave no lease of an
\* earlier profile behind, whatever requests of that profile are still queued.
LiveLeaseIsCurrent ==
  \A r \in Row : Present(r) => \A l \in Unended(r) :
    /\ lease[l].epoch = peer[r].epoch
    /\ lease[l].act = peer[r].act
    /\ ~peer[r].retired

\* presence_online_until, computed by each transaction with the time its handler
\* read earlier, agrees now with the lease table: the peer is v2-online exactly
\* while an unended lease of its current activation expires in the future.
OnlineUntilIsAggregate ==
  \A r \in Row : Present(r) =>
    (peer[r].until > clock <=> \E l \in Unended(r) : lease[l].expires > clock)

\* What makes the two invariants above inductive.  A queued request is never
\* from the future; only rows that exist have leases; an open lease and a queued
\* start or deactivate name a real activation, so a row without one has none open.
RequestsSane ==
  \A h \in Handler :
    /\ req[h].now <= clock
    /\ req[h].kind # "idle" => req[h].row \in Row
    /\ req[h].kind \in LeaseKinds => req[h].lease \in Lease
    /\ req[h].kind \in ActivationKinds =>
         req[h].epoch > 0 /\ req[h].act \in ActivationID

RowsSane ==
  /\ \A r \in Row :
       /\ peer[r].state = "new" => peer[r] = FreshPeer
       /\ peer[r].act = NoActivation => peer[r].epoch = 0 /\ ~peer[r].retired
  /\ deleting # NoRow => Present(deleting)

LeasesSane ==
  /\ \A l \in Lease :
       /\ lease[l].state = "free" <=> lease[l].row = NoRow
       /\ lease[l].state # "free" =>
            /\ peer[lease[l].row].state # "new"
            /\ lease[l].act \in ActivationID
  /\ \A l \in doomed : lease[l].row = deleting /\ deleting \in Row

\* The aggregate, split by direction: it covers every lease that counts now, and
\* while it lies in the future it is the expiry of a lease.
UntilCovers ==
  \A r \in Row : Present(r) => \A l \in Unended(r) :
    lease[l].expires <= peer[r].until \/ lease[l].expires <= clock

UntilIsGranted ==
  \A r \in Row : Present(r) =>
    peer[r].until <= clock \/ \E l \in Unended(r) : lease[l].expires = peer[r].until

PresenceInv ==
  /\ TypeOK
  /\ RequestsSane
  /\ RowsSane
  /\ LeasesSane
  /\ LiveLeaseIsCurrent
  /\ UntilCovers
  /\ UntilIsGranted

\* The activation of a row only moves forward: no late start, deactivate, renew
\* or end brings back an older epoch, replaces the activation of the same epoch
\* by another one, or revives an activation that was retired.
ActivationMonotonic ==
  [][\A r \in Row : Present(r) =>
       \/ peer'[r].epoch > peer[r].epoch
       \/ /\ peer'[r].epoch = peer[r].epoch
          /\ peer'[r].act = peer[r].act
          /\ peer[r].retired => peer'[r].retired]_vars

\* Ending one lease cannot end another: a step that leaves the activation of a
\* present row as it is ends at most one of its leases.
EndIsLocal ==
  [][\A r \in Row :
       /\ Present(r) /\ Present(r)'
       /\ peer'[r].epoch = peer[r].epoch
       /\ peer'[r].retired = peer[r].retired
       => \A l, m \in Unended(r) :
            lease'[l].state = "ended" /\ lease'[m].state = "ended" => l = m]_vars

\* An ended lease contributes to nothing any more: no queued renew, whatever it
\* read before, opens it again or moves its expiry.
EndedStaysEnded ==
  [][\A l \in Lease : lease[l].state \in {"ended", "deleted"} =>
       /\ lease'[l].state \in {"ended", "deleted"}
       /\ lease'[l].expires = lease[l].expires]_vars

\* A deleted row is inert: no request still queued for it grants or renews a
\* lease of it, not even a lease the delete transaction failed to see because it
\* was granted between the transaction's two statements.
DeletedRowIsInert ==
  [][\A r \in Row : peer[r].state = "deleted" =>
       \A l \in Lease : lease'[l].row = r =>
         /\ lease[l].row = r
         /\ lease'[l].expires = lease[l].expires]_vars

\* Every request is answered: neither the delete transaction that holds lease
\* rows nor a row that vanished leaves a handler waiting for ever.
RequestsAnswered ==
  \A h \in Handler : req[h].kind # "idle" ~> req[h].kind = "idle"

\* A crashed client needs no cleanup request: once clients fall silent, a peer
\* its leases keep online goes offline and stays so.
CrashedClientGoesOffline ==
  \A r \in Row : <>[](~(Present(r) /\ peer[r].until > clock))

=============================================================================
