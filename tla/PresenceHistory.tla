--------------------------- MODULE PresenceHistory ---------------------------
(***************************************************************************)
(* Presence with a history of what clients did: when the last accepted v2  *)
(* request of a row's current activation was made, and when the row's last *)
(* request of any kind that vouches for the client was.  The history       *)
(* variables record, and never restrict, what Presence does.               *)
(***************************************************************************)
EXTENDS Presence

VARIABLES
  v2At,     \* the time of the latest v2 request of the activation then current
  contactAt \* the time of the latest start, renew, heartbeat or inventory report

hvars == <<vars, v2At, contactAt>>

Later(s, t) == IF s < t THEN t ELSE s

AcceptedV2(q) ==
  \/ q.kind = "start" /\ MayStart(q)
  \/ q.kind = "renew" /\ MayRenew(q)
  \/ q.kind = "end" /\ MayEnd(q) /\ IsCurrent(peer[q.row], q)
  \/ q.kind = "deactivate" /\ MayDeactivate(q)

AcceptedContact(q) ==
  \/ q.kind \in {"start", "renew"} /\ AcceptedV2(q)
  \/ q.kind \in LegacyKinds /\ Present(q.row)

\* The history value of row r after a step that serves some accepted request.
Record(at, r, Accepted(_)) ==
  LET served == {h \in Handler : /\ req[h].kind # "idle" /\ req'[h] = Idle
                                 /\ req[h].row = r /\ Accepted(req[h])}
  IN IF served = {} THEN at[r]
     ELSE Later(at[r], req[CHOOSE h \in served : TRUE].now)

HInit ==
  /\ Init
  /\ v2At = [r \in Row |-> 0]
  /\ contactAt = [r \in Row |-> 0]

HNext ==
  /\ Next
  /\ v2At' = [r \in Row |-> Record(v2At, r, AcceptedV2)]
  /\ contactAt' = [r \in Row |-> Record(contactAt, r, AcceptedContact)]

HSpec == HInit /\ [][HNext]_hvars

FairHSpec == HSpec /\ Fairness

-----------------------------------------------------------------------------
(* Properties.                                                             *)

\* PRESENCE-LEASE-V2: for the fallback window after v2 activity the lease
\* aggregate alone decides whether the peer is online.  The code keeps the time
\* of the request that committed last, which may be the older one, so the window
\* loses at most the time a handler waits between reading the clock and
\* committing.
AuthorityWithinDelay ==
  \A r \in Row :
    Present(r) /\ v2At[r] > 0 /\ clock + MaxDelay <= v2At[r] + Fallback
      => (Online(r) <=> peer[r].until > clock)

\* No peer is online on the strength of an old request: whatever order leases
\* are renewed, ended and purged in, a peer shown online was heard from within
\* the lease TTL or the legacy window.
OnlineMeansRecentContact ==
  \A r \in Row : Online(r) =>
    \/ contactAt[r] + TTL > clock
    \/ contactAt[r] + LegacyWindow > clock

-----------------------------------------------------------------------------
(* Why they hold.                                                          *)

\* A queued request is at most MaxDelay old.
RequestsRecent ==
  /\ BaseTime <= clock
  /\ \A h \in Handler : req[h].kind # "idle" =>
       BaseTime <= req[h].now /\ clock <= req[h].now + MaxDelay

\* A row's v2 time is behind its latest v2 request by a handler's wait at most.
SeenFollows ==
  \A r \in Row :
    /\ v2At[r] <= clock
    /\ v2At[r] > 0 => peer[r].seen > 0 /\ v2At[r] <= peer[r].seen + MaxDelay

\* Everything that shows a peer online was granted by a contact.
GrantedByContact ==
  /\ \A l \in Lease : lease[l].state # "free" =>
       lease[l].expires <= contactAt[lease[l].row] + TTL
  /\ \A r \in Row :
       peer[r].until <= contactAt[r] + TTL /\ peer[r].last <= contactAt[r]

HistoryInv ==
  /\ v2At \in [Row -> Nat] /\ contactAt \in [Row -> Nat]
  /\ RequestsRecent
  /\ SeenFollows
  /\ GrantedByContact

=============================================================================
