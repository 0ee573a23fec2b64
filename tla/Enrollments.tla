----------------------------- MODULE Enrollments -----------------------------
(* The two kinds of pairing codes beside each other: of control agents       *)
(* (Pairing) and of relays (RelayEnrollment).  They are rows of one table,   *)
(* told apart by their purpose, and share no state: in a behaviour one of    *)
(* the two moves and the other stays in its initial state.                   *)
EXTENDS Pairing

CONSTANTS
  RelayRequest,               \* the claims relays make
  Creator, Claimer, Revoker   \* the requests that create, claim and revoke

ASSUME RelayAssumption == None \notin Enrollment \cup RelayRequest

VARIABLES relay, code, creator, claimer, revoker, given, asked, repeated

relays == <<relay, code, creator, claimer, revoker, given, asked, repeated>>

Relay == INSTANCE RelayEnrollment
           WITH Request <- RelayRequest, enrollment <- relay, answered <- given

ASSUME RelayNoneAssumption == None \notin Relay!AgentEnrollment \cup Relay!Code

BothInit == Init /\ Relay!Init

BothNext ==
  \/ Relay!Init /\ Next /\ UNCHANGED relays
  \/ Init /\ Relay!Next /\ UNCHANGED vars

Both == BothInit /\ [][BothNext]_<<vars, relays>>

-----------------------------------------------------------------------------
\* What RelayEnrollment states of a relay's code and its enrollment.
RelayAgreement == Relay!RelayAgreement
RevokedMeansClosed == Relay!RevokedMeansClosed
UndoneOnlyWhenRepeated == Relay!UndoneOnlyWhenRepeated
HandedOutIsLive == Relay!HandedOutIsLive
=============================================================================
