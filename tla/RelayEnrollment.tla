--------------------------- MODULE RelayEnrollment ---------------------------
(* Pairing codes for relays (service/starryPairing.go with                  *)
(* internal/servercontrolregistry and internal/starrycontrol/starry).        *)
(*                                                                          *)
(* A relay is enrolled in two places: the agent of a Starry instance, which  *)
(* authorizes and keeps the enrollment, and this server's registry, which    *)
(* keeps the code.  Creating, claiming and revoking write both, one after    *)
(* the other and in overlapping requests; any of them may stop between two   *)
(* steps: an answer lost, a write refused, a restart.                        *)
(*                                                                          *)
(* The agent is external: it gives a repeated idempotency key the same       *)
(* enrollment, a repeated completion the same answer, and binds the first    *)
(* request that completes an enrollment.  Who asks for a code chooses the    *)
(* key, and may ask again with it.                                           *)

CONSTANTS
  Enrollment,                 \* by the idempotency key it is prepared with
  Request,                    \* the digest of a claim: a key and its CSR
  Creator, Claimer, Revoker,  \* requests of the console, relays and console
  None

VARIABLES
  enrollment,                 \* the agent's
  code,                       \* the registry's row
  creator, claimer, revoker,  \* what each handler is doing
  answered,                   \* the bundles given out, with their requests
  asked,                      \* the enrollments whose revocation was asked for
  repeated                    \* those prepared again with a key used before

handlers == <<creator, claimer, revoker>>

vars == <<enrollment, code, handlers, answered, asked, repeated>>

-----------------------------------------------------------------------------
(* State                                                                    *)

AgentState == {"pending_claim", "claimed", "active", "revoked"}

AgentEnrollment == [state : AgentState, request : Request \cup {None}]

\* open: before its expiry, or in its recovery window once it is bound.
Code == [state : {"pending", "bound", "claimed", "revoked"},
         request : Request \cup {None}, open : BOOLEAN]

Create == [pc : {"idle", "prepared", "compensate", "done"},
           e : Enrollment \cup {None}]

Claim == [pc : {"idle", "complete", "record", "answer"},
          e : Enrollment \cup {None}, request : Request \cup {None}]

\* found: the registry has a row for the enrollment.
Revoke == [pc : {"idle", "call", "read", "write", "done"},
           e : Enrollment \cup {None}, found : BOOLEAN]

NoClaim == [pc |-> "idle", e |-> None, request |-> None]

Ended == [pc |-> "done", e |-> None, found |-> FALSE]

TypeOK ==
  /\ enrollment \in [Enrollment -> AgentEnrollment \cup {None}]
  /\ code \in [Enrollment -> Code \cup {None}]
  /\ creator \in [Creator -> Create]
  /\ claimer \in [Claimer -> Claim]
  /\ revoker \in [Revoker -> Revoke]
  /\ answered \subseteq Enrollment \X Request
  /\ asked \subseteq Enrollment
  /\ repeated \subseteq Enrollment

Init ==
  /\ enrollment = [e \in Enrollment |-> None]
  /\ code = [e \in Enrollment |-> None]
  /\ creator = [h \in Creator |-> [pc |-> "idle", e |-> None]]
  /\ claimer = [h \in Claimer |-> NoClaim]
  /\ revoker = [h \in Revoker |-> [pc |-> "idle", e |-> None, found |-> FALSE]]
  /\ answered = {}
  /\ asked = {}
  /\ repeated = {}

-----------------------------------------------------------------------------
(* Creating a code: the agent prepares, the registry inserts                *)

\* A prepared enrollment is answered in its first state only.
PrepareAtAgent(h, e) ==
  /\ creator[h].pc = "idle"
  /\ enrollment[e] # None => enrollment[e].state = "pending_claim"
  /\ enrollment' = [enrollment EXCEPT ![e] =
                      [state |-> "pending_claim", request |-> None]]
  /\ creator' = [creator EXCEPT ![h] = [pc |-> "prepared", e |-> e]]
  /\ repeated' = IF enrollment[e] = None THEN repeated ELSE repeated \cup {e}
  /\ UNCHANGED <<code, claimer, revoker, answered, asked>>

\* The primary key refuses a second row.
InsertCode(h, pc) ==
  /\ creator[h].pc = "prepared"
  /\ code[creator[h].e] = None
  /\ code' = [code EXCEPT ![creator[h].e] =
                [state |-> "pending", request |-> None, open |-> TRUE]]
  /\ creator' = [creator EXCEPT ![h].pc = pc]
  /\ UNCHANGED <<enrollment, claimer, revoker, answered, asked, repeated>>

\* A plausible bug: what undoes a failed creation runs after every creation.
CreateAndUndo(h) == InsertCode(h, "compensate")

\* The code is answered with its row.
CreateEnrollment(h) == InsertCode(h, "done")

\* The digest or the expiry is not as it should be, or the row is refused.
CreateFails(h) ==
  /\ creator[h].pc = "prepared"
  /\ creator' = [creator EXCEPT ![h].pc = "compensate"]
  /\ UNCHANGED <<enrollment, code, claimer, revoker, answered, asked, repeated>>

RevokeAtAgent(e) ==
  enrollment' = [enrollment EXCEPT ![e].state = "revoked"]

\* Its error is ignored.
CompensateAtAgent(h) ==
  /\ creator[h].pc = "compensate"
  /\ RevokeAtAgent(creator[h].e)
  /\ creator' = [creator EXCEPT ![h].pc = "done"]
  /\ UNCHANGED <<code, claimer, revoker, answered, asked, repeated>>

CreatorStops(h) ==
  /\ creator[h].pc \in {"prepared", "compensate"}
  /\ creator' = [creator EXCEPT ![h].pc = "done"]
  /\ UNCHANGED <<enrollment, code, claimer, revoker, answered, asked, repeated>>

-----------------------------------------------------------------------------
(* Claiming: bound in the registry, completed at the agent, recorded        *)

\* A plausible bug: any request recovers a bound code.
RecoversAny(e, request) == code[e].state \in {"bound", "claimed"}

Recovers(e, request) ==
  /\ code[e].state \in {"bound", "claimed"}
  /\ code[e].request = request

\* BeginClaim, purpose, digest and secret being those of the code.
BeginClaim(h, e, request) ==
  /\ claimer[h].pc = "idle"
  /\ code[e] # None /\ code[e].open
  /\ \/ /\ code[e].state = "pending"
        /\ code' = [code EXCEPT ![e] =
                      [state |-> "bound", request |-> request, open |-> TRUE]]
     \/ Recovers(e, request) /\ UNCHANGED code
  /\ claimer' = [claimer EXCEPT ![h] =
                   [pc |-> "complete", e |-> e, request |-> request]]
  /\ UNCHANGED <<enrollment, creator, revoker, answered, asked, repeated>>

\* Bound now, or asked for again with the same request.
CompleteAtAgent(h) ==
  LET e == claimer[h].e
      request == claimer[h].request
  IN  /\ claimer[h].pc = "complete"
      /\ \/ /\ enrollment[e].state = "pending_claim"
            /\ enrollment' = [enrollment EXCEPT ![e] =
                                [state |-> "claimed", request |-> request]]
         \/ /\ enrollment[e].state \in {"claimed", "active"}
            /\ enrollment[e].request = request
            /\ UNCHANGED enrollment
      /\ claimer' = [claimer EXCEPT ![h].pc = "record"]
      /\ UNCHANGED <<code, creator, revoker, answered, asked, repeated>>

CompleteRelayClaim(h) ==
  /\ claimer[h].pc = "record"
  /\ code[claimer[h].e].state \in {"bound", "claimed"}
  /\ code' = [code EXCEPT ![claimer[h].e].state = "claimed"]
  /\ claimer' = [claimer EXCEPT ![h].pc = "answer"]
  /\ UNCHANGED <<enrollment, creator, revoker, answered, asked, repeated>>

AnswerClaim(h) ==
  /\ claimer[h].pc = "answer"
  /\ answered' = answered \cup {<<claimer[h].e, claimer[h].request>>}
  /\ claimer' = [claimer EXCEPT ![h] = NoClaim]
  /\ UNCHANGED <<enrollment, code, creator, revoker, asked, repeated>>

\* Refused, cut off, or its answer lost; the relay may ask again.
ClaimStops(h) ==
  /\ claimer[h].pc # "idle"
  /\ claimer' = [claimer EXCEPT ![h] = NoClaim]
  /\ UNCHANGED <<enrollment, code, creator, revoker, answered, asked, repeated>>

-----------------------------------------------------------------------------
(* Revoking: at the agent first, then in the registry                       *)

BeginRevoke(h, e) ==
  /\ revoker[h].pc = "idle"
  /\ enrollment[e] # None
  /\ revoker' = [revoker EXCEPT ![h] = [pc |-> "call", e |-> e, found |-> FALSE]]
  /\ asked' = asked \cup {e}
  /\ UNCHANGED <<enrollment, code, creator, claimer, answered, repeated>>

RevokeCall(h) ==
  /\ revoker[h].pc = "call"
  /\ RevokeAtAgent(revoker[h].e)
  /\ revoker' = [revoker EXCEPT ![h].pc = "read"]
  /\ UNCHANGED <<code, creator, claimer, answered, asked, repeated>>

\* A plausible bug: the row of a claim that goes on is left.
RevocablePending(e) == code[e].state = "pending"

Revocable(e) == code[e].state \in {"pending", "bound"}

\* syncLocalRelayRevocation: a row that is not there, or not open, is left.
ReadCode(h) ==
  /\ revoker[h].pc = "read"
  /\ LET e == revoker[h].e
     IN  revoker' = [revoker EXCEPT ![h] =
                       [pc |-> IF code[e] # None /\ Revocable(e) THEN "write" ELSE "done",
                        e |-> e, found |-> code[e] # None]]
  /\ UNCHANGED <<enrollment, code, creator, claimer, answered, asked, repeated>>

\* RevokeEnrollment: an error when the row has changed since.
RevokeEnrollment(h) ==
  LET e == revoker[h].e
  IN  /\ revoker[h].pc = "write"
      /\ IF code[e].state \in {"pending", "bound"}
         THEN /\ code' = [code EXCEPT ![e].state = "revoked"]
              /\ revoker' = [revoker EXCEPT ![h].pc = "done"]
         ELSE /\ revoker' = [revoker EXCEPT ![h] = Ended]
              /\ UNCHANGED code
      /\ UNCHANGED <<enrollment, creator, claimer, answered, asked, repeated>>

RevokeStops(h) ==
  /\ revoker[h].pc \in {"call", "read", "write"}
  /\ revoker' = [revoker EXCEPT ![h] = Ended]
  /\ UNCHANGED <<enrollment, code, creator, claimer, answered, asked, repeated>>

-----------------------------------------------------------------------------
(* The agent and the clock                                                  *)

\* ActivateRelayEnrollment, or the agent itself after the relay's health.
Activate(e) ==
  /\ enrollment[e] # None /\ enrollment[e].state = "claimed"
  /\ enrollment' = [enrollment EXCEPT ![e].state = "active"]
  /\ UNCHANGED <<code, handlers, answered, asked, repeated>>

\* The code expires, or its recovery window closes.
Close(e) ==
  /\ code[e] # None /\ code[e].open
  /\ code' = [code EXCEPT ![e].open = FALSE]
  /\ UNCHANGED <<enrollment, handlers, answered, asked, repeated>>

-----------------------------------------------------------------------------
(* Specification                                                            *)

CreateStep(h) ==
  \/ \E e \in Enrollment : PrepareAtAgent(h, e)
  \/ CreateEnrollment(h)
  \/ CreateFails(h)
  \/ CompensateAtAgent(h)
  \/ CreatorStops(h)

ClaimStep(h) ==
  \/ \E e \in Enrollment, request \in Request : BeginClaim(h, e, request)
  \/ CompleteAtAgent(h)
  \/ CompleteRelayClaim(h)
  \/ AnswerClaim(h)
  \/ ClaimStops(h)

RevokeStep(h) ==
  \/ \E e \in Enrollment : BeginRevoke(h, e)
  \/ RevokeCall(h)
  \/ ReadCode(h)
  \/ RevokeEnrollment(h)
  \/ RevokeStops(h)

Next ==
  \/ \E h \in Creator : CreateStep(h)
  \/ \E h \in Claimer : ClaimStep(h)
  \/ \E h \in Revoker : RevokeStep(h)
  \/ \E e \in Enrollment : Activate(e) \/ Close(e)

Spec == Init /\ [][Next]_vars

-----------------------------------------------------------------------------
(* Properties                                                               *)

\* The agent and the registry agree whose an enrollment is, after every
\* failure and repetition: what the agent gave to a request the registry had
\* bound to it, and a bundle is answered to that request only, once the
\* registry has recorded the claim.
RelayAgreement ==
  /\ \A e \in Enrollment :
       enrollment[e] # None /\ enrollment[e].request # None =>
         code[e] # None /\ code[e].request = enrollment[e].request
  /\ \A x \in answered :
       /\ enrollment[x[1]].request = x[2]
       /\ code[x[1]].state = "claimed"

\* A revocation that was answered as done, of an enrollment whose code the
\* registry had, leaves it usable at neither place, whatever claims and
\* creations were under way.
RevokedMeansClosed ==
  \A h \in Revoker :
    revoker[h].pc = "done" /\ revoker[h].found =>
      /\ enrollment[revoker[h].e].state = "revoked"
      /\ code[revoker[h].e].state \notin {"pending", "bound"}

\* Only a creation repeated with a used key can undo a code that was handed
\* out, however creations, claims and revocations overlap and fail: any other
\* code is good at the agent until its revocation is asked for.
UndoneOnlyWhenRepeated ==
  \A e \in Enrollment :
    code[e] # None /\ enrollment[e].state = "revoked" => e \in asked \cup repeated

\* A code that was handed out is good at the agent until its revocation is
\* asked for.  It does not hold: the repetition of a creation gets the same
\* enrollment, its row is refused, and what undoes it hits the first code.
HandedOutIsLive ==
  \A e \in Enrollment :
    code[e] # None /\ enrollment[e].state = "revoked" => e \in asked

\* A name is reserved, for control-agent codes too, by the codes that can still
\* be claimed or recovered.
ReservedWhileOpen ==
  LET reserving == {e \in Enrollment : code[e] # None /\ code[e].state \in {"pending", "bound"}}
  IN  reserving # {} => \E e \in reserving : code[e].open
-----------------------------------------------------------------------------
(* Why they hold                                                            *)

\* A code's row says what it is bound to, and comes after the enrollment.
CodesFit ==
  \A e \in Enrollment : code[e] # None =>
    /\ enrollment[e] # None
    /\ code[e].state = "pending" => code[e].request = None
    /\ code[e].state \in {"bound", "claimed"} => code[e].request # None

\* The agent has a request from a claim, which the registry had bound before.
AgentFollows ==
  \A e \in Enrollment : enrollment[e] # None =>
    /\ enrollment[e].state = "pending_claim" => enrollment[e].request = None
    /\ enrollment[e].request # None =>
         code[e] # None /\ code[e].request = enrollment[e].request

CreatorsFit ==
  \A h \in Creator : creator[h].pc \in {"prepared", "compensate"} =>
    creator[h].e \in Enrollment /\ enrollment[creator[h].e] # None

\* A claim under way has the request its code is bound to, and past the agent
\* that of the enrollment.
ClaimsFit ==
  \A h \in Claimer : claimer[h].pc # "idle" =>
    LET e == claimer[h].e IN
    /\ e \in Enrollment /\ code[e] # None
    /\ claimer[h].request # None /\ code[e].request = claimer[h].request
    /\ claimer[h].pc \in {"record", "answer"} => enrollment[e].request = claimer[h].request
    /\ claimer[h].pc = "answer" => code[e].state = "claimed"

\* A revocation under way has been asked for; past the agent it is done there,
\* and a code that was found and is not written is closed.
RevocationsFit ==
  \A h \in Revoker :
    LET e == revoker[h].e IN
    /\ revoker[h].pc \in {"call", "read", "write"} =>
         e \in Enrollment /\ enrollment[e] # None /\ e \in asked
    /\ revoker[h].pc = "write" => revoker[h].found
    /\ revoker[h].found => e \in Enrollment /\ code[e] # None
    /\ revoker[h].pc \in {"read", "write"} \/ revoker[h].found =>
         enrollment[e].state = "revoked"
    /\ revoker[h].pc = "done" /\ revoker[h].found =>
         code[e].state \notin {"pending", "bound"}

\* An enrollment that is being created under a new key has no code yet, and
\* only who prepared it undoes it.
CreationsApart ==
  \A h \in Creator :
    creator[h].pc \in {"prepared", "compensate"} /\ creator[h].e \notin repeated =>
      /\ code[creator[h].e] = None
      /\ enrollment[creator[h].e].state = "revoked" => creator[h].e \in asked
      /\ \A k \in Creator \ {h} :
           creator[k].pc \in {"prepared", "compensate"} => creator[k].e # creator[h].e

\* Both places know of what a bundle was given out for.
AnswersFit ==
  \A x \in answered : x[1] \in Enrollment /\ enrollment[x[1]] # None /\ code[x[1]] # None

RelayInv ==
  /\ TypeOK
  /\ CodesFit
  /\ AgentFollows
  /\ CreatorsFit
  /\ ClaimsFit
  /\ RevocationsFit
  /\ AnswersFit
  /\ RelayAgreement
  /\ CreationsApart
  /\ UndoneOnlyWhenRepeated
=============================================================================
