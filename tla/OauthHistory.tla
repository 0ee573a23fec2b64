---------------------------- MODULE OauthHistory ----------------------------
(* OauthStates with what is forgotten when a state is taken or expires: when*)
(* its client learnt the key, and how often a callback has claimed it.      *)
EXTENDS OauthStates

VARIABLES
  published,                  \* when each state's key was given out
  claims                      \* callbacks that claimed each state

hvars == <<items, drawn, op, third, sessions, now, published, claims>>

HInit ==
  /\ Init
  /\ published = [s \in State |-> 0]
  /\ claims = [s \in State |-> 0]

Published(p, s) == op[p].pc = "begun" /\ op[p].state = s /\ op'[p].pc = "idle"
Claimed(p, s) == op[p].pc = "idle" /\ op'[p].pc = "called" /\ op'[p].state = s

Record ==
  /\ published' = [s \in State |-> IF \E p \in Proc : Published(p, s)
                                   THEN now ELSE published[s]]
  /\ claims' = [s \in State |-> IF \E p \in Proc : Claimed(p, s)
                                THEN claims[s] + 1 ELSE claims[s]]

HNext == Next /\ Record

HSpec == HInit /\ [][HNext]_hvars

-----------------------------------------------------------------------------
\* A state that a provider answers is claimed by one callback and completes at
\* most one sign-in, however callbacks, polls and bind confirmations overlap;
\* the state of an account binding never signs anyone in.
ClaimedOnce == \A s \in State : drawn[s] # "webauth" => claims[s] <= 1

SessionOnce ==
  /\ \A s \in State : drawn[s] = "provider" => Len(sessions[s]) <= 1
  /\ \A s \in State : drawn[s] = "bind" => sessions[s] = <<>>

\* A sign-in that is not completed within the lifetime of its state is never
\* completed, however late the provider or the user answers.
CompletedInTime ==
  [][\A s \in State : sessions'[s] # sessions[s]
                        => now < published[s] + Lifetime]_hvars

\* "A completed state is consumed exactly once so concurrent polling cannot
\* mint two sessions" (OidcAuthQueryPre), for sign-ins confirmed by a user.
WebauthSessionOnce ==
  \A s \in State : drawn[s] = "webauth" => Len(sessions[s]) <= 1

(* Why these hold.  A key belongs to the handler that drew it until it is   *)
(* published; afterwards the one callback that may claim it is the only     *)
(* handler that can answer it, and while it is at work there is no answer   *)
(* and no session yet.                                                      *)
InCallback(p, s) == op[p].state = s /\ op[p].pc \in {"called", "store"}

IdleHasNoState == \A p \in Proc : op[p].pc = "idle" <=> op[p].state = NoState

UndrawnIsUnused(s) ==
  drawn[s] = "none" =>
    /\ items[s] = NoItem /\ claims[s] = 0 /\ sessions[s] = <<>>
    /\ \A p \in Proc : op[p].state # s

KindIsKept(s) ==
  /\ items[s] # NoItem =>
       items[s].action = "none" \/ KindOf(items[s]) = drawn[s]
  /\ \A p \in Proc : op[p].state = s =>
       /\ op[p].item.action # "none"
       /\ KindOf(op[p].item) = drawn[s]
       /\ op[p].pc = "store" => op[p].item.action = "login"

BegunIsAlone(s) ==
  \A p \in Proc : op[p].pc = "begun" /\ op[p].state = s =>
    /\ items[s] # NoItem => items[s].action = "none"
    /\ claims[s] = 0 /\ sessions[s] = <<>>
    /\ op[p].item.action = "login" => op[p].item.user = NoUser
    /\ \A q \in Proc : op[q].state = s => q = p

ClaimIsUnique(s) ==
  drawn[s] # "webauth" =>
    /\ claims[s] = 0 \/ claims[s] = 1
    /\ claims[s] = 1 /\ items[s] # NoItem => items[s].claimed
    /\ \A p \in Proc : InCallback(p, s) =>
         /\ claims[s] = 1 /\ op[p].item.claimed
         /\ \A q \in Proc : InCallback(q, s) => q = p

AnswerIsUnique(s) ==
  drawn[s] = "provider" =>
    /\ sessions[s] = <<>> \/ (Len(sessions[s]) = 1 /\ claims[s] = 1)
    /\ items[s] # NoItem /\ items[s].user # NoUser =>
         sessions[s] = <<>> /\ claims[s] = 1
    /\ \A p \in Proc : InCallback(p, s) =>
         /\ sessions[s] = <<>>
         /\ items[s] # NoItem => items[s].user = NoUser

BindHasNoSession(s) == drawn[s] = "bind" => sessions[s] = <<>>

ExpiryIsKept(s) ==
  /\ items[s] # NoItem /\ items[s].action # "none" =>
       items[s].expires <= published[s] + Lifetime
  /\ \A p \in Proc : InCallback(p, s) =>
       op[p].item.expires <= published[s] + Lifetime

StateInv(s) ==
  /\ UndrawnIsUnused(s) /\ KindIsKept(s) /\ BegunIsAlone(s)
  /\ ClaimIsUnique(s) /\ AnswerIsUnique(s) /\ BindHasNoSession(s)
  /\ ExpiryIsKept(s)

OauthInv ==
  /\ TypeOK
  /\ published \in [State -> Nat] /\ claims \in [State -> Nat]
  /\ CapacityHolds
  /\ IdleHasNoState
  /\ \A s \in State : StateInv(s)
=============================================================================
