----------------------------- MODULE OauthStates -----------------------------
(* OAuth sign-ins of one server process: the in-memory states between the   *)
(* start of a sign-in or account binding, the provider's callback and the   *)
(* device's poll (service/oauth.go, http/controller/api/ouath.go,           *)
(* http/controller/admin/oauth.go), and the identity bindings and sessions  *)
(* they lead to.                                                            *)
(*                                                                          *)
(* Every operation on the states runs under one mutex and removes expired   *)
(* states first, but a handler works on a clone between its operations, and *)
(* asks the provider or the database meanwhile.  An operation that fails    *)
(* has no action here: all it does is remove expired states, which every    *)
(* reader does for itself.                                                  *)
EXTENDS Naturals, FiniteSets, Sequences

CONSTANTS
  State,                      \* the random keys that may be drawn
  User, OpenId, Proc,         \* accounts, provider identities, handlers
  NoState, NoUser, NoOpenId, NoItem,
  MaxStates,                  \* maxOauthStates
  Lifetime,                   \* oauthStateLifetime
  MaxTime                     \* bound: the clock stops here

VARIABLES
  items,                      \* OauthCache.items
  drawn,                      \* what each key was drawn for; none repeats
  op,                         \* what each handler is doing, and its clone
  third,                      \* user_thirds: the account of an identity
  sessions,                   \* the sessions issued for each state
  now

vars == <<items, drawn, op, third, sessions, now>>

ASSUME OauthAssumption ==
  /\ IsFiniteSet(State)
  /\ NoState \notin State /\ NoUser \notin User /\ NoOpenId \notin OpenId
  /\ MaxStates \in Nat \ {0} /\ Lifetime \in Nat \ {0} /\ MaxTime \in Nat

-----------------------------------------------------------------------------
(* action "none" is the reservation BeginAuth makes.  A "webauth" sign-in is*)
(* confirmed by a signed-in user, every other one by the provider.          *)
Item == [action : {"none", "login", "bind"}, webauth : BOOLEAN,
         user : User \cup {NoUser}, open : OpenId \cup {NoOpenId},
         claimed : BOOLEAN, expires : Nat]

ASSUME NoItemAssumption == NoItem \notin Item

Reservation == [action |-> "none", webauth |-> FALSE, user |-> NoUser,
                open |-> NoOpenId, claimed |-> FALSE, expires |-> 0]

Kind == {"none", "provider", "webauth", "bind"}

KindOf(item) ==
  IF item.action # "login" THEN item.action
  ELSE IF item.webauth THEN "webauth" ELSE "provider"

OpPC == {"idle", "begun", "called", "store", "bind", "bound"}
Op == [pc : OpPC, state : State \cup {NoState}, item : Item,
       user : User \cup {NoUser}]

Idle == [pc |-> "idle", state |-> NoState, item |-> Reservation, user |-> NoUser]

Init ==
  /\ items = [s \in State |-> NoItem]
  /\ drawn = [s \in State |-> "none"]
  /\ op = [p \in Proc |-> Idle]
  /\ third = [o \in OpenId |-> NoUser]
  /\ sessions = [s \in State |-> <<>>]
  /\ now = 0

-----------------------------------------------------------------------------
(* The store                                                                *)

Expired(item) == item.expires <= now

\* purgeExpiredOauthStatesLocked
Kept == [s \in State |->
           IF items[s] # NoItem /\ Expired(items[s]) THEN NoItem ELSE items[s]]

Size(store) == Cardinality({s \in State : store[s] # NoItem})

\* Mutant: only a new reservation is held against the capacity.
RoomAtReservation(s) == drawn[s] # "none" \/ Size(Kept) < MaxStates

\* A key that is not there needs a free place.
Room(s) == Kept[s] # NoItem \/ Size(Kept) < MaxStates

\* SetOauthCache with no lifetime: the item keeps its expiry.
SetItem(s, item) ==
  items' = IF Room(s) THEN [Kept EXCEPT ![s] = item] ELSE Kept

\* SetOauthCache with the full lifetime
Renewed(item) == [item EXCEPT !.expires = now + Lifetime]

-----------------------------------------------------------------------------
(* Starting a sign-in (OidcAuth) or a binding (ToBind)                      *)

BeginAuth(p, s, item) ==
  /\ op[p].pc = "idle"
  /\ drawn[s] = "none"
  /\ Room(s)
  /\ drawn' = [drawn EXCEPT ![s] = KindOf(item)]
  /\ SetItem(s, Renewed(Reservation))
  /\ op' = [op EXCEPT ![p] = [pc |-> "begun", state |-> s, item |-> item,
                              user |-> NoUser]]
  /\ UNCHANGED <<third, sessions, now>>

BeginLogin(p, s, webauth) ==
  BeginAuth(p, s, [Reservation EXCEPT !.action = "login", !.webauth = webauth])

\* UserThirdInfo: the user must not have an identity of this provider yet.
BeginBind(p, s, u) ==
  /\ \A o \in OpenId : third[o] # u
  /\ BeginAuth(p, s, [Reservation EXCEPT !.action = "bind", !.user = u])

\* The details replace the reservation, and the client learns the key.
PublishState(p) ==
  /\ op[p].pc = "begun"
  /\ SetItem(op[p].state, Renewed(op[p].item))
  /\ op' = [op EXCEPT ![p] = Idle]
  /\ UNCHANGED <<drawn, third, sessions, now>>

\* The provider's configuration cannot be read: the reservation is given back.
BeginFails(p) ==
  /\ op[p].pc = "begun"
  /\ items' = [items EXCEPT ![op[p].state] = NoItem]
  /\ op' = [op EXCEPT ![p] = Idle]
  /\ UNCHANGED <<drawn, third, sessions, now>>

-----------------------------------------------------------------------------
(* The provider's callback                                                  *)

\* Mutant: a claim is only noted in the handler's clone.
MarkClaimedInClone(item) == item

\* CallbackClaimed is set before the clone is taken.
MarkClaimed(item) == [item EXCEPT !.claimed = TRUE]

ClaimOauthCallback(p, s) ==
  /\ op[p].pc = "idle"
  /\ Kept[s] # NoItem
  /\ Kept[s].action # "none"
  /\ ~Kept[s].claimed
  /\ items' = [Kept EXCEPT ![s] = MarkClaimed(@)]
  /\ op' = [op EXCEPT ![p] = [pc |-> "called", state |-> s, user |-> NoUser,
                              item |-> [Kept[s] EXCEPT !.claimed = TRUE]]]
  /\ UNCHANGED <<drawn, third, sessions, now>>

\* Both unique indexes of user_thirds: one identity per account and provider,
\* one account per identity.
MayBind(o, u) == third[o] = NoUser /\ \A x \in OpenId : third[x] # u

\* The identity goes to the account that started the binding.
CallbackBinds(p, o) ==
  /\ op[p].pc = "called"
  /\ op[p].item.action = "bind"
  /\ MayBind(o, op[p].item.user)
  /\ third' = [third EXCEPT ![o] = op[p].item.user]
  /\ op' = [op EXCEPT ![p].pc = "bound"]
  /\ UNCHANGED <<items, drawn, sessions, now>>

DeleteOauthCache(p) ==
  /\ op[p].pc = "bound"
  /\ items' = [items EXCEPT ![op[p].state] = NoItem]
  /\ op' = [op EXCEPT ![p] = Idle]
  /\ UNCHANGED <<drawn, third, sessions, now>>

\* A sign-in whose provider answered; a webauth state has no provider to ask.
SignInAnswered(p) ==
  /\ op[p].pc = "called"
  /\ op[p].item.action = "login"
  /\ ~op[p].item.webauth
  /\ op[p].item.user = NoUser

\* InfoByOauthId: the identity belongs to an account.
CallbackFindsUser(p, o) ==
  /\ SignInAnswered(p)
  /\ third[o] # NoUser
  /\ op' = [op EXCEPT ![p].pc = "store", ![p].item.user = third[o]]
  /\ UNCHANGED <<items, drawn, third, sessions, now>>

\* No account and no automatic registration: the user is asked to bind one.
CallbackAsksToBind(p, o) ==
  /\ SignInAnswered(p)
  /\ third[o] = NoUser
  /\ op' = [op EXCEPT ![p].pc = "store", ![p].item.open = o]
  /\ UNCHANGED <<items, drawn, third, sessions, now>>

\* RegisterByOauth: a new account, or the one with the verified e-mail address.
CallbackRegisters(p, o, u) ==
  /\ SignInAnswered(p)
  /\ MayBind(o, u)
  /\ third' = [third EXCEPT ![o] = u]
  /\ op' = [op EXCEPT ![p].pc = "store", ![p].item.user = u]
  /\ UNCHANGED <<items, drawn, sessions, now>>

\* Mutant: storing a result gives the state another lifetime.
StoredRenewed(item) == Renewed(item)

Stored(item) == item

\* The callback's and Confirm's last step.  When there is no room the handler
\* answers with an error and nothing is stored.
StoreResult(p) ==
  /\ op[p].pc = "store"
  /\ SetItem(op[p].state, Stored(op[p].item))
  /\ op' = [op EXCEPT ![p] = Idle]
  /\ UNCHANGED <<drawn, third, sessions, now>>

-----------------------------------------------------------------------------
(* A signed-in user confirms a webauth sign-in, or binds the identity that  *)
(* a callback found without an account.                                     *)

Unanswered(s) ==
  /\ Kept[s] # NoItem
  /\ Kept[s].action = "login"
  /\ Kept[s].user = NoUser

Confirm(p, s, u) ==
  /\ op[p].pc = "idle"
  /\ Unanswered(s)
  /\ Kept[s].webauth
  /\ items' = Kept
  /\ op' = [op EXCEPT ![p] = [pc |-> "store", state |-> s, user |-> NoUser,
                              item |-> [Kept[s] EXCEPT !.user = u]]]
  /\ UNCHANGED <<drawn, third, sessions, now>>

BindConfirm(p, s, u) ==
  /\ op[p].pc = "idle"
  /\ Unanswered(s)
  /\ Kept[s].open # NoOpenId
  /\ items' = Kept
  /\ op' = [op EXCEPT ![p] = [pc |-> "bind", state |-> s, user |-> u,
                              item |-> Kept[s]]]
  /\ UNCHANGED <<drawn, third, sessions, now>>

BindOauthUser(p) ==
  /\ op[p].pc = "bind"
  /\ MayBind(op[p].item.open, op[p].user)
  /\ third' = [third EXCEPT ![op[p].item.open] = op[p].user]
  /\ op' = [op EXCEPT ![p].pc = "bound"]
  /\ UNCHANGED <<items, drawn, sessions, now>>

Unbind(u) ==
  /\ \E o \in OpenId : third[o] = u
  /\ third' = [o \in OpenId |-> IF third[o] = u THEN NoUser ELSE third[o]]
  /\ UNCHANGED <<items, drawn, op, sessions, now>>

-----------------------------------------------------------------------------
\* Mutant: the state of a binding answers a poll as well.
TakesAnyAction(s) == Kept[s] # NoItem /\ Kept[s].user # NoUser

\* Mutant: a state that nobody has answered yet is taken.
TakesUnanswered(s) == Kept[s] # NoItem /\ Kept[s].action = "login"

\* The state the device polls for is there, is a sign-in and has an answer.
Takes(s) ==
  /\ Kept[s] # NoItem
  /\ Kept[s].action = "login"
  /\ Kept[s].user # NoUser

\* OidcAuthQueryPre: the result is taken, and its account signed in.
Poll(s) ==
  /\ Takes(s)
  /\ items' = [Kept EXCEPT ![s] = NoItem]
  /\ sessions' = [sessions EXCEPT ![s] = Append(@, Kept[s].user)]
  /\ UNCHANGED <<drawn, op, third, now>>

\* The result is taken, but the account is gone or the sign-in fails.
PollFails(s) ==
  /\ Takes(s)
  /\ items' = [Kept EXCEPT ![s] = NoItem]
  /\ UNCHANGED <<drawn, op, third, sessions, now>>

\* An error of the provider or the database, a failed check, a closed request.
Fail(p) ==
  /\ op[p].pc # "idle"
  /\ op' = [op EXCEPT ![p] = Idle]
  /\ UNCHANGED <<items, drawn, third, sessions, now>>

\* The process restarts: states and handlers are gone, the tables are not.
Restart ==
  /\ items' = [s \in State |-> NoItem]
  /\ op' = [p \in Proc |-> Idle]
  /\ UNCHANGED <<drawn, third, sessions, now>>

Tick ==
  /\ now < MaxTime
  /\ now' = now + 1
  /\ UNCHANGED <<items, drawn, op, third, sessions>>

-----------------------------------------------------------------------------
HandlerStep(p) ==
  \/ \E s \in State :
       \/ \E w \in BOOLEAN : BeginLogin(p, s, w)
       \/ ClaimOauthCallback(p, s)
       \/ \E u \in User : \/ BeginBind(p, s, u)
                          \/ Confirm(p, s, u)
                          \/ BindConfirm(p, s, u)
  \/ \E o \in OpenId : \/ CallbackBinds(p, o)
                       \/ CallbackFindsUser(p, o)
                       \/ CallbackAsksToBind(p, o)
                       \/ \E u \in User : CallbackRegisters(p, o, u)
  \/ PublishState(p)
  \/ BeginFails(p)
  \/ DeleteOauthCache(p)
  \/ StoreResult(p)
  \/ BindOauthUser(p)
  \/ Fail(p)

Next ==
  \/ \E p \in Proc : HandlerStep(p)
  \/ \E s \in State : Poll(s) \/ PollFails(s)
  \/ \E u \in User : Unbind(u)
  \/ Restart
  \/ Tick

Spec == Init /\ [][Next]_vars

-----------------------------------------------------------------------------
TypeOK ==
  /\ items \in [State -> Item \cup {NoItem}]
  /\ drawn \in [State -> Kind]
  /\ op \in [Proc -> Op]
  /\ third \in [OpenId -> User \cup {NoUser}]
  /\ sessions \in [State -> Seq(User)]
  /\ now \in 0..MaxTime

\* The number of states stays bounded, whatever stale clones are written back
\* after their states have been taken, deleted or expired (maxOauthStates).
CapacityHolds == Size(items) <= MaxStates
=============================================================================
