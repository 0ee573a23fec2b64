------------------------------ MODULE MCOauth ------------------------------
(* Instances of the sign-ins for TLC: with a provider (OauthStates) and with*)
(* a password behind the login limiter (LoginLimiter).  They share no state,*)
(* so that in a behaviour one of them moves and the other stays in its      *)
(* initial state; the limiter's handlers and captchas bear the names of the *)
(* providers' handlers and states.                                          *)
EXTENDS OauthHistory, LoginLimiter, TLC

BothInit == HInit /\ LimiterInit

BothNext ==
  \/ LimiterInit /\ HNext /\ UNCHANGED limits
  \/ HInit /\ LimiterNext /\ UNCHANGED hvars

Both == BothInit /\ [][BothNext]_<<hvars, limits>>

Symmetry == Permutations(State) \cup Permutations(User)
            \cup Permutations(OpenId) \cup Permutations(Proc)
=============================================================================
