-------------------------- MODULE MCPresenceHistory --------------------------
(* Instances of PresenceHistory for TLC.  In MCPresenceLive times are in    *)
(* units of 30 s: fallback 90 s, throttle 30 s, legacy window 60 s, and TTL *)
(* 60 s for 45.  Legacy reports go on for longer than v2 requests, so that  *)
(* one still shows when the fallback opens.                                 *)
EXTENDS PresenceHistory, TLC

Symmetry ==
  Permutations(Lease) \cup Permutations(ActivationID) \cup Permutations(Handler)

=============================================================================
