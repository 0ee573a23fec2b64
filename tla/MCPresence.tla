----------------------------- MODULE MCPresence -----------------------------
(* Instances of Presence for TLC.  Leases, activation ids and handlers are  *)
(* interchangeable; rows are not (a row id is used after the one before it).*)
EXTENDS Presence, TLC

Symmetry ==
  Permutations(Lease) \cup Permutations(ActivationID) \cup Permutations(Handler)

=============================================================================
