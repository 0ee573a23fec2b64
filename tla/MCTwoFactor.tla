---------------------------- MODULE MCTwoFactor ----------------------------
(* TwoFactor on a small instance for TLC.  Secrets, challenges and handlers *)
(* are interchangeable.                                                     *)
EXTENDS TwoFactor, TLC

Symmetry == Permutations(Secret) \cup Permutations(Challenge) \cup Permutations(Proc)
=============================================================================
