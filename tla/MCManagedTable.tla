--------------------------- MODULE MCManagedTable ---------------------------
(* Instances of ManagedTable for TLC.                                       *)
EXTENDS ManagedTable, TLC

Symmetry == Permutations(Managed) \cup Permutations(Instance)
              \cup Permutations(Enrollment) \cup Permutations(Proc)
=============================================================================
