----------------------------- MODULE MCPairing -----------------------------
(* Instances of Enrollments for TLC.  Enrollments, keys, instances and      *)
(* handlers are interchangeable; the relays' requests and handlers are the  *)
(* model values of the agents', with which they never meet.                 *)
EXTENDS Enrollments, TLC

Symmetry == Permutations(Managed) \cup Permutations(Enrollment) \cup Permutations(Key)
              \cup Permutations(Instance) \cup Permutations(Proc)
=============================================================================
