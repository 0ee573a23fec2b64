------------------------------ MODULE MCControl ------------------------------
(* Instances of ControlOperations for TLC.                                  *)
EXTENDS ControlOperations, TLC

CONSTANTS c1, c2

\* Two revisions to roll back to, with different documents.
TwoRevisions == <<c1, c2>>

Symmetry == Permutations(PlanRequest) \cup Permutations(ChangeRequest)
              \cup Permutations(Poller) \cup Permutations(Admin) \cup Permutations(Key)
=============================================================================
