----------------------------- MODULE MCAccounts -----------------------------
(* Instances of Accounts for TLC.  Handlers are interchangeable; users     *)
(* differ in whether the directory knows them.                              *)
EXTENDS AccountsHistory, TLC

\* A version 2 client's update form, which carries only the is_admin flag: it
\* demotes an administrator and leaves a user's role alone.  Promotions come from
\* the directory syncs and the recovery command.
SmallForms == {[role |-> "none", isAdmin |-> "no"]}

Symmetry == Permutations(Proc)
=============================================================================
