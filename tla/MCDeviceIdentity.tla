--------------------------- MODULE MCDeviceIdentity ---------------------------
(* Device identities on a small instance for TLC.                           *)
EXTENDS DeviceIdentity, TLC

Symmetry == Permutations(DeviceID) \cup Permutations(UUID) \cup Permutations(User)
              \cup Permutations(Proc) \cup Permutations(Row)

\* An administrator has entered a device by its id; devices bind, nobody else
\* does anything.
Placeholder ==
  /\ \E r \in Row, i \in DeviceID :
       peer = [[s \in Row |-> Absent] EXCEPT ![r] = [id |-> i, uuid |-> NoUUID, owner |-> NoUser]]
  /\ session = {}
  /\ op = [p \in Proc |-> Idle]
  /\ vouched = {}

BindersSpec == Placeholder /\ [][\E p \in Proc : BindStep(p)]_vars
=============================================================================
