--------------------------- MODULE ManagedRegistry ---------------------------
(* What the registry of managed Starry instances promises its readers       *)
(* (managed_instances and registry_meta.generation in                       *)
(* internal/servercontrolregistry): a name is paired with one instance,     *)
(* read-only; rotations replace the identity of the same instance; every    *)
(* change has a generation of its own.  Pairing implements this, and        *)
(* ManagedTable reads it.                                                   *)
EXTENDS Naturals

CONSTANTS
  Managed,                    \* the administrator's names of instances
  Instance,                   \* an agent's own UUID
  Enrollment,                 \* a pairing; an identity's files live under it
  None,
  MaxGeneration               \* bound: the generation stops here

VARIABLES
  managed,                    \* managed_instances
  claimed,                    \* the enrollments whose claim was completed
  generation                  \* registry_meta.generation

registry == <<managed, claimed, generation>>

ASSUME RegistryAssumption ==
  /\ None \notin Instance \cup Enrollment
  /\ MaxGeneration \in Nat \ {0}

Row == [instance : Instance, identity : Enrollment, readOnly : BOOLEAN]

ASSUME NoRowAssumption == None \notin Row

Table == [Managed -> Row \cup {None}]

EmptyTable == [m \in Managed |-> None]

RegistryInit ==
  /\ managed = EmptyTable
  /\ claimed = {}
  /\ generation = 1

\* mutate: a change of the registry and its generation, under the file lock.
Mutate == generation < MaxGeneration /\ generation' = generation + 1

\* A code is created, bound or revoked.
ChangeCode == Mutate /\ UNCHANGED <<managed, claimed>>

\* A claim is completed: pairing a free name or rotating its instance.
Manage(m, i, e) ==
  /\ managed[m] # None => managed[m].instance = i
  /\ \A n \in Managed : n # m /\ managed[n] # None => managed[n].instance # i
  /\ e \notin claimed
  /\ Mutate
  /\ managed' = [managed EXCEPT ![m] =
                   [instance |-> i, identity |-> e, readOnly |-> TRUE]]
  /\ claimed' = claimed \cup {e}

SetManagedReadOnly(m, readOnly) ==
  /\ managed[m] # None
  /\ Mutate
  /\ managed' = [managed EXCEPT ![m].readOnly = readOnly]
  /\ UNCHANGED claimed

RegistryNext ==
  \/ ChangeCode
  \/ \E m \in Managed :
       \/ \E i \in Instance, e \in Enrollment : Manage(m, i, e)
       \/ \E readOnly \in BOOLEAN : SetManagedReadOnly(m, readOnly)

RegistrySpec == RegistryInit /\ [][RegistryNext]_registry
=============================================================================
