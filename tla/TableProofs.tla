---------------------------- MODULE TableProofs -----------------------------
(* Proofs about tables of the server's database: the managed providers       *)
(* (ManagedTable), for any number of names, instances, handlers and          *)
(* generations, and the address books (AddressBooks), for any users,         *)
(* collections, keys and requests and any databases the server may start     *)
(* with.                                                                     *)
EXTENDS ManagedTable, AddressBooks, FiniteSetTheorems, NaturalsInduction,
        WellFoundedInduction, TLAPS

\* Every change of the registry has a generation of its own.
LEMMA RegistryStep ==
  ASSUME TableInv, RegistryNext
  PROVE  /\ generation' = generation + 1 /\ generation' \in 1..MaxGeneration
         /\ managed' \in Table /\ claimed' \subseteq Enrollment
<1>1. /\ managed \in Table /\ claimed \subseteq Enrollment
      /\ generation \in 1..MaxGeneration
  BY DEF TableInv, TypeOK
<1>2. ASSUME Mutate PROVE generation' = generation + 1 /\ generation' \in 1..MaxGeneration
  BY <1>1, <1>2, RegistryAssumption DEF Mutate
<1>3. CASE ChangeCode
  BY <1>1, <1>2, <1>3 DEF ChangeCode
<1>4. ASSUME NEW m \in Managed, NEW i \in Instance, NEW e \in Enrollment, Manage(m, i, e)
      PROVE  /\ generation' = generation + 1 /\ generation' \in 1..MaxGeneration
             /\ managed' \in Table /\ claimed' \subseteq Enrollment
  <2>1. [instance |-> i, identity |-> e, readOnly |-> TRUE] \in Row
    BY DEF Row
  <2>2. managed' \in Table
    BY <1>1, <1>4, <2>1 DEF Manage, Table
  <2> QED
    BY <1>1, <1>2, <1>4, <2>2 DEF Manage
<1>5. ASSUME NEW m \in Managed, NEW readOnly \in BOOLEAN, SetManagedReadOnly(m, readOnly)
      PROVE  /\ generation' = generation + 1 /\ generation' \in 1..MaxGeneration
             /\ managed' \in Table /\ claimed' \subseteq Enrollment
  <2>1. managed[m] \in Row
    BY <1>1, <1>5 DEF SetManagedReadOnly, Table
  <2>2. [managed[m] EXCEPT !.readOnly = readOnly] \in Row
    BY <2>1 DEF Row
  <2>3. managed' \in Table
    BY <1>1, <1>5, <2>2 DEF SetManagedReadOnly, Table
  <2> QED
    BY <1>1, <1>2, <1>5, <2>3 DEF SetManagedReadOnly
<1> QED
  BY <1>3, <1>4, <1>5 DEF RegistryNext

LEMMA IdleIsOp ==
  /\ Idle \in Op /\ Idle.generation = 0 /\ Idle.rows = EmptyTable
  /\ Idle.todo = {} /\ Idle.pc = "idle"
<1>1. EmptyTable \in Table
  BY DEF EmptyTable, Table
<1>2. 0 \in 0..MaxGeneration
  BY RegistryAssumption
<1> QED
  BY <1>1, <1>2 DEF Idle, Op, OpPC

LEMMA InitInv == Init => TableInv
<1> SUFFICES ASSUME Init PROVE TableInv
  OBVIOUS
<1>1. /\ Idle \in Op /\ Idle.generation = 0 /\ Idle.rows = EmptyTable
      /\ Idle.todo = {} /\ Idle.pc = "idle"
  BY IdleIsOp
<1>2. EmptyTable \in Table /\ 1 \in 1..MaxGeneration /\ 0 \in 0..MaxGeneration
  BY RegistryAssumption DEF EmptyTable, Table
<1>3. TypeOK
  BY <1>1, <1>2 DEF Init, RegistryInit, TypeOK
<1>4. ReadsHonest
  BY <1>1 DEF Init, RegistryInit, ReadsHonest
<1>5. ExportsKept
  BY <1>1 DEF Init, ExportsKept, EmptyTable
<1>6. tableGeneration <= generation /\ TableHonest
  BY DEF Init, RegistryInit, TableHonest
<1>7. LoadedAfterExport
  BY DEF Init, LoadedAfterExport, EmptyTable
<1> QED
  BY <1>3, <1>4, <1>5, <1>6, <1>7 DEF TableInv

\* A handler begins something new, or ends.
LEMMA StartInv ==
  ASSUME TableInv, NEW p \in Proc, NEW x \in Op,
         x.generation = 0, x.rows = EmptyTable, x.todo = {}, x.pc # "exports",
         x.pc = "completed" => x.identity # None,
         op' = [op EXCEPT ![p] = x],
         \/ UNCHANGED registry
         \/ RegistryNext,
         UNCHANGED <<server, exported>>
  PROVE  TableInv'
<1>1. /\ op \in [Proc -> Op] /\ tableGeneration \in 0..MaxGeneration
      /\ generation \in 1..MaxGeneration /\ tableGeneration <= generation
  BY DEF TableInv, TypeOK
<1>2. /\ generation' \in 1..MaxGeneration /\ managed' \in Table /\ claimed' \subseteq Enrollment
      /\ generation' = generation + 1 \/ (generation' = generation /\ managed' = managed)
  BY RegistryStep DEF TableInv, TypeOK, registry
<1>3. op' \in [Proc -> Op]
  BY <1>1
<1>4. TypeOK'
  BY <1>1, <1>2, <1>3 DEF TableInv, TypeOK, server
<1>5. ReadsHonest'
  <2> SUFFICES ASSUME NEW q \in Proc
               PROVE  /\ op'[q].generation <= generation'
                      /\ op'[q].pc = "exports" /\ op'[q].generation = generation'
                           => op'[q].rows = managed'
    BY DEF ReadsHonest
  <2>1. op[q] \in Op
    BY <1>1
  <2>2. op[q].generation \in Nat /\ generation \in Nat
    BY <1>1, <2>1 DEF Op
  <2>3. CASE q = p
    BY <1>1, <1>2, <2>2, <2>3
  <2>4. CASE q # p
    <3>1. op'[q] = op[q]
      BY <1>1, <2>4
    <3>2. /\ op[q].generation <= generation
          /\ op[q].pc = "exports" /\ op[q].generation = generation => op[q].rows = managed
      BY DEF TableInv, ReadsHonest
    <3> QED
      BY <1>2, <2>2, <3>1, <3>2
  <2> QED
    BY <2>3, <2>4
<1>6. ExportsKept'
  <2> SUFFICES ASSUME NEW q \in Proc, NEW m \in Managed
               PROVE  IF m \in op'[q].todo THEN op'[q].rows[m] # None
                      ELSE op'[q].rows[m] = None \/ op'[q].rows[m].identity \in exported[m]
    BY DEF ExportsKept
  <2>1. CASE q = p
    BY <1>1, <2>1 DEF EmptyTable
  <2>2. CASE q # p
    BY <1>1, <2>2 DEF TableInv, ExportsKept
  <2> QED
    BY <2>1, <2>2
<1>7. (tableGeneration <= generation)' /\ TableHonest'
  BY <1>1, <1>2 DEF TableInv, TableHonest, server
<1>8. LoadedAfterExport'
  BY DEF TableInv, LoadedAfterExport, server
<1> QED
  BY <1>4, <1>5, <1>6, <1>7, <1>8 DEF TableInv

\* A handler goes on with its refresh: only it and the exports may change.
LEMMA GoOnInv ==
  ASSUME TableInv, NEW p \in Proc, NEW x \in Op,
         x.generation <= generation,
         x.pc = "exports" /\ x.generation = generation => x.rows = managed,
         x.pc # "completed",
         op' = [op EXCEPT ![p] = x],
         exported' \in [Managed -> SUBSET Enrollment],
         \A m \in Managed : exported[m] \subseteq exported'[m],
         \A m \in Managed : IF m \in x.todo THEN x.rows[m] # None
                      ELSE x.rows[m] = None \/ x.rows[m].identity \in exported'[m],
         UNCHANGED <<registry, server>>
  PROVE  TableInv'
<1>1. op \in [Proc -> Op] /\ op' \in [Proc -> Op]
  BY DEF TableInv, TypeOK
<1>2. UNCHANGED <<managed, claimed, generation, table, tableGeneration>>
  BY DEF registry, server
<1>3. TypeOK'
  BY <1>1, <1>2 DEF TableInv, TypeOK
<1>4. ReadsHonest'
  <2> SUFFICES ASSUME NEW q \in Proc
               PROVE  /\ op'[q].generation <= generation
                      /\ op'[q].pc = "exports" /\ op'[q].generation = generation
                           => op'[q].rows = managed
    BY <1>2 DEF ReadsHonest
  <2>1. CASE q = p
    BY <1>1, <2>1
  <2>2. CASE q # p
    BY <1>1, <2>2 DEF TableInv, ReadsHonest
  <2> QED
    BY <2>1, <2>2
<1>5. ExportsKept'
  <2> SUFFICES ASSUME NEW q \in Proc, NEW m \in Managed
               PROVE  IF m \in op'[q].todo THEN op'[q].rows[m] # None
                      ELSE op'[q].rows[m] = None \/ op'[q].rows[m].identity \in exported'[m]
    BY DEF ExportsKept
  <2>1. CASE q = p
    BY <1>1, <2>1
  <2>2. CASE q # p
    BY <1>1, <2>2 DEF TableInv, ExportsKept
  <2> QED
    BY <2>1, <2>2
<1>6. (tableGeneration <= generation)' /\ TableHonest' /\ LoadedAfterExport'
  BY <1>2 DEF TableInv, TableHonest, LoadedAfterExport
<1> QED
  BY <1>3, <1>4, <1>5, <1>6 DEF TableInv

\* Rows are installed when all of them were exported.
LEMMA InstallInv ==
  ASSUME TableInv, NEW p \in Proc, InstallRows(p)
  PROVE  TableInv'
<1> DEFINE x == [op[p] EXCEPT !.pc = "done", !.rows = EmptyTable, !.todo = {}]
<1>1. /\ op \in [Proc -> Op] /\ op[p] \in Op /\ op[p].pc = "exports" /\ op[p].todo = {}
      /\ EmptyTable \in Table
  BY DEF TableInv, TypeOK, InstallRows, ExportsWritten, EmptyTable, Table
<1>2. /\ x \in Op /\ x.pc = "done" /\ x.rows = EmptyTable /\ x.todo = {}
      /\ x.generation = op[p].generation
  BY <1>1 DEF Op, OpPC
<1>3. op' = [op EXCEPT ![p] = x] /\ op' \in [Proc -> Op]
  BY <1>1, <1>2 DEF InstallRows
<1>4. /\ table' \in Table /\ tableGeneration' \in 0..MaxGeneration
      /\ tableGeneration' <= generation
  BY <1>1 DEF TableInv, TypeOK, ReadsHonest, InstallRows, Label, Op, server
<1>5. UNCHANGED <<managed, claimed, generation, exported>>
  BY DEF InstallRows, registry
<1>6. TypeOK'
  BY <1>3, <1>4, <1>5 DEF TableInv, TypeOK
<1> HIDE DEF x
<1>7. ReadsHonest'
  <2> SUFFICES ASSUME NEW q \in Proc
               PROVE  /\ op'[q].generation <= generation
                      /\ op'[q].pc = "exports" /\ op'[q].generation = generation
                           => op'[q].rows = managed
    BY <1>5 DEF ReadsHonest
  <2>1. CASE q = p
    BY <1>1, <1>2, <1>3, <2>1 DEF TableInv, ReadsHonest
  <2>2. CASE q # p
    BY <1>1, <1>3, <2>2 DEF TableInv, ReadsHonest
  <2> QED
    BY <2>1, <2>2
<1>8. ExportsKept'
  <2> SUFFICES ASSUME NEW q \in Proc, NEW m \in Managed
               PROVE  IF m \in op'[q].todo THEN op'[q].rows[m] # None
                      ELSE op'[q].rows[m] = None \/ op'[q].rows[m].identity \in exported[m]
    BY <1>5 DEF ExportsKept
  <2>1. CASE q = p
    BY <1>1, <1>2, <1>3, <2>1 DEF EmptyTable
  <2>2. CASE q # p
    BY <1>1, <1>3, <2>2 DEF TableInv, ExportsKept
  <2> QED
    BY <2>1, <2>2
<1>9. TableHonest' /\ LoadedAfterExport'
  <2>1. CASE UNCHANGED server
    BY <1>5, <2>1 DEF TableInv, TableHonest, LoadedAfterExport, server
  <2>2. CASE table' = op[p].rows /\ tableGeneration' = op[p].generation
    <3>1. TableHonest'
      BY <1>1, <1>5, <2>2 DEF TableInv, ReadsHonest, TableHonest
    <3>2. LoadedAfterExport'
      BY <1>1, <1>5, <2>2 DEF TableInv, ExportsKept, LoadedAfterExport
    <3> QED
      BY <3>1, <3>2
  <2> QED
    BY <2>1, <2>2 DEF InstallRows, Label
<1> QED
  BY <1>4, <1>5, <1>6, <1>7, <1>8, <1>9 DEF TableInv

LEMMA ClaimStepInv ==
  ASSUME TableInv, NEW p \in Proc, ClaimStep(p)
  PROVE  TableInv'
<1>1. ASSUME NEW m \in Managed, NEW e \in Enrollment, StartClaimTail(p, m, e),
             UNCHANGED registry \/ RegistryNext, UNCHANGED <<server, exported>>
      PROVE  TableInv'
  <2> DEFINE x == [Idle EXCEPT !.pc = "completed", !.managed = m, !.identity = e]
  <2>1. /\ x \in Op /\ x.generation = 0 /\ x.rows = EmptyTable /\ x.todo = {}
        /\ x.pc = "completed"
        /\ x.identity = e
    BY IdleIsOp DEF Op, OpPC, Idle
  <2>2. op' = [op EXCEPT ![p] = x]
    BY <1>1 DEF StartClaimTail
  <2> HIDE DEF x
  <2> QED
    BY <1>1, <2>1, <2>2, StartInv, RegistryAssumption
<1>2. ASSUME NEW m \in Managed, NEW i \in Instance, NEW e \in Enrollment,
             CompleteClaim(p, m, i, e)
      PROVE  TableInv'
  BY <1>1, <1>2 DEF CompleteClaim, RegistryNext
<1>3. ASSUME NEW m \in Managed, RecoverClaim(p, m)
      PROVE  TableInv'
  <2>1. managed[m].identity \in Enrollment
    BY <1>3 DEF RecoverClaim, TableInv, TypeOK, Table, Row
  <2> QED
    BY <1>1, <1>3, <2>1 DEF RecoverClaim
<1>4. CASE WriteStaticExport(p)
  <2>1. /\ op[p] \in Op /\ op[p].managed \in Managed \cup {None}
        /\ op[p].identity \in Enrollment
        /\ generation \in Nat /\ exported \in [Managed -> SUBSET Enrollment]
    BY <1>4 DEF TableInv, TypeOK, Op, WriteStaticExport
  <2>2. [Idle EXCEPT !.pc = "generation", !.managed = op[p].managed] \in Op
    BY <2>1, IdleIsOp DEF Op, OpPC, Idle
  <2>3. PICK x \in Op : x = [Idle EXCEPT !.pc = "generation", !.managed = op[p].managed]
    BY <2>2
  <2>4. x.generation = 0 /\ x.rows = EmptyTable /\ x.todo = {} /\ x.pc = "generation"
    BY <2>3, IdleIsOp DEF Op, Idle
  <2>5. /\ op' = [op EXCEPT ![p] = x]
        /\ exported' = [exported EXCEPT ![op[p].managed] = @ \cup {op[p].identity}]
        /\ UNCHANGED <<registry, server>>
    BY <1>4, <2>3 DEF WriteStaticExport
  <2>6. /\ exported' \in [Managed -> SUBSET Enrollment]
        /\ \A m \in Managed : exported[m] \subseteq exported'[m]
    BY <2>1, <2>5
  <2>7. \A m \in Managed : IF m \in x.todo THEN x.rows[m] # None
                      ELSE x.rows[m] = None \/ x.rows[m].identity \in exported'[m]
    BY <2>4 DEF EmptyTable
  <2>8. x.generation <= generation /\ x.pc # "exports" /\ x.pc # "completed"
    BY <2>1, <2>4
  <2> QED
    BY <2>5, <2>6, <2>7, <2>8, GoOnInv
<1> QED
  BY <1>2, <1>3, <1>4 DEF ClaimStep

LEMMA LookupStepInv ==
  ASSUME TableInv, NEW p \in Proc, LookupStep(p)
  PROVE  TableInv'
<1>1. ASSUME NEW m \in Managed, BeginRefresh(p, m),
             UNCHANGED registry \/ RegistryNext, UNCHANGED <<server, exported>>
      PROVE  TableInv'
  <2> DEFINE x == [Idle EXCEPT !.pc = "generation", !.managed = m]
  <2>1. x \in Op /\ x.generation = 0 /\ x.rows = EmptyTable /\ x.todo = {} /\ x.pc = "generation"
    BY IdleIsOp DEF Op, OpPC, Idle
  <2>2. op' = [op EXCEPT ![p] = x]
    BY <1>1 DEF BeginRefresh
  <2> HIDE DEF x
  <2> QED
    BY <1>1, <2>1, <2>2, StartInv
<1>2. ASSUME NEW m \in Managed, BeginLookup(p, m)
      PROVE  TableInv'
  BY <1>1, <1>2 DEF BeginLookup
<1>3. ASSUME NEW m \in Managed, NEW writeEnabled \in BOOLEAN,
             SetManagedWriteEnabled(p, m, writeEnabled)
      PROVE  TableInv'
  <2>1. (~writeEnabled) \in BOOLEAN
    OBVIOUS
  <2>2. RegistryNext
    BY <1>3, <2>1 DEF SetManagedWriteEnabled, RegistryNext
  <2> QED
    BY <1>1, <1>3, <2>2 DEF SetManagedWriteEnabled
<1> QED
  BY <1>2, <1>3 DEF LookupStep

LEMMA RefreshStepInv ==
  ASSUME TableInv, NEW p \in Proc, RefreshStep(p) \/ Fail(p)
  PROVE  TableInv'
<1>1. /\ op[p] \in Op /\ managed \in Table /\ generation \in 1..MaxGeneration
      /\ exported \in [Managed -> SUBSET Enrollment]
      /\ op[p].generation \in 0..MaxGeneration
      /\ op[p].generation <= generation /\ generation <= generation
      /\ generation \in 0..MaxGeneration /\ op[p].rows \in Table
  BY DEF TableInv, TypeOK, ReadsHonest, Op
<1>2. CASE ReadGeneration(p)
  <2>1. [op[p] EXCEPT !.pc = "rows", !.generation = generation] \in Op
    BY <1>1 DEF Op, OpPC
  <2>2. PICK x \in Op : x = [op[p] EXCEPT !.pc = "rows", !.generation = generation]
    BY <2>1
  <2>3. x.generation = generation /\ x.pc = "rows" /\ x.rows = op[p].rows /\ x.todo = op[p].todo
    BY <1>1, <2>2 DEF Op
  <2>4. /\ op' = [op EXCEPT ![p] = x] /\ exported' = exported
        /\ UNCHANGED <<registry, server>>
    BY <1>2, <2>2 DEF ReadGeneration
  <2>5. \A m \in Managed : IF m \in x.todo THEN x.rows[m] # None
                      ELSE x.rows[m] = None \/ x.rows[m].identity \in exported'[m]
    BY <2>3, <2>4 DEF TableInv, ExportsKept
  <2> QED
    BY <1>1, <2>3, <2>4, <2>5, GoOnInv
<1>3. CASE ReadRows(p)
  <2> DEFINE todo == {m \in Managed : managed[m] # None}
  <2>1. [op[p] EXCEPT !.pc = "exports", !.rows = managed, !.todo = todo] \in Op
    BY <1>1 DEF Op, OpPC
  <2>2. PICK x \in Op : x = [op[p] EXCEPT !.pc = "exports", !.rows = managed, !.todo = todo]
    BY <2>1
  <2>3. x.generation = op[p].generation /\ x.pc = "exports" /\ x.rows = managed /\ x.todo = todo
    BY <1>1, <2>2 DEF Op
  <2>4. /\ op' = [op EXCEPT ![p] = x] /\ exported' = exported
        /\ UNCHANGED <<registry, server>>
    BY <1>3, <2>2 DEF ReadRows, TableInv, TypeOK
  <2>5. \A m \in Managed : IF m \in x.todo THEN x.rows[m] # None
                      ELSE x.rows[m] = None \/ x.rows[m].identity \in exported'[m]
    BY <2>3
  <2> QED
    BY <1>1, <2>3, <2>4, <2>5, GoOnInv
<1>4. ASSUME NEW n \in Managed, ExportRow(p, n)
      PROVE  TableInv'
  <2>1. [op[p] EXCEPT !.todo = @ \ {n}] \in Op
    BY <1>1 DEF Op, OpPC
  <2>2. PICK x \in Op : x = [op[p] EXCEPT !.todo = @ \ {n}]
    BY <2>1
  <2>3. /\ x.generation = op[p].generation /\ x.pc = op[p].pc /\ x.rows = op[p].rows
        /\ x.todo = op[p].todo \ {n} /\ op[p].pc = "exports"
    BY <1>1, <1>4, <2>2 DEF Op, ExportRow
  <2>4. /\ op' = [op EXCEPT ![p] = x] /\ UNCHANGED <<registry, server>>
        /\ exported' = [exported EXCEPT ![n] = @ \cup {op[p].rows[n].identity}]
    BY <1>4, <2>2 DEF ExportRow, TableInv, TypeOK
  <2>5. op[p].rows[n].identity \in Enrollment
    <3>1. op[p].rows[n] \in Row
      BY <1>1, <1>4 DEF ExportRow, TableInv, ExportsKept, Table
    <3> QED
      BY <3>1 DEF Row
  <2>6. exported' \in [Managed -> SUBSET Enrollment]
        /\ \A m \in Managed : exported[m] \subseteq exported'[m]
    BY <1>1, <2>4, <2>5
  <2>7. \A m \in Managed : IF m \in x.todo THEN x.rows[m] # None
                      ELSE x.rows[m] = None \/ x.rows[m].identity \in exported'[m]
    BY <1>1, <2>3, <2>4 DEF TableInv, ExportsKept
  <2>8. x.pc = "exports" /\ x.generation = generation => x.rows = managed
    BY <2>3 DEF TableInv, ReadsHonest
  <2> QED
    BY <1>1, <2>3, <2>4, <2>6, <2>7, <2>8, GoOnInv
<1>5. CASE InstallRows(p)
  BY <1>5, InstallInv
<1>6. CASE UseTable(p) \/ Fail(p)
  <2>1. op' = [op EXCEPT ![p] = Idle] /\ UNCHANGED <<registry, server, exported>>
    BY <1>6 DEF UseTable, Fail
  <2> QED
    BY <2>1, IdleIsOp, StartInv
<1> QED
  BY <1>2, <1>3, <1>4, <1>5, <1>6 DEF RefreshStep

\* Other processes change the registry, and the server restarts.
LEMMA OutsideInv ==
  ASSUME TableInv, ChangeElsewhere \/ Restart
  PROVE  TableInv'
<1>1. CASE ChangeElsewhere
  <2>1. /\ generation' = generation + 1 /\ generation' \in 1..MaxGeneration
        /\ managed' \in Table /\ claimed' \subseteq Enrollment
    BY <1>1, RegistryStep DEF ChangeElsewhere
  <2>2. UNCHANGED <<table, tableGeneration, op, exported>>
    BY <1>1 DEF ChangeElsewhere, server
  <2>3. /\ generation \in Nat /\ tableGeneration \in Nat
        /\ \A q \in Proc : op[q].generation \in Nat
    BY DEF TableInv, TypeOK, Op
  <2>4. TypeOK'
    BY <2>1, <2>2 DEF TableInv, TypeOK
  <2>5. ReadsHonest' /\ ExportsKept'
    BY <2>1, <2>2, <2>3 DEF TableInv, ReadsHonest, ExportsKept
  <2>6. (tableGeneration <= generation)' /\ TableHonest' /\ LoadedAfterExport'
    BY <2>1, <2>2, <2>3 DEF TableInv, TableHonest, LoadedAfterExport
  <2> QED
    BY <2>4, <2>5, <2>6 DEF TableInv
<1>2. CASE Restart
  <2>1. /\ UNCHANGED <<managed, claimed, generation, exported>>
        /\ table' = EmptyTable /\ tableGeneration' = 0 /\ op' = [p \in Proc |-> Idle]
    BY <1>2 DEF Restart, registry
  <2>2. /\ EmptyTable \in Table /\ 0 \in 0..MaxGeneration
        /\ generation \in 1..MaxGeneration
    BY RegistryAssumption DEF EmptyTable, Table, TableInv, TypeOK
  <2>3. TypeOK'
    BY <2>1, <2>2, IdleIsOp DEF TableInv, TypeOK
  <2>4. ReadsHonest' /\ ExportsKept'
    BY <2>1, <2>2, IdleIsOp DEF ReadsHonest, ExportsKept, EmptyTable
  <2>5. (tableGeneration <= generation)' /\ TableHonest' /\ LoadedAfterExport'
    BY <2>1, <2>2 DEF TableHonest, LoadedAfterExport, EmptyTable
  <2> QED
    BY <2>3, <2>4, <2>5 DEF TableInv
<1> QED
  BY <1>1, <1>2

LEMMA NextInv ==
  ASSUME TableInv, [Next]_vars
  PROVE  TableInv'
<1>1. CASE Next
  BY <1>1, ClaimStepInv, LookupStepInv, RefreshStepInv, OutsideInv DEF Next
<1>2. CASE UNCHANGED vars
  BY <1>2 DEF vars, registry, server, TableInv, TypeOK, ReadsHonest, ExportsKept,
              TableHonest, LoadedAfterExport
<1> QED
  BY <1>1, <1>2

\* TableInv holds of every behaviour (refreshManagedInstances with any number of
\* overlapping refreshes, and any changes of the registry).
THEOREM TableInvariant == Spec => []TableInv
  BY InitInv, NextInv, PTL DEF Spec

\* A table labelled with the registry's generation has the registry's rows.
THEOREM TableAlwaysHonest == Spec => []TableHonest
<1>1. TableInv => TableHonest
  BY DEF TableInv
<1> QED
  BY <1>1, TableInvariant, PTL

\* Nothing is loaded whose static export was not written.
THEOREM AlwaysLoadedAfterExport == Spec => []LoadedAfterExport
<1>1. TableInv => LoadedAfterExport
  BY DEF TableInv
<1> QED
  BY <1>1, TableInvariant, PTL

-----------------------------------------------------------------------------
(* Address books                                                             *)

LEMMA LeastNatural ==
  ASSUME NEW S, S \subseteq Nat, S # {}
  PROVE  \E n \in S : \A m \in S : n <= m
<1> DEFINE R == OpToRel(<, Nat)
<1>1. IsWellFoundedOn(R, Nat)
  BY NatLessThanWellFounded
<1>2. R = {ss \in Nat \X Nat : ss[1] < ss[2]}
  BY DEF OpToRel
<1> HIDE DEF R
<1>3. PICK n \in S : \A m \in S : <<m, n>> \notin R
  BY <1>1, WFMin
<1>4. ASSUME NEW m \in S PROVE n <= m
  <2>1. <<m, n>> \notin R
    BY <1>3
  <2>2. m \in Nat /\ n \in Nat
    OBVIOUS
  <2>3. ~(m < n)
    BY <2>1, <2>2, <1>2
  <2> QED
    BY <2>2, <2>3
<1> QED
  BY <1>4

\* The first of several rows is one of them.
LEMMA OldestThere ==
  ASSUME NEW S, \A x \in S : x.id \in Nat, S # {}
  PROVE  Oldest(S) \in S
<1>1. PICK n \in {x.id : x \in S} : \A m \in {x.id : x \in S} : n <= m
  BY LeastNatural
<1>2. \E x \in S : \A y \in S : x.id <= y.id
  BY <1>1
<1> QED
  BY <1>2 DEF Oldest

LEMMA RuleTyped ==
  ASSUME NEW x \in Rule
  PROVE  x.id \in Nat /\ x.level \in 1..3
BY BooksAssumption DEF Rule

\* What somebody is entitled to is one of the four levels.
LEMMA LevelFits ==
  ASSUME rules \subseteq Rule, NEW t, NEW c
  PROVE  LevelTo(t, c) \in 0..3
<1> DEFINE given == {x \in rules : x.coll = c /\ x.to = t}
<1>1. CASE given = {}
  BY <1>1 DEF LevelTo
<1>2. CASE given # {}
  <2>1. \A x \in given : x.id \in Nat
    BY RuleTyped
  <2>2. Oldest(given) \in given
    BY <1>2, <2>1, OldestThere
  <2>3. Oldest(given).level \in 1..3
    BY <2>2, RuleTyped
  <2> QED
    BY <1>2, <2>3 DEF LevelTo
<1> QED
  BY <1>1, <1>2

LEMMA LevelFitsNext ==
  ASSUME rules' \subseteq Rule, NEW t, NEW c
  PROVE  LevelTo(t, c)' \in 0..3
<1> DEFINE given == {x \in rules' : x.coll = c /\ x.to = t}
<1>1. CASE given = {}
  BY <1>1 DEF LevelTo
<1>2. CASE given # {}
  <2>1. \A x \in given : x.id \in Nat
    BY RuleTyped
  <2>2. Oldest(given) \in given
    BY <1>2, <2>1, OldestThere
  <2>3. Oldest(given).level \in 1..3
    BY <2>2, RuleTyped
  <2> QED
    BY <1>2, <2>3 DEF LevelTo
<1> QED
  BY <1>1, <1>2

LEMMA MaxFits ==
  ASSUME NEW i \in 0..3, NEW j \in 0..3
  PROVE  MaxOf(i, j) \in 0..3 /\ MaxOf(i, j) >= i /\ MaxOf(i, j) >= j
BY DEF MaxOf

LEMMA EntitledFits ==
  ASSUME rules' \subseteq Rule, NEW u, NEW o, NEW c
  PROVE  Entitled(u, o, c)' \in 0..3
<1>1. LevelTo(u, c)' \in 0..3 /\ LevelTo(Everyone, c)' \in 0..3
  BY LevelFitsNext
<1> DEFINE i == LevelTo(u, c)'
           j == LevelTo(Everyone, c)'
<1>2. MaxOf(i, j) \in 0..3
  BY <1>1, MaxFits
<1>3. Entitled(u, o, c)' = IF (IF c = Personal THEN o ELSE coll'[c]) = u THEN 3
                                 ELSE MaxOf(i, j)
  BY DEF Entitled
<1> HIDE DEF i, j
<1> QED
  BY <1>2, <1>3

\* A step leaves every request with the user and the book it came in with.
SameBooks ==
  \A r \in Request : Busy(r) /\ Busy(r)' =>
    /\ task'[r].user = task[r].user
    /\ task'[r].owner = task[r].owner
    /\ task'[r].coll = task[r].coll

\* A collection is given an owner once.
CollsFollow ==
  /\ coll' \in [Coll -> User \cup {Unused, Gone}]
  /\ \A c \in Coll : coll[c] # Unused => coll'[c] \in {coll[c], Gone}

\* What a step tells a request's history.
Recalled(r) ==
  /\ lived[r] \/ Lives(task[r])' => lived'[r]
  /\ reach'[r] \in 0..3 /\ reach'[r] >= reach[r]
  /\ reach'[r] >= Entitled(task[r].user, task[r].owner, task[r].coll)'

LEMMA BusyAsked ==
  ASSUME NEW o \in Asked \cup {New, Done}, o.pc \notin {"new", "done"}
  PROVE  o \in Asked
BY DEF New, Done

LEMMA RememberFits ==
  ASSUME BooksInv, Remember, SameBooks, CollsFollow, rules' \subseteq Rule,
         task' \in [Request -> Asked \cup {New, Done}]
  PROVE  /\ lived' \in [Request -> BOOLEAN] /\ reach' \in [Request -> 0..3]
         /\ LivedFits'
         /\ \A r \in Request : Busy(r)' => Recalled(r)
<1>1. /\ lived' = [r \in Request |->
                     Busy(r)' /\ (lived[r] \/ Lives(task[r])')]
      /\ reach' = [r \in Request |-> IF ~Busy(r)' THEN 0 ELSE
           MaxOf(reach[r], Entitled(task[r].user, task[r].owner,
                                                task[r].coll)')]
  BY DEF Remember
<1>2. reach \in [Request -> 0..3]
  BY DEF BooksInv, BooksTyped
<1> DEFINE e(r) == Entitled(task[r].user, task[r].owner, task[r].coll)'
<1>3. ASSUME NEW r \in Request PROVE e(r) \in 0..3
  BY EntitledFits
<1>4. ASSUME NEW r \in Request
      PROVE  /\ MaxOf(reach[r], e(r)) \in 0..3
             /\ MaxOf(reach[r], e(r)) >= reach[r]
             /\ MaxOf(reach[r], e(r)) >= e(r)
  <2>1. reach[r] \in 0..3 /\ e(r) \in 0..3
    BY <1>2, <1>3
  <2> HIDE DEF e
  <2> QED
    BY <2>1, MaxFits
<1>5. reach' \in [Request -> 0..3]
  <2>1. \A r \in Request : reach'[r] = IF ~Busy(r)' THEN 0
                                       ELSE MaxOf(reach[r], e(r))
    BY <1>1
  <2>2. reach' = [r \in Request |-> reach'[r]]
    BY <1>1
  <2> HIDE DEF e
  <2>3. \A r \in Request : reach'[r] \in 0..3
    BY <2>1, <1>4
  <2> QED
    BY <2>2, <2>3
<1>6. lived' \in [Request -> BOOLEAN]
  BY <1>1 DEF Busy
<1>7. ASSUME NEW r \in Request, Busy(r)' PROVE Recalled(r)
  <2>1. lived[r] \/ Lives(task[r])' => lived'[r]
    BY <1>1, <1>7
  <2>2. reach'[r] = MaxOf(reach[r], e(r))
    BY <1>1, <1>7
  <2>3. reach'[r] >= reach[r] /\ reach'[r] >= e(r)
    BY <2>2, <1>4
  <2> QED
    BY <1>5, <2>1, <2>3 DEF Recalled
<1>8. ASSUME NEW r \in Request, lived'[r]
      PROVE  /\ Busy(r)'
             /\ task'[r].coll \in Coll =>
                  coll'[task'[r].coll] \in {task'[r].owner, Gone}
  <2>1. Busy(r)' /\ (lived[r] \/ Lives(task[r])')
    BY <1>1, <1>8
  <2>2. CASE Lives(task[r])'
    BY <2>1, <2>2, BooksAssumption DEF Lives
  <2>3. CASE lived[r]
    <3>1. /\ Busy(r)
          /\ task[r].coll \in Coll => coll[task[r].coll] \in {task[r].owner, Gone}
      BY <2>3 DEF BooksInv, LivedFits
    <3>2. task'[r].owner = task[r].owner /\ task'[r].coll = task[r].coll
      BY <2>1, <3>1 DEF SameBooks
    <3>3. task[r] \in Asked
      BY <3>1, BusyAsked DEF BooksInv, RequestsFit, Busy
    <3>4. task[r].owner \in User
      BY <3>3 DEF Asked
    <3>5. ASSUME task[r].coll \in Coll
          PROVE  coll'[task[r].coll] \in {task[r].owner, Gone}
      <4>1. coll[task[r].coll] \in {task[r].owner, Gone}
        BY <3>1, <3>5
      <4>2. coll[task[r].coll] # Unused
        BY <4>1, <3>4, BooksAssumption
      <4> QED
        BY <3>5, <4>1, <4>2 DEF CollsFollow
    <3> QED
      BY <2>1, <3>2, <3>5
  <2> QED
    BY <2>1, <2>2, <2>3
<1>9. LivedFits'
  BY <1>8 DEF LivedFits
<1> QED
  BY <1>5, <1>6, <1>7, <1>9

\* A row keeps its id and its user; a new one has a new id.
RowsFollow ==
  /\ rows' \subseteq BookRow
  /\ made' \in [row : 0..MaxRow, rule : 0..MaxRule] /\ made.row <= made'.row
  /\ \A x \in rows' : x.id <= made.row => \E y \in rows : y.id = x.id /\ y.user = x.user

\* The part of the invariant that only rows are in.
RowsFit ==
  /\ IdsApart /\ RowsBelong
  /\ Serializable => InventoryNeverDriftsBack

\* What a handler's step makes of its request.
Proceeds(r) ==
  Busy(r)' =>
    \/ task'[r] = task[r]
    \/ /\ AskFits(task[r])' /\ SeenFits(task[r])'
       /\ Recalled(r) => Passed(r)'

LEMMA BooksStep ==
  ASSUME BooksInv, Remember, SameBooks, CollsFollow, RowsFollow, RowsFit',
         users' \subseteq User, rules' \subseteq Rule,
         inventory' \in [Device -> 0..MaxReport],
         task' \in [Request -> Asked \cup {New, Done}],
         \A r \in Request : Proceeds(r)
  PROVE  BooksInv'
<1>1. /\ lived' \in [Request -> BOOLEAN] /\ reach' \in [Request -> 0..3]
      /\ LivedFits'
      /\ \A r \in Request : Busy(r)' => Recalled(r)
  BY RememberFits
<1>2. BooksTyped'
  BY <1>1 DEF BooksTyped, CollsFollow, RowsFollow
<1>3. ASSUME NEW r \in Request, Busy(r)'
      PROVE  AskFits(task[r])' /\ SeenFits(task[r])' /\ Passed(r)'
  <2>1. Recalled(r)
    BY <1>1, <1>3
  <2>2. CASE task'[r] = task[r]
    <3>1. Busy(r)
      BY <1>3, <2>2 DEF Busy
    <3>2. AskFits(task[r]) /\ SeenFits(task[r]) /\ Passed(r)
      BY <3>1 DEF BooksInv, RequestsFit
    <3>3. AskFits(task[r])'
      BY <2>2, <3>2 DEF AskFits
    <3>4. ASSUME task[r].kind # "reshare", NEW x \in task[r].seen
          PROVE  x \in BookRow /\ x.id <= made'.row
                 /\ \A y \in rows' : y.id = x.id => y.user = task[r].owner
      <4>1. /\ x \in BookRow /\ x.id <= made.row
            /\ \A y \in rows : y.id = x.id => y.user = task[r].owner
        BY <3>2, <3>4 DEF SeenFits
      <4>2. x.id \in Nat /\ made.row \in Nat /\ made'.row \in Nat
        BY <4>1, BooksAssumption
           DEF BookRow, BooksInv, BooksTyped, RowsFollow
      <4>3. x.id <= made'.row
        BY <4>1, <4>2 DEF RowsFollow
      <4>4. ASSUME NEW y \in rows', y.id = x.id PROVE y.user = task[r].owner
        <5>1. PICK z \in rows : z.id = y.id /\ z.user = y.user
          BY <4>1, <4>4 DEF RowsFollow
        <5> QED
          BY <4>1, <4>4, <5>1
      <4> QED
        BY <4>1, <4>3, <4>4
    <3>5. SeenFits(task[r])'
      BY <2>2, <3>4 DEF SeenFits
    <3>6. Passed(r)'
      <4>1. reach[r] \in 0..3 /\ reach'[r] \in 0..3 /\ reach'[r] >= reach[r]
        BY <1>1, <2>1 DEF BooksInv, BooksTyped, Recalled
      <4>2. lived[r] => lived'[r]
        BY <2>1 DEF Recalled
      <4>3. task[r].pc \in {"find", "act"} => Needed[task[r].kind] \in 1..3
        <5>1. task[r] \in Asked
          BY <3>1, BusyAsked DEF BooksInv, RequestsFit, Busy
        <5>2. task[r].kind \in Kind
          BY <5>1 DEF Asked
        <5> QED
          BY <5>2 DEF Needed
      <4>4. task[r].pc = "rule" => lived'[r]
                                   /\ (task[r].user = task[r].owner => reach'[r] = 3)
        BY <3>2, <4>1, <4>2 DEF Passed
      <4>5. task[r].pc \in {"find", "act"} =>
              lived'[r] /\ reach'[r] >= Needed[task[r].kind]
        <5>1. CASE task[r].pc \in {"find", "act"}
          <6> DEFINE n == Needed[task[r].kind]
          <6>1. lived[r] /\ reach[r] >= n /\ n \in 1..3
            BY <3>2, <4>3, <5>1 DEF Passed
          <6> HIDE DEF n
          <6>2. reach'[r] >= n
            BY <4>1, <6>1
          <6> QED
            BY <4>2, <6>1, <6>2 DEF n
        <5> QED
          BY <5>1
      <4> QED
        BY <2>2, <4>4, <4>5 DEF Passed, Needed
    <3> QED
      BY <3>3, <3>5, <3>6
  <2>3. CASE /\ AskFits(task[r])' /\ SeenFits(task[r])'
             /\ Recalled(r) => Passed(r)'
    BY <2>1, <2>3
  <2> QED
    BY <1>3, <2>2, <2>3 DEF Proceeds
<1>4. ASSUME NEW r \in Request PROVE Passed(r)'
  BY <1>3 DEF Passed, Busy
<1>5. RequestsFit'
  BY <1>3 DEF RequestsFit
<1> QED
  BY <1>1, <1>2, <1>4, <1>5 DEF BooksInv, RowsFit

\* A request that reads: nothing but it and its history changes.
LEMMA ReadStep ==
  ASSUME BooksInv, Remember, NEW r \in Request,
         NEW o \in Asked \cup {Done}, task' = [task EXCEPT ![r] = o],
         UNCHANGED <<users, coll, rules, rows, made, inventory>>,
         Busy(r) /\ o # Done =>
           o.user = task[r].user /\ o.owner = task[r].owner /\ o.coll = task[r].coll,
         o # Done => AskFits(o) /\ SeenFits(o) /\ (Recalled(r) => Passed(r)')
  PROVE  BooksInv'
<1>1. BooksTyped /\ task \in [Request -> Asked \cup {New, Done}] /\ RowsFit
  BY DEF BooksInv, RequestsFit, RowsFit
<1>2. task' \in [Request -> Asked \cup {New, Done}]
  BY <1>1
<1>3. task'[r] = o /\ \A q \in Request : q # r => task'[q] = task[q]
  BY <1>1
<1>4. Busy(r)' => o # Done
  BY <1>3 DEF Busy, Done
<1>5. SameBooks
  BY <1>3, <1>4 DEF SameBooks
<1>6. CollsFollow
  BY <1>1 DEF CollsFollow, BooksTyped
<1>7. RowsFollow
  <2>1. made \in [row : 0..MaxRow, rule : 0..MaxRule] /\ rows \subseteq BookRow
    BY <1>1 DEF BooksTyped
  <2>2. made.row <= made.row
    BY <2>1, BooksAssumption
  <2> QED
    BY <2>1, <2>2 DEF RowsFollow
<1>8. RowsFit'
  BY <1>1 DEF RowsFit, IdsApart, RowsBelong, InventoryNeverDriftsBack
<1>9. ASSUME NEW q \in Request PROVE Proceeds(q)
  <2>1. CASE q # r
    BY <1>3, <2>1 DEF Proceeds
  <2>2. CASE q = r
    <3>1. o # Done => AskFits(task[r])'
      BY <1>3 DEF AskFits
    <3>2. o # Done => SeenFits(task[r])'
      BY <1>3 DEF SeenFits
    <3> QED
      BY <1>4, <2>2, <3>1, <3>2 DEF Proceeds
  <2> QED
    BY <2>1, <2>2
<1> QED
  BY <1>1, <1>2, <1>5, <1>6, <1>7, <1>8, <1>9, BooksStep DEF BooksTyped

LEMMA AskedRequest ==
  ASSUME BooksInv, NEW r \in Request, Busy(r)
  PROVE  /\ task[r] \in Asked
         /\ AskFits(task[r]) /\ SeenFits(task[r]) /\ Passed(r)
<1>1. /\ task[r] \in Asked \cup {New, Done}
      /\ AskFits(task[r]) /\ SeenFits(task[r]) /\ Passed(r)
  BY DEF BooksInv, RequestsFit
<1> QED
  BY <1>1, BusyAsked DEF Busy

LEMMA PcAsked ==
  ASSUME NEW o \in Asked,
         NEW pc \in {"guid", "rule", "owner", "find", "act", "read", "write"},
         NEW seen \in SUBSET (BookRow \cup Rule)
  PROVE  /\ [o EXCEPT !.pc = pc] \in Asked
         /\ [o EXCEPT !.pc = pc, !.seen = seen] \in Asked
BY DEF Asked

LEMMA FormAsked ==
  ASSUME NEW pc \in {"guid", "owner", "read"}, NEW k \in Kind,
         NEW u \in User, NEW o \in User, NEW c \in Book, NEW keys \in SUBSET Key,
         NEW f \in Key \cup {Personal} \cup [to : User \cup {Everyone}, level : 1..3]
  PROVE  Form(pc, k, u, o, c, keys, f) \in Asked
<1>1. [d \in Device |-> 0] \in [Device -> 0..MaxReport]
  BY BooksAssumption
<1> QED
  BY <1>1 DEF Form, Asked

LEMMA BeginInv ==
  ASSUME BooksInv, Remember, NEW r \in Request, NEW f \in Asked,
         Begin(r, f), f.seen = {}, f.pc \in {"guid", "owner", "read"}, AskFits(f)
  PROVE  BooksInv'
<1>1. /\ task[r] = New
      /\ task' = [task EXCEPT ![r] = f]
      /\ UNCHANGED <<users, coll, rules, rows, made, inventory>>
  BY DEF Begin
<1>2. ~Busy(r)
  BY <1>1 DEF Busy, New
<1>3. task'[r] = f
  BY <1>1 DEF BooksInv, RequestsFit
<1>4. Passed(r)'
  BY <1>3 DEF Passed
<1>5. SeenFits(f)
  BY DEF SeenFits
<1> QED
  BY <1>1, <1>2, <1>4, <1>5, ReadStep

LEMMA UsersTyped == BooksInv => users \subseteq User
BY DEF BooksInv, BooksTyped

LEMMA CallInv ==
  ASSUME BooksInv, Remember, NEW r \in Request, Call(r)
  PROVE  BooksInv'
<1>1. PICK u \in users, owner \in User, c \in Book :
        \/ Begin(r, Form("guid", "list", u, owner, c, {}, Personal))
        \/ \E k \in Key : Begin(r, Form("guid", "add", u, owner, c, {k}, k))
        \/ \E k \in Key, to \in Key :
             /\ to = k \/ {k, to} \subseteq Tag
             /\ Begin(r, Form("guid", "change", u, owner, c, {k}, to))
        \/ \E keys \in ((SUBSET Device) \cup (SUBSET Tag)) \ {{}} :
             Begin(r, Form("guid", "delete", u, owner, c, keys, Personal))
  BY DEF Call
<1>2. u \in User
  BY UsersTyped
<1>3. ASSUME NEW kind \in {"list", "add", "change", "delete"}, NEW keys \in SUBSET Key,
             NEW form \in Key \cup {Personal}, kind \in {"add", "change"} => form \in Key,
             Begin(r, Form("guid", kind, u, owner, c, keys, form))
      PROVE  BooksInv'
  <2> DEFINE f == Form("guid", kind, u, owner, c, keys, form)
  <2>1. f \in Asked
    BY <1>2, <1>3, FormAsked DEF Kind
  <2>2. f.seen = {} /\ f.pc = "guid" /\ f.kind = kind /\ f.form = form
    BY DEF Form
  <2> HIDE DEF f
  <2>3. AskFits(f)
    BY <1>3, <2>2 DEF AskFits
  <2> QED
    BY <1>3, <2>1, <2>2, <2>3, BeginInv DEF f
<1>4. CASE Begin(r, Form("guid", "list", u, owner, c, {}, Personal))
  BY <1>3, <1>4
<1>5. CASE \E k \in Key : Begin(r, Form("guid", "add", u, owner, c, {k}, k))
  BY <1>3, <1>5
<1>6. CASE \E k \in Key, to \in Key :
             /\ to = k \/ {k, to} \subseteq Tag
             /\ Begin(r, Form("guid", "change", u, owner, c, {k}, to))
  BY <1>3, <1>6
<1>7. ASSUME NEW keys \in ((SUBSET Device) \cup (SUBSET Tag)) \ {{}},
             Begin(r, Form("guid", "delete", u, owner, c, keys, Personal))
      PROVE  BooksInv'
  <2>1. keys \in SUBSET Key
    BY DEF Key
  <2> DEFINE kind == "delete"
             form == Personal
  <2>2. /\ kind \in {"list", "add", "change", "delete"} /\ kind \notin {"add", "change"}
        /\ form \in Key \cup {Personal}
        /\ Begin(r, Form("guid", kind, u, owner, c, keys, form))
    BY <1>7
  <2> HIDE DEF kind, form
  <2> QED
    BY <1>3, <2>1, <2>2
<1> QED
  BY <1>1, <1>4, <1>5, <1>6, <1>7

LEMMA ConsoleCallInv ==
  ASSUME BooksInv, Remember, NEW r \in Request, ConsoleCall(r) \/ SyncCall(r)
  PROVE  BooksInv'
<1>1. ASSUME NEW u \in users, NEW c \in Book,
             NEW kind \in {"create", "edit", "share", "reshare", "sync"},
             NEW pc \in {"owner", "read"}, pc = "read" <=> kind = "sync",
             kind = "sync" => c = Personal, NEW keys \in SUBSET Key,
             NEW form \in Key \cup {Personal} \cup [to : User \cup {Everyone}, level : 1..3],
             kind \in {"create", "edit"} => form \in Key,
             kind \in {"share", "reshare"} =>
               c \in Coll /\ form \in [to : User \cup {Everyone}, level : 1..3],
             Begin(r, Form(pc, kind, u, u, c, keys, form))
      PROVE  BooksInv'
  <2> DEFINE f == Form(pc, kind, u, u, c, keys, form)
  <2>1. f \in Asked
    BY <1>1, UsersTyped, FormAsked DEF Kind
  <2>2. /\ f.seen = {} /\ f.pc = pc /\ f.kind = kind /\ f.form = form
        /\ f.user = u /\ f.owner = u /\ f.coll = c
    BY DEF Form
  <2> HIDE DEF f
  <2>3. AskFits(f)
    BY <1>1, <2>2 DEF AskFits
  <2> QED
    BY <1>1, <2>1, <2>2, <2>3, BeginInv DEF f
<1>2. CASE ConsoleCall(r)
  <2>1. PICK u \in users, c \in Book :
          \/ \E k \in Key : Begin(r, Form("owner", "create", u, u, c, {k}, k))
          \/ \E k \in Key : Begin(r, Form("owner", "edit", u, u, c, {k}, k))
          \/ \E to \in (User \ {u}) \cup {Everyone}, level \in 1..3, kind \in {"share", "reshare"} :
               /\ c \in Coll
               /\ Begin(r, Form("owner", kind, u, u, c, {}, [to |-> to, level |-> level]))
    BY <1>2 DEF ConsoleCall
  <2>2. CASE \E k \in Key : Begin(r, Form("owner", "create", u, u, c, {k}, k))
    BY <1>1, <2>2
  <2>3. CASE \E k \in Key : Begin(r, Form("owner", "edit", u, u, c, {k}, k))
    BY <1>1, <2>3
  <2>4. ASSUME NEW to \in (User \ {u}) \cup {Everyone}, NEW level \in 1..3,
               NEW kind \in {"share", "reshare"}, c \in Coll,
               Begin(r, Form("owner", kind, u, u, c, {}, [to |-> to, level |-> level]))
        PROVE  BooksInv'
    <3>1. [to |-> to, level |-> level] \in [to : User \cup {Everyone}, level : 1..3]
      OBVIOUS
    <3> QED
      BY <1>1, <2>4, <3>1
  <2> QED
    BY <2>1, <2>2, <2>3, <2>4
<1>3. CASE SyncCall(r)
  <2>1. PICK u \in users, keys \in SUBSET Key :
          Begin(r, Form("read", "sync", u, u, Personal, keys, Personal))
    BY <1>3 DEF SyncCall
  <2>2. Personal \in Book
    BY DEF Book
  <2> QED
    BY <1>1, <2>1, <2>2
<1> QED
  BY <1>2, <1>3

LEMMA CheckGuidInv ==
  ASSUME BooksInv, Remember, NEW r \in Request, CheckGuid(r)
  PROVE  BooksInv'
<1> DEFINE o == [task[r] EXCEPT !.pc = "rule"]
<1>1. /\ task[r].pc = "guid" /\ GuidFits(task[r])
      /\ task' = [task EXCEPT ![r] = o]
      /\ UNCHANGED <<users, coll, rules, rows, made, inventory>>
  BY DEF CheckGuid, SetPc
<1>2. /\ task[r] \in Asked
      /\ AskFits(task[r]) /\ SeenFits(task[r])
  BY <1>1, AskedRequest DEF Busy
<1>3. /\ o \in Asked /\ o.pc = "rule" /\ o.kind = task[r].kind
      /\ o.user = task[r].user /\ o.owner = task[r].owner /\ o.coll = task[r].coll
      /\ o.form = task[r].form /\ o.seen = task[r].seen
  BY <1>2 DEF Asked
<1>4. task'[r] = o
  BY <1>1 DEF BooksInv, RequestsFit
<1> HIDE DEF o
<1>5. AskFits(o) /\ SeenFits(o)
  BY <1>1, <1>2, <1>3 DEF AskFits, SeenFits
<1>6. Recalled(r) => Passed(r)'
  <2> SUFFICES ASSUME Recalled(r)
               PROVE  lived'[r] /\ (o.user = o.owner => reach'[r] = 3)
    BY <1>3, <1>4 DEF Passed
  <2>1. o.coll = Personal \/ coll[o.coll] = o.owner
    BY <1>1, <1>3 DEF GuidFits
  <2>2. lived'[r]
    BY <1>1, <1>4, <2>1 DEF Recalled, Lives
  <2>3. ASSUME o.user = o.owner PROVE reach'[r] = 3
    <3>1. Entitled(task[r].user, task[r].owner, task[r].coll)' = 3
      BY <1>1, <1>4, <2>1, <2>3 DEF Entitled
    <3> QED
      BY <3>1 DEF Recalled
  <2> QED
    BY <2>2, <2>3
<1> QED
  BY <1>1, <1>3, <1>5, <1>6, ReadStep

LEMMA NeededFits ==
  ASSUME NEW k \in Kind
  PROVE  Needed[k] \in 1..3
BY DEF Needed

LEMMA CheckRuleInv ==
  ASSUME BooksInv, Remember, NEW r \in Request, CheckRule(r)
  PROVE  BooksInv'
<1>1. PICK pc \in {"act", "find"} : task' = [task EXCEPT ![r].pc = pc]
  BY DEF CheckRule, SetPc
<1> DEFINE o == [task[r] EXCEPT !.pc = pc]
<1>2. /\ task[r].pc = "rule"
      /\ UserMaxRule(task[r].user, task[r].owner, task[r].coll)
           >= Needed[task[r].kind]
      /\ task' = [task EXCEPT ![r] = o]
      /\ UNCHANGED <<users, coll, rules, rows, made, inventory>>
  BY <1>1 DEF CheckRule, AsksFor
<1>3. /\ task[r] \in Asked
      /\ AskFits(task[r]) /\ SeenFits(task[r]) /\ Passed(r)
  BY <1>2, AskedRequest DEF Busy
<1>4. /\ o \in Asked /\ o.pc = pc /\ o.kind = task[r].kind
      /\ o.user = task[r].user /\ o.owner = task[r].owner /\ o.coll = task[r].coll
      /\ o.form = task[r].form /\ o.seen = task[r].seen /\ o.kind \in Kind
  BY <1>3 DEF Asked
<1>5. task'[r] = o
  BY <1>2 DEF BooksInv, RequestsFit
<1> HIDE DEF o
<1>6. AskFits(o) /\ SeenFits(o)
  BY <1>2, <1>3, <1>4 DEF AskFits, SeenFits
<1>7. Recalled(r) => Passed(r)'
  <2> DEFINE n == Needed[o.kind]
  <2> SUFFICES ASSUME Recalled(r) PROVE lived'[r] /\ reach'[r] >= n
    BY <1>4, <1>5 DEF Passed, Needed
  <2>1. n \in 1..3
    BY <1>4, NeededFits
  <2>2. lived[r] /\ (o.user = o.owner => reach[r] = 3)
    BY <1>2, <1>3, <1>4 DEF Passed
  <2>3. lived'[r]
    BY <2>2 DEF Recalled
  <2>4. CASE o.user = o.owner
    <3>1. reach'[r] = 3
      BY <2>2, <2>4 DEF Recalled
    <3> QED
      BY <2>1, <2>3, <3>1
  <2>5. CASE o.user # o.owner
    <3> DEFINE i == LevelTo(o.user, o.coll)
               j == LevelTo(Everyone, o.coll)
               e == Entitled(task[r].user, task[r].owner, task[r].coll)'
    <3>1. MaxOf(i, j) >= n
      BY <1>2, <1>4, <2>5 DEF UserMaxRule
    <3>2. e = 3 \/ e = MaxOf(i, j)
      BY <1>2, <1>5 DEF Entitled, LevelTo
    <3>3. i \in 0..3 /\ j \in 0..3
      BY LevelFits DEF BooksInv, BooksTyped
    <3>4. reach'[r] \in 0..3 /\ reach'[r] >= e
      BY DEF Recalled
    <3> HIDE DEF i, j, e, n
    <3>5. MaxOf(i, j) \in 0..3
      BY <3>3, MaxFits
    <3> QED
      BY <2>1, <2>3, <3>1, <3>2, <3>4, <3>5
  <2> QED
    BY <2>4, <2>5
<1> QED
  BY <1>2, <1>4, <1>6, <1>7, ReadStep

\* A request of somebody's own books, whose collection is the user's.
LEMMA OwnerPassed ==
  ASSUME BooksInv, NEW r \in Request, Recalled(r), NEW o \in Asked, task'[r] = o,
         UNCHANGED <<coll, rules>>, o.user = o.owner,
         o.coll # Personal => coll[o.coll] = o.user, o.pc \in {"find", "act"}
  PROVE  Passed(r)'
<1> DEFINE n == Needed[o.kind]
<1>1. lived'[r]
  BY DEF Recalled, Lives
<1>2. Entitled(task[r].user, task[r].owner, task[r].coll)' = 3
  BY DEF Entitled
<1>3. reach'[r] = 3
  BY <1>2 DEF Recalled
<1>4. n \in 1..3
  BY NeededFits DEF Asked
<1> QED
  <2> SUFFICES lived'[r] /\ reach'[r] >= n
    BY DEF Passed, Needed
  <2> HIDE DEF n
  <2> QED
    BY <1>1, <1>3, <1>4

\* The reads of such a request keep its form.
LEMMA OwnRead ==
  ASSUME BooksInv, Remember, NEW r \in Request, Busy(r), NEW o \in Asked,
         task' = [task EXCEPT ![r] = o],
         UNCHANGED <<users, coll, rules, rows, made, inventory>>,
         o.kind = task[r].kind, o.user = task[r].user, o.owner = task[r].owner,
         o.coll = task[r].coll, o.form = task[r].form,
         o.kind \in {"create", "edit", "share", "reshare"}, o.pc \in {"find", "act"},
         o.coll # Personal => coll[o.coll] = o.user, SeenFits(o)
  PROVE  BooksInv'
<1>1. AskFits(task[r])
  BY AskedRequest
<1>2. AskFits(o)
  BY <1>1 DEF AskFits
<1>3. task'[r] = o /\ o.user = o.owner
  BY <1>2 DEF AskFits, BooksInv, RequestsFit
<1>4. Recalled(r) => Passed(r)'
  BY <1>3, OwnerPassed
<1> QED
  BY <1>2, <1>4, ReadStep

LEMMA CheckOwnerInv ==
  ASSUME BooksInv, Remember, NEW r \in Request, CheckOwner(r)
  PROVE  BooksInv'
<1>1. /\ task[r].pc = "owner"
      /\ task[r].coll # Personal => coll[task[r].coll] = task[r].user
      /\ UNCHANGED <<users, coll, rules, rows, made, inventory>>
  BY DEF CheckOwner
<1>2. Busy(r)
  BY <1>1 DEF Busy
<1>3. /\ task[r] \in Asked
      /\ AskFits(task[r]) /\ SeenFits(task[r])
  BY <1>2, AskedRequest
<1>4. task[r].kind \in {"create", "edit", "share", "reshare"}
  BY <1>1, <1>3 DEF AskFits
<1>5. CASE task' = [task EXCEPT ![r].pc = "find"]
  <2> DEFINE o == [task[r] EXCEPT !.pc = "find"]
  <2>1. o \in Asked
    BY <1>3, PcAsked
  <2>2. /\ o.pc = "find" /\ o.kind = task[r].kind /\ o.seen = task[r].seen
        /\ o.user = task[r].user /\ o.owner = task[r].owner
        /\ o.coll = task[r].coll /\ o.form = task[r].form
    BY <1>3 DEF Asked
  <2>3. task' = [task EXCEPT ![r] = o]
    BY <1>5
  <2> HIDE DEF o
  <2>4. SeenFits(o)
    BY <1>3, <2>2 DEF SeenFits
  <2> QED
    BY <1>1, <1>2, <1>4, <2>1, <2>2, <2>3, <2>4, OwnRead
<1>6. ASSUME NEW x \in rows, x.user = task[r].user, task[r].kind = "edit",
             task' = [task EXCEPT ![r].pc = "act", ![r].seen = {x}]
      PROVE  BooksInv'
  <2> DEFINE o == [task[r] EXCEPT !.pc = "act", !.seen = {x}]
  <2>1. rows \subseteq BookRow /\ IdsApart
    BY DEF BooksInv, BooksTyped
  <2>2. o \in Asked
    BY <1>3, <2>1, PcAsked
  <2>3. /\ o.pc = "act" /\ o.kind = task[r].kind /\ o.seen = {x}
        /\ o.user = task[r].user /\ o.owner = task[r].owner
        /\ o.coll = task[r].coll /\ o.form = task[r].form
    BY <1>3 DEF Asked
  <2>4. task' = [task EXCEPT ![r] = o]
    BY <1>6, <1>3 DEF BooksInv, RequestsFit
  <2> HIDE DEF o
  <2>5. o.user = o.owner
    BY <1>3, <1>4, <2>3 DEF AskFits
  <2>6. SeenFits(o)
    BY <1>6, <2>1, <2>3, <2>5 DEF SeenFits, IdsApart
  <2> QED
    BY <1>1, <1>2, <1>4, <2>2, <2>3, <2>4, <2>6, OwnRead
<1> QED
  BY <1>5, <1>6 DEF CheckOwner, SetPc

\* A request that goes on to its write keeps what its checks have found.
LEMMA FoundInv ==
  ASSUME BooksInv, Remember, NEW r \in Request, task[r].pc = "find",
         NEW o \in Asked, task' = [task EXCEPT ![r] = o],
         UNCHANGED <<users, coll, rules, rows, made, inventory>>,
         o.kind = task[r].kind, o.user = task[r].user, o.owner = task[r].owner,
         o.coll = task[r].coll, o.form = task[r].form, o.pc = "act", SeenFits(o)
  PROVE  BooksInv'
<1>1. Busy(r)
  BY DEF Busy
<1>2. AskFits(task[r]) /\ Passed(r)
  BY <1>1, AskedRequest
<1>3. AskFits(o)
  BY <1>2 DEF AskFits
<1>4. task'[r] = o
  BY DEF BooksInv, RequestsFit
<1>5. Recalled(r) => Passed(r)'
  <2> DEFINE n == Needed[o.kind]
  <2> SUFFICES ASSUME Recalled(r) PROVE lived'[r] /\ reach'[r] >= n
    BY <1>4 DEF Passed, Needed
  <2>1. n \in 1..3
    BY NeededFits DEF Asked
  <2>2. lived[r] /\ reach[r] >= n
    BY <1>2 DEF Passed
  <2>3. lived'[r] /\ reach'[r] >= reach[r] /\ reach'[r] \in 0..3
    BY <2>2 DEF Recalled
  <2>4. reach[r] \in 0..3
    BY DEF BooksInv, BooksTyped
  <2> HIDE DEF n
  <2> QED
    BY <2>1, <2>2, <2>3, <2>4
<1> QED
  BY <1>3, <1>5, ReadStep

LEMMA RowTyped ==
  ASSUME NEW x \in BookRow
  PROVE  x.id \in Nat /\ x.user \in User /\ x.coll \in Book /\ x.key \in Key
BY BooksAssumption DEF BookRow

LEMMA FindNoneInv ==
  ASSUME BooksInv, Remember, NEW r \in Request, FindNone(r)
  PROVE  BooksInv'
<1> DEFINE o == [task[r] EXCEPT !.pc = "act"]
<1>1. /\ task[r].pc = "find"
      /\ task' = [task EXCEPT ![r] = o]
      /\ UNCHANGED <<users, coll, rules, rows, made, inventory>>
  BY DEF FindNone, SetPc
<1>2. task[r] \in Asked /\ SeenFits(task[r])
  BY <1>1, AskedRequest DEF Busy
<1>3. /\ o \in Asked /\ o.pc = "act" /\ o.kind = task[r].kind
      /\ o.user = task[r].user /\ o.owner = task[r].owner /\ o.coll = task[r].coll
      /\ o.form = task[r].form /\ o.seen = task[r].seen
  BY <1>2 DEF Asked
<1> HIDE DEF o
<1>4. SeenFits(o)
  BY <1>2, <1>3 DEF SeenFits
<1> QED
  BY <1>1, <1>3, <1>4, FoundInv

LEMMA FindRowInv ==
  ASSUME BooksInv, Remember, NEW r \in Request, FindRow(r)
  PROVE  BooksInv'
<1> DEFINE found(k) == Named(task[r].owner, task[r].coll, k)
<1>1. PICK k \in task[r].keys :
        /\ found(k) # {}
        /\ task' = [task EXCEPT ![r].pc = "act", ![r].seen = {Oldest(found(k))},
                                        ![r].keys = @ \ {k}]
  BY DEF FindRow
<1> DEFINE x == Oldest(found(k))
           o == [task[r] EXCEPT !.pc = "act", !.seen = {x}, !.keys = @ \ {k}]
<1>2. /\ task[r].pc = "find"
      /\ UNCHANGED <<users, coll, rules, rows, made, inventory>>
  BY DEF FindRow
<1>3. task[r] \in Asked
  BY <1>2, AskedRequest DEF Busy
<1>4. task' = [task EXCEPT ![r] = o]
  BY <1>1, <1>3 DEF BooksInv, RequestsFit
<1>5. rows \subseteq BookRow /\ IdsApart
  BY DEF BooksInv, BooksTyped
<1>6. x \in found(k)
  <2>1. \A y \in found(k) : y.id \in Nat
    BY <1>5, RowTyped DEF Named, In
  <2> HIDE DEF found
  <2> QED
    BY <1>1, <2>1, OldestThere
<1>7. x \in rows /\ x.user = task[r].owner
  BY <1>6 DEF Named, In
<1> HIDE DEF x
<1>8. /\ o \in Asked /\ o.pc = "act" /\ o.kind = task[r].kind /\ o.seen = {x}
      /\ o.user = task[r].user /\ o.owner = task[r].owner /\ o.coll = task[r].coll
      /\ o.form = task[r].form
  BY <1>3, <1>5, <1>7 DEF Asked
<1> HIDE DEF o
<1>9. SeenFits(o)
  BY <1>5, <1>7, <1>8 DEF SeenFits, IdsApart
<1> QED
  BY <1>2, <1>4, <1>8, <1>9, FoundInv

LEMMA CheckFormInv ==
  ASSUME BooksInv, Remember, NEW r \in Request, CheckForm(r)
  PROVE  BooksInv'
<1>1. /\ task[r].pc = "find"
      /\ UNCHANGED <<users, coll, rules, rows, made, inventory>>
  BY DEF CheckForm
<1>2. task[r] \in Asked /\ SeenFits(task[r])
  BY <1>1, AskedRequest DEF Busy
<1>3. CASE task' = [task EXCEPT ![r].pc = "act"]
  <2> DEFINE o == [task[r] EXCEPT !.pc = "act"]
  <2>1. /\ o \in Asked /\ o.pc = "act" /\ o.kind = task[r].kind
        /\ o.user = task[r].user /\ o.owner = task[r].owner /\ o.coll = task[r].coll
        /\ o.form = task[r].form /\ o.seen = task[r].seen
    BY <1>2 DEF Asked
  <2>2. task' = [task EXCEPT ![r] = o]
    BY <1>3
  <2> HIDE DEF o
  <2>3. SeenFits(o)
    BY <1>2, <2>1 DEF SeenFits
  <2> QED
    BY <1>1, <2>1, <2>2, <2>3, FoundInv
<1>4. ASSUME NEW x \in rules, task[r].kind = "reshare",
             task' = [task EXCEPT ![r].pc = "act", ![r].seen = {x}]
      PROVE  BooksInv'
  <2> DEFINE o == [task[r] EXCEPT !.pc = "act", !.seen = {x}]
  <2>1. rules \subseteq Rule
    BY DEF BooksInv, BooksTyped
  <2>2. o \in Asked
    BY <1>2, <2>1, PcAsked
  <2>3. /\ o.pc = "act" /\ o.kind = task[r].kind
        /\ o.user = task[r].user /\ o.owner = task[r].owner /\ o.coll = task[r].coll
        /\ o.form = task[r].form
    BY <1>2 DEF Asked
  <2>4. task' = [task EXCEPT ![r] = o]
    BY <1>4, <1>2 DEF BooksInv, RequestsFit
  <2> HIDE DEF o
  <2>5. SeenFits(o)
    BY <1>4, <2>3 DEF SeenFits
  <2> QED
    BY <1>1, <2>2, <2>3, <2>4, <2>5, FoundInv
<1> QED
  BY <1>3, <1>4 DEF CheckForm, SetPc

\* The end of a request that has written nothing.
LEMMA EndInv ==
  ASSUME BooksInv, Remember, NEW r \in Request, List(r) \/ GiveUp(r)
  PROVE  BooksInv'
<1>1. /\ task' = [task EXCEPT ![r] = Done]
      /\ UNCHANGED <<users, coll, rules, rows, made, inventory>>
  BY DEF List, GiveUp, End
<1> QED
  BY <1>1, ReadStep

LEMMA SyncReadInv ==
  ASSUME BooksInv, Remember, NEW r \in Request, SyncRead(r)
  PROVE  BooksInv'
<1> DEFINE book == PersonalRows(task[r].user)
           o == [task[r] EXCEPT !.pc = "write", !.seen = book, !.inv = inventory]
<1>1. /\ task[r].pc = "read"
      /\ task' = [task EXCEPT ![r].pc = "write", ![r].seen = book, ![r].inv = inventory]
      /\ UNCHANGED <<users, coll, rules, rows, made, inventory>>
  BY DEF SyncRead
<1>2. /\ task[r] \in Asked
      /\ AskFits(task[r]) /\ SeenFits(task[r])
  BY <1>1, AskedRequest DEF Busy
<1>3. /\ rows \subseteq BookRow /\ IdsApart /\ inventory \in [Device -> 0..MaxReport]
  BY DEF BooksInv, BooksTyped
<1>4. book \subseteq rows /\ \A x \in book : x.user = task[r].user
  BY DEF PersonalRows, In
<1> HIDE DEF book
<1>5. task' = [task EXCEPT ![r] = o]
  BY <1>1, <1>2 DEF BooksInv, RequestsFit
<1>6. /\ o \in Asked /\ o.pc = "write" /\ o.kind = task[r].kind /\ o.seen = book
      /\ o.user = task[r].user /\ o.owner = task[r].owner /\ o.coll = task[r].coll
      /\ o.form = task[r].form
  BY <1>2, <1>3, <1>4 DEF Asked
<1> HIDE DEF o
<1>7. o.kind = "sync" /\ task[r].user = task[r].owner
  BY <1>1, <1>2, <1>6 DEF AskFits
<1>8. AskFits(o)
  BY <1>2, <1>6, <1>7 DEF AskFits
<1>9. SeenFits(o)
  BY <1>3, <1>4, <1>6, <1>7 DEF SeenFits, IdsApart
<1>10. task'[r] = o
  BY <1>5 DEF BooksInv, RequestsFit
<1>11. Passed(r)'
  BY <1>6, <1>10 DEF Passed
<1> QED
  BY <1>1, <1>5, <1>6, <1>8, <1>9, <1>11, ReadStep

\* A request that writes rows or rules, and ends or goes on.
LEMMA WriteStep ==
  ASSUME BooksInv, Remember, NEW r \in Request,
         NEW o \in Asked \cup {Done}, task' = [task EXCEPT ![r] = o],
         UNCHANGED <<users, coll, inventory>>, rules' \subseteq Rule,
         RowsFollow, RowsFit',
         o # Done =>
           /\ o.user = task[r].user /\ o.owner = task[r].owner /\ o.coll = task[r].coll
           /\ AskFits(o) /\ o.seen = {} /\ (Recalled(r) => Passed(r)')
  PROVE  BooksInv'
<1>1. BooksTyped /\ task \in [Request -> Asked \cup {New, Done}]
  BY DEF BooksInv, RequestsFit
<1>2. task' \in [Request -> Asked \cup {New, Done}]
  BY <1>1
<1>3. task'[r] = o /\ \A q \in Request : q # r => task'[q] = task[q]
  BY <1>1
<1>4. Busy(r)' => o # Done
  BY <1>3 DEF Busy, Done
<1>5. SameBooks
  BY <1>3, <1>4 DEF SameBooks
<1>6. CollsFollow
  BY <1>1 DEF CollsFollow, BooksTyped
<1>7. ASSUME NEW q \in Request PROVE Proceeds(q)
  <2>1. CASE q # r
    BY <1>3, <2>1 DEF Proceeds
  <2>2. CASE q = r
    <3>1. o # Done => AskFits(task[r])'
      BY <1>3 DEF AskFits
    <3>2. o # Done => SeenFits(task[r])'
      BY <1>3 DEF SeenFits
    <3> QED
      BY <1>4, <2>2, <3>1, <3>2 DEF Proceeds
  <2> QED
    BY <2>1, <2>2
<1> QED
  BY <1>1, <1>2, <1>5, <1>6, <1>7, BooksStep DEF BooksTyped

LEMMA RowsNow ==
  ASSUME BooksInv
  PROVE  /\ rows \subseteq BookRow /\ rules \subseteq Rule
         /\ made \in [row : 0..MaxRow, rule : 0..MaxRule]
         /\ inventory \in [Device -> 0..MaxReport]
         /\ IdsApart /\ RowsBelong
         /\ Serializable => InventoryNeverDriftsBack
         /\ MaxRow \in Nat /\ MaxRule \in Nat /\ MaxReport \in Nat
         /\ made.row \in Nat /\ made.rule \in Nat
BY BooksAssumption DEF BooksInv, BooksTyped

\* A request that acts knows whose the collection is, or was.
LEMMA ActsInOwn ==
  ASSUME BooksInv, NEW r \in Request, task[r].pc = "act"
  PROVE  /\ task[r] \in Asked
         /\ AskFits(task[r]) /\ SeenFits(task[r])
         /\ lived[r] /\ reach[r] >= Needed[task[r].kind]
         /\ task[r].coll \in Coll => coll[task[r].coll] \in {task[r].owner, Gone}
<1>1. /\ task[r] \in Asked
      /\ AskFits(task[r]) /\ SeenFits(task[r]) /\ Passed(r)
  BY AskedRequest DEF Busy
<1>2. lived[r] /\ reach[r] >= Needed[task[r].kind]
  BY <1>1 DEF Passed
<1> QED
  BY <1>1, <1>2 DEF BooksInv, LivedFits

LEMMA AddInv ==
  ASSUME BooksInv, Remember, NEW r \in Request, Add(r)
  PROVE  BooksInv'
<1> DEFINE h == task[r]
           new == NewRow(made.row + 1, h.owner, h.coll, h.form, "client", 0)
<1>1. /\ h.pc = "act" /\ h.kind \in {"add", "create"}
      /\ made.row < MaxRow /\ rows' = rows \cup {new}
      /\ made' = [made EXCEPT !.row = made.row + 1]
      /\ task' = [task EXCEPT ![r] = Done]
      /\ UNCHANGED <<users, coll, rules, inventory>>
  BY DEF Add, Insert, End
<1>2. /\ h \in Asked /\ AskFits(h)
      /\ h.coll \in Coll => coll[h.coll] \in {h.owner, Gone}
  BY <1>1, ActsInOwn
<1>3. h.owner \in User /\ h.coll \in Book /\ h.form \in Key
  BY <1>1, <1>2 DEF Asked, AskFits
<1> HIDE DEF h
<1>4. new \in BookRow
  BY <1>1, <1>3, RowsNow DEF NewRow, BookRow
<1>5. /\ new.id = made.row + 1 /\ new.user = h.owner /\ new.coll = h.coll
      /\ new.key = h.form /\ new.source = "client"
  BY DEF NewRow
<1> HIDE DEF new
<1>6. /\ made' \in [row : 0..MaxRow, rule : 0..MaxRule] /\ made'.row = made.row + 1
  BY <1>1, RowsNow
<1>7. \A x \in rows : x.id \in Nat /\ x.id <= made.row
  BY RowsNow, RowTyped DEF IdsApart
<1>8. RowsFollow
  <2>1. rows' \subseteq BookRow
    BY <1>1, <1>4, RowsNow
  <2>2. made.row <= made'.row
    BY <1>6, RowsNow
  <2>3. ASSUME NEW x \in rows', x.id <= made.row
        PROVE  \E y \in rows : y.id = x.id /\ y.user = x.user
    BY <1>1, <1>5, <2>3, RowsNow
  <2> QED
    BY <1>6, <2>1, <2>2, <2>3 DEF RowsFollow
<1>9. IdsApart'
  <2>1. ASSUME NEW x \in rows' PROVE x.id <= made'.row
    BY <1>1, <1>5, <1>6, <1>7, RowsNow
  <2>2. ASSUME NEW x \in rows', NEW y \in rows', x.id = y.id PROVE x = y
    BY <1>1, <1>5, <1>7, <2>2, RowsNow DEF IdsApart
  <2> QED
    BY <2>1, <2>2 DEF IdsApart
<1>10. RowsBelong'
  BY <1>1, <1>2, <1>5, RowsNow DEF RowsBelong
<1>11. Serializable => InventoryNeverDriftsBack'
  BY <1>1, <1>5, RowsNow DEF InventoryNeverDriftsBack
<1>12. RowsFit'
  BY <1>9, <1>10, <1>11 DEF RowsFit
<1> QED
  BY <1>1, <1>8, <1>12, RowsNow, WriteStep

\* A write by primary key: no row is new.
LEMMA RowsRewritten ==
  ASSUME BooksInv, made' \in [row : 0..MaxRow, rule : 0..MaxRule], made'.row = made.row,
         rows' \subseteq BookRow,
         \A x \in rows' : \E y \in rows : y.id = x.id /\ y.user = x.user,
         \A x, y \in rows' : x.id = y.id => x = y
  PROVE  RowsFollow /\ IdsApart'
<1>1. made.row <= made'.row
  BY RowsNow
<1>2. RowsFollow
  BY <1>1 DEF RowsFollow
<1>3. ASSUME NEW x \in rows' PROVE x.id <= made'.row
  BY RowsNow DEF IdsApart
<1> QED
  BY <1>2, <1>3 DEF IdsApart

LEMMA ChangeInv ==
  ASSUME BooksInv, Remember, NEW r \in Request, Change(r)
  PROVE  BooksInv'
<1> DEFINE h == task[r]
           ids == {y.id : y \in h.seen}
           written(x) == IF x.id \notin ids THEN x
                         ELSE IF h.kind = "edit"
                           THEN NewRow(x.id, x.user, h.coll, h.form, "client", 0)
                         ELSE IF h.form \in Device THEN x
                         ELSE [x EXCEPT !.coll = h.coll, !.key = h.form]
<1>1. /\ h.pc = "act" /\ h.kind \in {"change", "edit"}
      /\ rows' = {written(x) : x \in rows}
      /\ task' = [task EXCEPT ![r] = Done]
      /\ UNCHANGED <<users, coll, rules, made, inventory>>
  BY DEF Change, End
<1>2. /\ h \in Asked /\ AskFits(h) /\ SeenFits(h)
      /\ h.coll \in Coll => coll[h.coll] \in {h.owner, Gone}
  BY <1>1, ActsInOwn
<1>3. h.coll \in Book /\ h.form \in Key
  BY <1>1, <1>2 DEF Asked, AskFits
<1>4. ASSUME NEW x \in rows, x.id \in ids PROVE x.user = h.owner
  BY <1>1, <1>2, <1>4 DEF SeenFits
<1> HIDE DEF h, ids
<1>5. ASSUME NEW x \in rows
      PROVE  /\ written(x) \in BookRow /\ written(x).id = x.id /\ written(x).user = x.user
             /\ \/ written(x).coll = x.coll
                \/ x.user = h.owner /\ written(x).coll = h.coll
             /\ \/ written(x).key \notin Device \/ written(x).source = "client" \/ written(x) = x
  <2>1. x \in BookRow
    BY RowsNow
  <2>2. CASE written(x) = x
    BY <2>1, <2>2
  <2>3. CASE x.id \in ids /\ written(x) = NewRow(x.id, x.user, h.coll, h.form, "client", 0)
    <3>1. x.user = h.owner
      BY <1>4, <2>3
    <3>2. NewRow(x.id, x.user, h.coll, h.form, "client", 0) \in BookRow
      BY <1>3, <2>1, RowsNow DEF NewRow, BookRow
    <3> HIDE DEF written
    <3> QED
      BY <2>3, <3>1, <3>2 DEF NewRow
  <2>4. CASE x.id \in ids /\ h.form \notin Device
             /\ written(x) = [x EXCEPT !.coll = h.coll, !.key = h.form]
    <3>1. x.user = h.owner
      BY <1>4, <2>4
    <3> HIDE DEF written
    <3>2. /\ written(x) \in BookRow /\ written(x).id = x.id /\ written(x).user = x.user
          /\ written(x).coll = h.coll /\ written(x).key = h.form
      BY <1>3, <2>1, <2>4 DEF BookRow
    <3> QED
      BY <2>4, <3>1, <3>2
  <2> QED
    BY <2>2, <2>3, <2>4
<1> HIDE DEF written
<1>6. RowsFollow /\ IdsApart'
  <2>1. rows' \subseteq BookRow
    BY <1>1, <1>5
  <2>2. \A x \in rows' : \E y \in rows : y.id = x.id /\ y.user = x.user
    BY <1>1, <1>5
  <2>3. \A x, y \in rows' : x.id = y.id => x = y
    BY <1>1, <1>5, RowsNow DEF IdsApart
  <2> QED
    BY <1>1, <2>1, <2>2, <2>3, RowsNow, RowsRewritten
<1>7. RowsBelong'
  BY <1>1, <1>2, <1>5, RowsNow DEF RowsBelong
<1>8. Serializable => InventoryNeverDriftsBack'
  BY <1>1, <1>5, RowsNow DEF InventoryNeverDriftsBack
<1>9. RowsFit'
  BY <1>6, <1>7, <1>8 DEF RowsFit
<1> QED
  BY <1>1, <1>6, <1>9, RowsNow, WriteStep

\* Rows that go take nothing with them.
LEMMA RowsFewer ==
  ASSUME BooksInv, rows' \subseteq rows, made' = made, inventory' = inventory,
         \A x \in rows' : x.coll \in Coll => coll'[x.coll] \in {coll[x.coll], Gone}
  PROVE  RowsFollow /\ RowsFit'
<1>1. RowsFollow /\ IdsApart'
  <2>1. \A x \in rows' : \E y \in rows : y.id = x.id /\ y.user = x.user
    OBVIOUS
  <2>2. \A x, y \in rows' : x.id = y.id => x = y
    BY RowsNow DEF IdsApart
  <2> QED
    BY <2>1, <2>2, RowsNow, RowsRewritten
<1>2. RowsBelong'
  BY RowsNow DEF RowsBelong
<1>3. Serializable => InventoryNeverDriftsBack'
  BY RowsNow DEF InventoryNeverDriftsBack
<1> QED
  BY <1>1, <1>2, <1>3 DEF RowsFit

LEMMA DeleteInv ==
  ASSUME BooksInv, Remember, NEW r \in Request, Delete(r)
  PROVE  BooksInv'
<1>1. /\ task[r].pc = "act" /\ task[r].kind = "delete"
      /\ rows' \subseteq rows
      /\ UNCHANGED <<users, coll, rules, made, inventory>>
  BY DEF Delete
<1>2. /\ task[r] \in Asked /\ AskFits(task[r])
      /\ lived[r] /\ reach[r] >= Needed[task[r].kind]
  BY <1>1, ActsInOwn
<1>3. RowsFollow /\ RowsFit' /\ rules' \subseteq Rule
  BY <1>1, RowsNow, RowsFewer
<1>4. CASE task' = [task EXCEPT ![r] = Done]
  BY <1>1, <1>3, <1>4, WriteStep
<1> DEFINE o == [task[r] EXCEPT !.pc = "find", !.seen = {}]
<1>5. CASE task' = [task EXCEPT ![r] = o]
  <2>1. /\ o \in Asked /\ o.pc = "find" /\ o.kind = task[r].kind /\ o.seen = {}
        /\ o.user = task[r].user /\ o.owner = task[r].owner /\ o.coll = task[r].coll
        /\ o.form = task[r].form /\ o.kind \in Kind
    BY <1>2 DEF Asked
  <2> HIDE DEF o
  <2>2. AskFits(o)
    BY <1>1, <1>2, <2>1 DEF AskFits
  <2>3. task'[r] = o
    BY <1>5 DEF BooksInv, RequestsFit
  <2>4. Recalled(r) => Passed(r)'
    <3> DEFINE n == Needed[o.kind]
    <3> SUFFICES ASSUME Recalled(r) PROVE lived'[r] /\ reach'[r] >= n
      BY <2>1, <2>3 DEF Passed, Needed
    <3>1. n \in 1..3
      BY <2>1, NeededFits
    <3>2. lived[r] /\ reach[r] >= n /\ reach[r] \in 0..3
      BY <1>2, <2>1 DEF BooksInv, BooksTyped
    <3>3. lived'[r] /\ reach'[r] >= reach[r] /\ reach'[r] \in 0..3
      BY <3>2 DEF Recalled
    <3> HIDE DEF n
    <3> QED
      BY <3>1, <3>2, <3>3
  <2> QED
    BY <1>1, <1>3, <1>5, <2>1, <2>2, <2>4, WriteStep
<1> QED
  <2>1. task' = [task EXCEPT ![r] = IF task[r].keys = {} THEN Done ELSE o]
    BY DEF Delete, BooksInv, RequestsFit
  <2> HIDE DEF o
  <2> QED
    BY <1>4, <1>5, <2>1

LEMMA CreateRuleInv ==
  ASSUME BooksInv, Remember, NEW r \in Request, CreateRule(r)
  PROVE  BooksInv'
<1> DEFINE h == task[r]
           new == [id |-> made.rule + 1, owner |-> h.user, coll |-> h.coll,
                   to |-> h.form.to, level |-> h.form.level]
<1>1. /\ h.pc = "act" /\ h.kind = "share" /\ made.rule < MaxRule
      /\ rules' = rules \cup {new} /\ made' = [made EXCEPT !.rule = made.rule + 1]
      /\ task' = [task EXCEPT ![r] = Done]
      /\ UNCHANGED <<users, coll, rows, inventory>>
  BY DEF CreateRule, End
<1>2. h \in Asked /\ AskFits(h)
  BY <1>1, ActsInOwn
<1>3. h.user \in User /\ h.coll \in Coll
      /\ h.form \in [to : User \cup {Everyone}, level : 1..3]
  BY <1>1, <1>2 DEF Asked, AskFits
<1> HIDE DEF h
<1>4. new \in Rule
  BY <1>1, <1>3, RowsNow DEF Rule
<1> HIDE DEF new
<1>5. made' \in [row : 0..MaxRow, rule : 0..MaxRule] /\ made'.row = made.row
  BY <1>1, RowsNow
<1>6. RowsFollow /\ IdsApart'
  <2>1. \A x \in rows' : \E y \in rows : y.id = x.id /\ y.user = x.user
    BY <1>1
  <2> QED
    BY <1>1, <1>5, <2>1, RowsNow, RowsRewritten DEF IdsApart
<1>7. RowsFit'
  BY <1>1, <1>6, RowsNow DEF RowsFit, RowsBelong, InventoryNeverDriftsBack
<1> QED
  BY <1>1, <1>4, <1>6, <1>7, RowsNow, WriteStep

LEMMA UpdateRuleInv ==
  ASSUME BooksInv, Remember, NEW r \in Request, UpdateRule(r)
  PROVE  BooksInv'
<1> DEFINE h == task[r]
           new(x) == [id |-> x.id, owner |-> x.owner, coll |-> h.coll,
                      to |-> h.form.to, level |-> h.form.level]
<1>1. /\ h.pc = "act" /\ h.kind = "reshare"
      /\ \A x \in rules' : x \in rules \/ \E y \in rules : x = new(y)
      /\ task' = [task EXCEPT ![r] = Done]
      /\ UNCHANGED <<users, coll, rows, made, inventory>>
  BY DEF UpdateRule, End
<1>2. h \in Asked /\ AskFits(h)
  BY <1>1, ActsInOwn
<1>3. h.coll \in Coll /\ h.form \in [to : User \cup {Everyone}, level : 1..3]
  BY <1>1, <1>2 DEF Asked, AskFits
<1> HIDE DEF h
<1>4. \A x \in rules : new(x) \in Rule
  BY <1>3, RowsNow DEF Rule
<1>5. rules' \subseteq Rule
  BY <1>1, <1>4, RowsNow
<1>6. RowsFollow /\ RowsFit'
  BY <1>1, RowsNow, RowsFewer
<1> QED
  BY <1>1, <1>5, <1>6, WriteStep

-----------------------------------------------------------------------------
LEMMA UpdatedFits ==
  ASSUME BooksInv, NEW x \in rows, NEW known \in [Device -> 0..MaxReport]
  PROVE  /\ Updated(x, known) \in BookRow
         /\ Updated(x, known).id = x.id /\ Updated(x, known).user = x.user
         /\ Updated(x, known).coll = x.coll /\ Updated(x, known).key = x.key
<1>1. x \in BookRow /\ MaxReport \in Nat
  BY RowsNow
<1>2. Verified(x.key, known) \in 0..MaxReport
  BY <1>1 DEF Verified
<1> DEFINE v == Verified(x.key, known)
<1>3. Updated(x, known) = x \/ Updated(x, known) = [x EXCEPT !.inv = v, !.source = "server"]
  BY DEF Updated
<1> HIDE DEF v
<1>4. [x EXCEPT !.inv = v, !.source = "server"] \in BookRow
  BY <1>1, <1>2 DEF BookRow, v
<1> QED
  BY <1>1, <1>3, <1>4 DEF BookRow

\* What a synchronisation may make of the rows.
LEMMA SyncEffects ==
  ASSUME BooksInv, NEW r \in Request, SyncCommit(r)
  PROVE  \E last \in made.row..MaxRow :
           \E one \in Choices(task[r]),
              new \in Numberings(task[r].keys \ {x.key : x \in task[r].seen}, last) :
             rows' = SyncedRows(task[r], one, new) /\ made' = [made EXCEPT !.row = last]
BY Zenon DEF SyncCommit

LEMMA SyncRequest ==
  ASSUME BooksInv, NEW r \in Request, SyncCommit(r)
  PROVE  /\ task[r] \in Asked /\ SeenFits(task[r])
         /\ task[r].kind = "sync" /\ task[r].user = task[r].owner
         /\ task' = [task EXCEPT ![r] = Done]
         /\ UNCHANGED <<users, coll, rules, inventory>>
         /\ Serializable => /\ task[r].seen = PersonalRows(task[r].user)
                            /\ \A d \in Device \cap task[r].keys :
                                 task[r].inv[d] = inventory[d]
<1>1. /\ task[r].pc = "write"
      /\ task' = [task EXCEPT ![r] = Done]
      /\ UNCHANGED <<users, coll, rules, inventory>>
      /\ Serializable => /\ task[r].seen = PersonalRows(task[r].user)
                         /\ \A d \in Device \cap task[r].keys :
                              task[r].inv[d] = inventory[d]
  BY DEF SyncCommit, End
<1>2. /\ task[r] \in Asked
      /\ AskFits(task[r]) /\ SeenFits(task[r])
  BY <1>1, AskedRequest DEF Busy
<1> QED
  BY <1>1, <1>2 DEF AskFits

LEMMA SyncCommitInv ==
  ASSUME BooksInv, Remember, NEW r \in Request, SyncCommit(r)
  PROVE  BooksInv'
<1> DEFINE h == task[r]
           missing == h.keys \ {x.key : x \in h.seen}
<1>0. PICK last \in made.row..MaxRow :
        \E one \in Choices(h), new \in Numberings(missing, last) :
          rows' = SyncedRows(h, one, new) /\ made' = [made EXCEPT !.row = last]
  BY SyncEffects
<1>1. PICK one \in Choices(h), new \in Numberings(missing, last) :
        rows' = SyncedRows(h, one, new) /\ made' = [made EXCEPT !.row = last]
  BY <1>0
<1>2. /\ h \in Asked /\ h.kind = "sync" /\ h.user = h.owner
      /\ task' = [task EXCEPT ![r] = Done]
      /\ UNCHANGED <<users, coll, rules, inventory>>
      /\ Serializable => \A d \in Device \cap h.keys : h.inv[d] = inventory[d]
  BY SyncRequest
<1>3. h.user \in User /\ h.keys \subseteq Key /\ h.inv \in [Device -> 0..MaxReport]
  BY <1>2 DEF Asked
<1>4. /\ new \in [missing -> made.row + 1..last]
      /\ \A k, l \in missing : new[k] = new[l] => k = l
  BY DEF Numberings
<1>5. last \in Nat /\ made.row <= last /\ last <= MaxRow
  BY RowsNow
<1> DEFINE chosen == {one[k].id : k \in DOMAIN one}
           known == chosen \cup {x.id : x \in {y \in h.seen : y.key \in Tag}}
           old == {x \in rows : x.id \notin known}
           kept == {y \in rows : y.id \in chosen /\ y.key \in h.keys}
           up(x) == Updated(x, h.inv)
           fresh(k) == NewRow(new[k], h.user, Personal, k, "server",
                                    Verified(k, h.inv))
<1>6. rows' = old \cup {up(x) : x \in kept} \cup {fresh(k) : k \in missing}
  BY <1>1, <1>4 DEF SyncedRows
<1>7. old \subseteq rows /\ kept \subseteq rows /\ \A x \in old, y \in kept : x.id # y.id
  OBVIOUS
<1>8. ASSUME NEW x \in kept
      PROVE  /\ up(x) \in BookRow /\ up(x).id = x.id /\ up(x).user = x.user
             /\ up(x).coll = x.coll /\ up(x).key = x.key
  BY <1>3, <1>7, UpdatedFits
<1>9. ASSUME NEW k \in missing
      PROVE  /\ fresh(k) \in BookRow /\ fresh(k).id = new[k] /\ fresh(k).coll = Personal
             /\ fresh(k).key = k /\ fresh(k).inv = Verified(k, h.inv)
             /\ new[k] \in Nat /\ new[k] > made.row /\ new[k] <= last
  <2>1. k \in h.keys /\ k \in Key
    BY <1>3
  <2>2. Verified(k, h.inv) \in 0..MaxReport
    BY <1>3, RowsNow DEF Verified
  <2>3. new[k] \in made.row + 1..last
    BY <1>4
  <2>4. new[k] \in Nat /\ new[k] > made.row /\ new[k] <= last /\ new[k] \in 1..MaxRow
    BY <1>5, <2>3, RowsNow
  <2>5. Personal \in Book
    BY DEF Book
  <2> HIDE DEF h, missing
  <2> QED
    BY <1>3, <2>1, <2>2, <2>4, <2>5 DEF NewRow, BookRow
<1>10. Serializable => \A x \in kept : up(x).key \in Device /\ up(x).source = "server" =>
                         up(x).inv = inventory[up(x).key]
  <2> SUFFICES ASSUME Serializable, NEW x \in kept, up(x).key \in Device, up(x).source = "server"
               PROVE  up(x).inv = inventory[up(x).key]
    OBVIOUS
  <2>1. x.key \in Device /\ x.key \in h.keys /\ up(x).key = x.key /\ x \in rows
    BY <1>8
  <2>2. Verified(x.key, h.inv) = inventory[x.key]
    BY <1>2, <2>1 DEF Verified
  <2>3. CASE Verified(x.key, h.inv) \in Blank
    BY <2>1, <2>3, RowsNow DEF Updated, InventoryNeverDriftsBack
  <2>4. CASE Verified(x.key, h.inv) \notin Blank
    <3>1. up(x) = [x EXCEPT !.inv = inventory[x.key], !.source = "server"]
      BY <2>2, <2>4 DEF Updated
    <3>2. x \in BookRow
      BY <2>1, RowsNow
    <3> HIDE DEF up
    <3> QED
      BY <2>1, <3>1, <3>2 DEF BookRow
  <2> QED
    BY <2>3, <2>4
<1>11. Serializable => \A k \in missing : fresh(k).key \in Device =>
                         fresh(k).inv = inventory[fresh(k).key]
  BY <1>2, <1>9 DEF Verified
<1> HIDE DEF h, missing, chosen, known, old, kept, up, fresh
<1>12. \A x \in rows : x.id \in Nat /\ x.id <= made.row
  BY RowsNow, RowTyped DEF IdsApart
<1>13. made' \in [row : 0..MaxRow, rule : 0..MaxRule] /\ made'.row = last
  BY <1>1, <1>5, RowsNow
<1>14. RowsFollow
  <2>1. rows' \subseteq BookRow
    BY <1>6, <1>7, <1>8, <1>9, RowsNow
  <2>2. ASSUME NEW x \in rows', x.id <= made.row
        PROVE  \E y \in rows : y.id = x.id /\ y.user = x.user
    <3>1. x \notin {fresh(k) : k \in missing}
      BY <1>9, <2>2, RowsNow
    <3> QED
      BY <1>6, <1>7, <1>8, <3>1
  <2> QED
    BY <1>5, <1>13, <2>1, <2>2 DEF RowsFollow
<1>15. IdsApart'
  <2>1. ASSUME NEW x \in rows' PROVE x.id <= made'.row
    <3>1. CASE x \in {fresh(k) : k \in missing}
      BY <1>9, <1>13, <3>1
    <3>2. CASE x \in old \/ x \in {up(y) : y \in kept}
      <4>1. PICK y \in rows : x.id = y.id
        BY <1>7, <1>8, <3>2
      <4> QED
        BY <1>5, <1>12, <1>13, <4>1, RowsNow
    <3> QED
      BY <1>6, <3>1, <3>2
  <2>2. ASSUME NEW x \in rows', NEW y \in rows', x.id = y.id PROVE x = y
    <3>1. ASSUME NEW k \in missing, NEW z \in old \cup {up(w) : w \in kept}
          PROVE  fresh(k).id # z.id
      <4>1. PICK w \in rows : z.id = w.id
        BY <1>7, <1>8
      <4> QED
        BY <1>9, <1>12, <4>1, RowsNow
    <3>2. CASE x \in {fresh(k) : k \in missing} \/ y \in {fresh(k) : k \in missing}
      BY <1>4, <1>6, <1>9, <2>2, <3>1, <3>2
    <3>3. CASE x \in old /\ y \in old
      BY <1>7, <2>2, <3>3, RowsNow DEF IdsApart
    <3>4. CASE x \in {up(z) : z \in kept} /\ y \in {up(z) : z \in kept}
      BY <1>7, <1>8, <2>2, <3>4, RowsNow DEF IdsApart
    <3>5. CASE (x \in old /\ y \in {up(z) : z \in kept}) \/ (y \in old /\ x \in {up(z) : z \in kept})
      BY <1>7, <1>8, <2>2, <3>5
    <3> QED
      BY <1>6, <3>2, <3>3, <3>4, <3>5
  <2> QED
    BY <2>1, <2>2 DEF IdsApart
<1>16. RowsBelong'
  <2>1. ASSUME NEW x \in rows', x.coll \in Coll PROVE coll'[x.coll] \in {x.user, Gone}
    <3>1. x \notin {fresh(k) : k \in missing}
      BY <1>9, <2>1, BooksAssumption
    <3>2. PICK y \in rows : y.coll = x.coll /\ y.user = x.user
      BY <1>6, <1>7, <1>8, <3>1
    <3> QED
      BY <1>2, <2>1, <3>2, RowsNow DEF RowsBelong
  <2> QED
    BY <2>1 DEF RowsBelong
<1>17. Serializable => InventoryNeverDriftsBack'
  <2> SUFFICES ASSUME Serializable, NEW x \in rows', x.key \in Device, x.source = "server"
               PROVE  x.inv = inventory'[x.key]
    BY DEF InventoryNeverDriftsBack
  <2>1. CASE x \in old
    BY <1>2, <1>7, <2>1, RowsNow DEF InventoryNeverDriftsBack
  <2>2. CASE x \in {up(z) : z \in kept}
    BY <1>2, <1>10, <2>2
  <2>3. CASE x \in {fresh(k) : k \in missing}
    BY <1>2, <1>11, <2>3
  <2> QED
    BY <1>6, <2>1, <2>2, <2>3
<1>18. RowsFit'
  BY <1>15, <1>16, <1>17 DEF RowsFit
<1> QED
  BY <1>2, <1>14, <1>18, RowsNow, WriteStep

\* What happens besides the requests.
LEMMA OutsideStep ==
  ASSUME BooksInv, Remember, UNCHANGED task, CollsFollow, RowsFollow, RowsFit',
         users' \subseteq users, rules' \subseteq rules,
         inventory' \in [Device -> 0..MaxReport]
  PROVE  BooksInv'
<1>1. /\ task' \in [Request -> Asked \cup {New, Done}]
      /\ users' \subseteq User /\ rules' \subseteq Rule
  BY DEF BooksInv, RequestsFit, BooksTyped
<1>2. SameBooks /\ \A r \in Request : Proceeds(r)
  BY DEF SameBooks, Proceeds
<1> QED
  BY <1>1, <1>2, BooksStep

LEMMA SameColls ==
  ASSUME BooksInv, coll' = coll
  PROVE  CollsFollow /\ \A x \in rows : x.coll \in Coll => coll'[x.coll] \in {coll[x.coll], Gone}
BY DEF BooksInv, BooksTyped, CollsFollow

LEMMA StoreSysinfoInv ==
  ASSUME BooksInv, Remember, NEW d \in Device, StoreSysinfo(d)
  PROVE  BooksInv'
<1> DEFINE n == inventory[d] + 1
           told(x) == IF x.key # d THEN x ELSE [x EXCEPT !.inv = n, !.source = "server"]
<1>1. /\ inventory[d] < MaxReport
      /\ inventory' = [inventory EXCEPT ![d] = n]
      /\ rows' = {told(x) : x \in rows}
      /\ UNCHANGED <<users, coll, rules, made, task>>
  BY DEF StoreSysinfo
<1>2. n \in 0..MaxReport
  <2>1. inventory[d] \in 0..MaxReport /\ MaxReport \in Nat
    BY RowsNow
  <2>2. inventory[d] < MaxReport
    BY <1>1
  <2>3. ASSUME NEW i \in 0..MaxReport, MaxReport \in Nat, i < MaxReport
        PROVE  i + 1 \in 0..MaxReport
    BY <2>3
  <2> QED
    BY <2>1, <2>2, <2>3
<1>3. inventory' \in [Device -> 0..MaxReport]
  BY <1>1, <1>2, RowsNow
<1>4. \A e \in Device : inventory'[e] = IF e = d THEN n ELSE inventory[e]
  BY <1>1, RowsNow
<1> HIDE DEF n
<1>5. ASSUME NEW x \in rows
      PROVE  /\ told(x) \in BookRow /\ told(x).id = x.id /\ told(x).user = x.user
             /\ told(x).coll = x.coll /\ told(x).key = x.key
             /\ IF x.key = d THEN told(x).inv = n ELSE told(x) = x
  <2>1. x \in BookRow
    BY RowsNow
  <2> QED
    BY <1>2, <2>1 DEF BookRow
<1> HIDE DEF told
<1>6. RowsFollow /\ IdsApart'
  <2>1. rows' \subseteq BookRow
    BY <1>1, <1>5
  <2>2. \A x \in rows' : \E y \in rows : y.id = x.id /\ y.user = x.user
    BY <1>1, <1>5
  <2>3. \A x, y \in rows' : x.id = y.id => x = y
    BY <1>1, <1>5, RowsNow DEF IdsApart
  <2> QED
    BY <1>1, <2>1, <2>2, <2>3, RowsNow, RowsRewritten
<1>7. RowsBelong'
  BY <1>1, <1>5, RowsNow DEF RowsBelong
<1>8. Serializable => InventoryNeverDriftsBack'
  BY <1>1, <1>4, <1>5, RowsNow DEF InventoryNeverDriftsBack
<1>9. RowsFit'
  BY <1>6, <1>7, <1>8 DEF RowsFit
<1> QED
  BY <1>1, <1>3, <1>6, <1>9, SameColls, OutsideStep

LEMMA CollectionInv ==
  ASSUME BooksInv, Remember, NEW c \in Coll,
         DeleteCollection(c) \/ \E u \in User : CreateCollection(u, c)
  PROVE  BooksInv'
<1>1. coll \in [Coll -> User \cup {Unused, Gone}] /\ users \subseteq User
  BY DEF BooksInv, BooksTyped
<1>2. CASE DeleteCollection(c)
  <2>1. /\ coll' = [coll EXCEPT ![c] = Gone]
        /\ rules' \subseteq rules /\ rows' \subseteq rows
        /\ UNCHANGED <<users, made, inventory, task>>
    BY <1>2 DEF DeleteCollection
  <2>2. CollsFollow
    BY <1>1, <2>1 DEF CollsFollow
  <2>3. \A x \in rows' : x.coll \in Coll => coll'[x.coll] \in {coll[x.coll], Gone}
    BY <1>1, <2>1
  <2>4. RowsFollow /\ RowsFit'
    BY <2>1, <2>3, RowsFewer
  <2> QED
    BY <2>1, <2>2, <2>4, RowsNow, OutsideStep
<1>3. ASSUME NEW u \in User, CreateCollection(u, c) PROVE BooksInv'
  <2>1. /\ coll[c] = Unused /\ coll' = [coll EXCEPT ![c] = u]
        /\ UNCHANGED <<users, rules, rows, made, inventory, task>>
    BY <1>3 DEF CreateCollection
  <2>2. CollsFollow
    BY <1>1, <2>1 DEF CollsFollow
  <2>3. \A x \in rows' : x.coll \in Coll => coll'[x.coll] \in {coll[x.coll], Gone}
    <3>1. ASSUME NEW x \in rows, x.coll = c PROVE FALSE
      <4>1. coll[c] \in {x.user, Gone} /\ x.user \in User
        BY <3>1, RowsNow, RowTyped DEF RowsBelong
      <4> QED
        BY <2>1, <4>1, BooksAssumption
    <3> QED
      BY <1>1, <2>1, <3>1
  <2>4. RowsFollow /\ RowsFit'
    BY <2>1, <2>3, RowsFewer
  <2> QED
    BY <2>1, <2>2, <2>4, RowsNow, OutsideStep
<1> QED
  BY <1>2, <1>3

LEMMA DeletedInv ==
  ASSUME BooksInv, Remember,
         \/ \E x \in rows : DeleteRow(x)
         \/ \E x \in rules : DeleteRule(x)
         \/ \E u \in User : DeleteUser(u)
  PROVE  BooksInv'
<1>1. coll \in [Coll -> User \cup {Unused, Gone}]
  BY DEF BooksInv, BooksTyped
<1>2. /\ users' \subseteq users /\ rules' \subseteq rules /\ rows' \subseteq rows
      /\ UNCHANGED <<made, inventory, task>>
  BY DEF DeleteRow, DeleteRule, DeleteUser
<1>3. coll' = coll \/ \E u \in User : coll' = [c \in Coll |-> IF coll[c] = u THEN Gone ELSE coll[c]]
  BY DEF DeleteRow, DeleteRule, DeleteUser
<1>4. /\ coll' \in [Coll -> User \cup {Unused, Gone}]
      /\ \A c \in Coll : coll'[c] \in {coll[c], Gone}
  BY <1>1, <1>3
<1>5. CollsFollow
  BY <1>4 DEF CollsFollow
<1>6. RowsFollow /\ RowsFit'
  BY <1>2, <1>4, RowsFewer
<1> QED
  BY <1>2, <1>5, <1>6, RowsNow, OutsideStep

LEMMA StepInv ==
  ASSUME BooksInv, BooksNext
  PROVE  BooksInv'
<1>1. Remember
  BY DEF BooksNext
<1>2. ASSUME NEW r \in Request, Handle(r) PROVE BooksInv'
  <2>1. CASE Call(r)
    BY <1>1, <2>1, CallInv
  <2>2. CASE ConsoleCall(r) \/ SyncCall(r)
    BY <1>1, <2>2, ConsoleCallInv
  <2>3. CASE Check(r)
    BY <1>1, <2>3, CheckGuidInv, CheckRuleInv, CheckOwnerInv, FindNoneInv, FindRowInv, CheckFormInv
       DEF Check
  <2>4. CASE Act(r)
    BY <1>1, <2>4, EndInv, AddInv, ChangeInv, DeleteInv, CreateRuleInv, UpdateRuleInv,
       SyncReadInv, SyncCommitInv DEF Act
  <2> QED
    BY <1>2, <2>1, <2>2, <2>3, <2>4 DEF Handle
<1>3. CASE Happen
  BY <1>1, <1>3, StoreSysinfoInv, CollectionInv, DeletedInv DEF Happen
<1> QED
  BY <1>2, <1>3 DEF BooksNext

LEMMA StutterInv ==
  ASSUME BooksInv, UNCHANGED books
  PROVE  BooksInv'
<1>1. UNCHANGED <<users, coll, rules, rows, made, inventory, task, lived, reach>>
  BY DEF books
<1>2. BooksTyped' /\ IdsApart' /\ LivedFits' /\ RowsBelong'
  BY <1>1 DEF BooksInv, BooksTyped, IdsApart, LivedFits,
              RowsBelong, Busy
<1>3. RequestsFit'
  BY <1>1 DEF BooksInv, RequestsFit, AskFits, SeenFits, Busy
<1>4. (\A r \in Request : Passed(r)') /\ (Serializable => InventoryNeverDriftsBack')
  BY <1>1 DEF BooksInv, Passed, Needed, InventoryNeverDriftsBack
<1> QED
  BY <1>2, <1>3, <1>4 DEF BooksInv

LEMMA BooksStart ==
  ASSUME BooksInit
  PROVE  BooksInv
<1>1. PICK s \in Stored : /\ coll = s.coll /\ rules = s.rules /\ rows = s.rows
                          /\ made = [row |-> Cardinality(s.rows),
                                     rule |-> Cardinality(s.rules)]
  BY DEF BooksInit
<1>2. /\ users = User
      /\ inventory = [d \in Device |-> 0]
      /\ task = [r \in Request |-> New]
      /\ lived = [r \in Request |-> FALSE] /\ reach = [r \in Request |-> 0]
  BY DEF BooksInit
<1>3. /\ coll \in [Coll -> User \cup {Unused, Gone}]
      /\ rules \subseteq Rule /\ rows \subseteq BookRow
      /\ made \in [row : 0..MaxRow, rule : 0..MaxRule]
      /\ \A x \in rows :
           /\ x.id <= made.row
           /\ \A y \in rows : x.id = y.id => x = y
           /\ x.coll \in Coll => coll[x.coll] \in {x.user, Gone}
           /\ x.inv = 0
  BY <1>1, StoredAssumption
<1>4. MaxReport \in Nat
  BY BooksAssumption
<1>5. BooksTyped
  BY <1>2, <1>3, <1>4 DEF BooksTyped
<1>6. \A r \in Request : task[r].pc = "new" /\ ~lived[r]
  BY <1>2 DEF New
<1>7. RequestsFit /\ LivedFits /\ \A r \in Request : Passed(r)
  BY <1>2, <1>6 DEF RequestsFit, LivedFits, Passed, Busy
<1>8. IdsApart /\ RowsBelong /\ InventoryNeverDriftsBack
  BY <1>2, <1>3 DEF IdsApart, RowsBelong, InventoryNeverDriftsBack
<1> QED
  BY <1>5, <1>7, <1>8 DEF BooksInv

\* What the handlers rely on from one statement to the next, and the ids and
\* collections of rows, in every interleaving of requests, reports and deletions.
THEOREM BooksInvariant == BooksSpec => []BooksInv
<1>1. BooksInv /\ [BooksNext]_books => BooksInv'
  BY StepInv, StutterInv
<1> QED
  BY <1>1, BooksStart, PTL DEF BooksSpec

\* Whoever lists, adds, changes or deletes in a book was, since the request came in,
\* entitled to it, and the book was the guid's user's (CheckGuid and what follows it).
THEOREM ActsArePermitted == BooksSpec => []ActsWerePermitted
<1>1. BooksInv => ActsWerePermitted
  BY ActsInOwn DEF ActsWerePermitted
<1> QED
  BY <1>1, BooksInvariant, PTL

\* A row is in a collection of its own user's, or in one that has been deleted.
THEOREM RowsAlwaysBelong == BooksSpec => []RowsBelong
<1>1. BooksInv => RowsBelong
  BY DEF BooksInv, RowsBelong
<1> QED
  BY <1>1, BooksInvariant, PTL

\* If transactions fail when what they read has changed, an entry that a sync or a
\* report wrote last has the device's latest verified inventory.
THEOREM NoInventoryDriftsBack ==
  ASSUME Serializable
  PROVE  BooksSpec => []InventoryNeverDriftsBack
<1>1. BooksInv => InventoryNeverDriftsBack
  BY DEF BooksInv, InventoryNeverDriftsBack
<1> QED
  BY <1>1, BooksInvariant, PTL

\* A request that comes in was not known before.
LEMMA CallsAreNew ==
  ASSUME NEW q \in Request, Call(q) \/ ConsoleCall(q) \/ SyncCall(q)
  PROVE  task[q] = New /\ \E f : task' = [task EXCEPT ![q] = f]
<1>1. ASSUME NEW f, Begin(q, f)
      PROVE  task[q] = New /\ \E g : task' = [task EXCEPT ![q] = g]
  BY <1>1 DEF Begin
<1>2. CASE Call(q)
  BY <1>1, <1>2 DEF Call
<1>3. CASE ConsoleCall(q)
  BY <1>1, <1>3 DEF ConsoleCall
<1>4. CASE SyncCall(q)
  BY <1>1, <1>4 DEF SyncCall
<1> QED
  BY <1>2, <1>3, <1>4

\* Only the synchronisation itself ends one and changes rows.
LEMMA ReplacedBySync ==
  ASSUME BooksInv, BooksNext, NEW r \in Request, Replaces(r)
  PROVE  SyncCommit(r)
<1>1. task[r].pc = "write" /\ rows' # rows /\ task'[r] = Done
  BY DEF Replaces
<1>2. task'[r] # task[r]
  BY <1>1 DEF Done
<1>3. task \in [Request -> Asked \cup {New, Done}]
  BY DEF BooksInv, RequestsFit
<1>4. ~Happen
  BY <1>2 DEF Happen, StoreSysinfo, CreateCollection, DeleteCollection,
              DeleteRow, DeleteRule, DeleteUser
<1>5. PICK q \in Request : Handle(q)
  BY <1>4 DEF BooksNext
<1>6. q = r
  <2>1. CASE q # r
    <3>1. task'[r] = task[r]
      <4>1. CASE Call(q) \/ ConsoleCall(q) \/ SyncCall(q)
        BY <1>3, <2>1, <4>1, CallsAreNew
      <4>2. CASE Check(q)
        BY <1>3, <2>1, <4>2 DEF Check, CheckGuid, CheckRule, CheckOwner,
             FindNone, FindRow, CheckForm, SetPc
      <4>3. CASE Act(q)
        BY <1>3, <2>1, <4>3 DEF Act, List, Add, Change, Delete,
             CreateRule, UpdateRule, SyncRead, SyncCommit, GiveUp,
             End
      <4> QED
        BY <1>5, <4>1, <4>2, <4>3 DEF Handle
    <3> QED
      BY <1>2, <3>1
  <2> QED
    BY <2>1
<1>7. ~(Call(r) \/ ConsoleCall(r) \/ SyncCall(r))
  BY <1>1, CallsAreNew DEF New
<1>8. ~Check(r)
  BY <1>1 DEF Check, CheckGuid, CheckRule, CheckOwner,
       FindNone, FindRow, CheckForm
<1>9. CASE Act(r)
  BY <1>1, <1>9 DEF Act, List, Add, Change, Delete,
       CreateRule, UpdateRule, SyncRead, GiveUp
<1> QED
  BY <1>5, <1>6, <1>7, <1>8, <1>9 DEF Handle

LEMMA SyncKeepsToBook ==
  ASSUME BooksInv, Serializable, NEW r \in Request, SyncCommit(r)
  PROVE  /\ task[r].keys \subseteq BookAfter(r)
         /\ \A x \in rows \ rows' : x.user = task[r].user /\ x.coll = Personal
<1> DEFINE h == task[r]
           present == {x.key : x \in h.seen}
           missing == h.keys \ present
<1>0. PICK last \in made.row..MaxRow :
        \E one \in Choices(h), new \in Numberings(missing, last) :
          rows' = SyncedRows(h, one, new)
  BY SyncEffects
<1>1. PICK one \in Choices(h), new \in Numberings(missing, last) :
        rows' = SyncedRows(h, one, new)
  BY <1>0
<1>2. /\ h \in Asked
      /\ h.seen = {x \in rows : x.user = h.user /\ x.coll = Personal}
  BY SyncRequest DEF PersonalRows, In
<1>3. /\ one \in [present -> h.seen] /\ \A k \in present : one[k].key = k
      /\ new \in [missing -> made.row + 1..last]
  BY DEF Choices, Numberings
<1> DEFINE chosen == {one[k].id : k \in DOMAIN one}
           known == chosen \cup {x.id : x \in {y \in h.seen : y.key \in Tag}}
           old == {x \in rows : x.id \notin known}
           kept == {y \in rows : y.id \in chosen /\ y.key \in h.keys}
           up(x) == Updated(x, h.inv)
           fresh(k) == NewRow(new[k], h.user, Personal, k, "server",
                                    Verified(k, h.inv))
<1>4. rows' = old \cup {up(x) : x \in kept} \cup {fresh(k) : k \in missing}
  BY <1>1, <1>3 DEF SyncedRows
<1>5. ASSUME NEW k \in h.keys PROVE k \in BookAfter(r)
  <2>1. CASE k \in present
    <3>1. one[k] \in h.seen /\ one[k].key = k /\ one[k] \in rows /\ one[k].id \in chosen
      BY <1>2, <1>3, <2>1
    <3>2. one[k] \in kept /\ one[k].user = h.user /\ one[k].coll = Personal
      BY <1>2, <1>5, <3>1
    <3>3. h.inv \in [Device -> 0..MaxReport]
      BY <1>2 DEF Asked
    <3>4. up(one[k]) \in rows' /\ up(one[k]).user = h.user /\ up(one[k]).coll = Personal
          /\ up(one[k]).key = k
      BY <1>4, <3>1, <3>2, <3>3, UpdatedFits
    <3> HIDE DEF up
    <3> QED
      BY <3>4 DEF BookAfter
  <2>2. CASE k \notin present
    <3>1. fresh(k) \in rows'
      BY <1>4, <1>5, <2>2
    <3>2. fresh(k).user = h.user /\ fresh(k).coll = Personal /\ fresh(k).key = k
      BY DEF NewRow
    <3> HIDE DEF fresh
    <3> QED
      BY <3>1, <3>2 DEF BookAfter
  <2> QED
    BY <2>1, <2>2
<1>6. ASSUME NEW x \in rows \ rows' PROVE x.user = h.user /\ x.coll = Personal
  <2>1. x.id \in known
    BY <1>4, <1>6
  <2>2. PICK y \in h.seen : y.id = x.id
    BY <1>3, <2>1
  <2>3. y \in rows /\ y.user = h.user /\ y.coll = Personal
    BY <1>2
  <2>4. x = y
    BY <2>2, <2>3, RowsNow DEF IdsApart
  <2> QED
    BY <2>3, <2>4
<1> QED
  BY <1>5, <1>6

\* If they do, replacing the personal book adds all that the client sent, and touches
\* no row of a collection or of another user.
THEOREM SyncIsConfined ==
  ASSUME Serializable
  PROVE  BooksSpec => SyncConfined
<1> DEFINE Confined == \A r \in Request : Replaces(r) =>
                         /\ task[r].keys \subseteq BookAfter(r)
                         /\ \A x \in rows \ rows' : x.user = task[r].user /\ x.coll = Personal
<1>1. BooksInv /\ [BooksNext]_books => [Confined]_books
  <2>1. ASSUME BooksInv, BooksNext, NEW r \in Request, Replaces(r)
        PROVE  /\ task[r].keys \subseteq BookAfter(r)
               /\ \A x \in rows \ rows' : x.user = task[r].user /\ x.coll = Personal
    BY <2>1, ReplacedBySync, SyncKeepsToBook
  <2> QED
    BY <2>1
<1>2. BooksSpec => [][Confined]_books
  BY <1>1, BooksInvariant, PTL DEF BooksSpec
<1> QED
  BY <1>2 DEF SyncConfined
=============================================================================
