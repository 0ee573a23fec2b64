---------------------------- MODULE ManagedTable ----------------------------
(* The table of managed providers a server loads from the registry          *)
(* (refreshManagedInstances, provider and SetManagedWriteEnabled in         *)
(* service/starryControl.go and service/starryPairing.go).                  *)
(*                                                                          *)
(* Handlers refresh before they look an instance up, and after they changed *)
(* the registry.  A refresh reads the generation, then the rows, writes a   *)
(* static export of each, and installs the rows unless the table has that   *)
(* generation already; only the installation holds the table's mutex.       *)
(* Other servers and command-line processes change the registry too.        *)
EXTENDS ManagedRegistry

CONSTANT Proc                 \* the handlers of one server

VARIABLES
  table, tableGeneration,     \* instances and providers, and registryGen
  op,                         \* what each handler is doing
  exported                    \* history: the identities exported for each name

server == <<table, tableGeneration>>

vars == <<registry, server, op, exported>>

\* "completed" is a claim whose export is still to be written.
OpPC == {"idle", "completed", "generation", "rows", "exports", "done"}

Op == [pc : OpPC, managed : Managed \cup {None}, identity : Enrollment \cup {None},
       generation : 0..MaxGeneration, rows : Table, todo : SUBSET Managed]

Idle == [pc |-> "idle", managed |-> None, identity |-> None,
         generation |-> 0, rows |-> EmptyTable, todo |-> {}]

Init ==
  /\ RegistryInit
  /\ table = EmptyTable /\ tableGeneration = 0
  /\ op = [p \in Proc |-> Idle]
  /\ exported = [m \in Managed |-> {}]

-----------------------------------------------------------------------------
(* Handlers                                                                 *)

StartClaimTail(p, m, e) ==
  op' = [op EXCEPT ![p] = [Idle EXCEPT !.pc = "completed", !.managed = m,
                           !.identity = e]]

\* CompleteControlClaim, for the first time or after a lost answer.
CompleteClaim(p, m, i, e) ==
  /\ op[p].pc = "idle"
  /\ Manage(m, i, e)
  /\ StartClaimTail(p, m, e)
  /\ UNCHANGED <<server, exported>>

RecoverClaim(p, m) ==
  /\ op[p].pc = "idle"
  /\ managed[m] # None
  /\ StartClaimTail(p, m, managed[m].identity)
  /\ UNCHANGED <<registry, server, exported>>

\* WriteStaticExport, of the identity the completion returned.
WriteStaticExport(p) ==
  /\ op[p].pc = "completed"
  /\ exported' = [exported EXCEPT ![op[p].managed] = @ \cup {op[p].identity}]
  /\ op' = [op EXCEPT ![p] = [Idle EXCEPT !.pc = "generation",
                                          !.managed = op[p].managed]]
  /\ UNCHANGED <<registry, server>>

BeginRefresh(p, m) ==
  op' = [op EXCEPT ![p] = [Idle EXCEPT !.pc = "generation", !.managed = m]]

\* Status, plans and operations look their instance up.
BeginLookup(p, m) ==
  /\ op[p].pc = "idle"
  /\ BeginRefresh(p, m)
  /\ UNCHANGED <<registry, server, exported>>

SetManagedWriteEnabled(p, m, writeEnabled) ==
  /\ op[p].pc = "idle"
  /\ SetManagedReadOnly(m, ~writeEnabled)
  /\ BeginRefresh(p, m)
  /\ UNCHANGED <<server, exported>>

ReadGeneration(p) ==
  /\ op[p].pc = "generation"
  /\ op' = [op EXCEPT ![p].pc = "rows", ![p].generation = generation]
  /\ UNCHANGED <<registry, server, exported>>

ReadRows(p) ==
  /\ op[p].pc = "rows"
  /\ op' = [op EXCEPT ![p].pc = "exports", ![p].rows = managed,
                      ![p].todo = {m \in Managed : managed[m] # None}]
  /\ UNCHANGED <<registry, server, exported>>

ExportRow(p, m) ==
  /\ op[p].pc = "exports"
  /\ m \in op[p].todo
  /\ exported' = [exported EXCEPT ![m] = @ \cup {op[p].rows[m].identity}]
  /\ op' = [op EXCEPT ![p].todo = @ \ {m}]
  /\ UNCHANGED <<registry, server>>

\* Mutant: the exports are written behind the table's back.
ExportsLater(p) == TRUE

ExportsWritten(p) == op[p].todo = {}

\* Mutant: the rows are labelled with the generation at their installation.
LabelNow(p) == generation

Label(p) == op[p].generation

\* Rows of another generation replace the table, older ones too.
InstallRows(p) ==
  /\ op[p].pc = "exports"
  /\ ExportsWritten(p)
  /\ IF Label(p) = tableGeneration THEN UNCHANGED server
     ELSE table' = op[p].rows /\ tableGeneration' = Label(p)
  /\ op' = [op EXCEPT ![p].pc = "done", ![p].rows = EmptyTable, ![p].todo = {}]
  /\ UNCHANGED <<registry, exported>>

\* What the table says of the instance is what the caller gets.
UseTable(p) ==
  /\ op[p].pc = "done"
  /\ op' = [op EXCEPT ![p] = Idle]
  /\ UNCHANGED <<registry, server, exported>>

\* An error, or a cancelled request.
Fail(p) ==
  /\ op[p].pc # "idle"
  /\ op' = [op EXCEPT ![p] = Idle]
  /\ UNCHANGED <<registry, server, exported>>

Restart ==
  /\ table' = EmptyTable /\ tableGeneration' = 0
  /\ op' = [p \in Proc |-> Idle]
  /\ UNCHANGED <<registry, exported>>

\* Another server or a command changes the registry.
ChangeElsewhere ==
  /\ RegistryNext
  /\ UNCHANGED <<server, op, exported>>

-----------------------------------------------------------------------------
ClaimStep(p) ==
  \/ \E m \in Managed :
       \/ \E i \in Instance, e \in Enrollment : CompleteClaim(p, m, i, e)
       \/ RecoverClaim(p, m)
  \/ WriteStaticExport(p)

LookupStep(p) ==
  \E m \in Managed :
    \/ BeginLookup(p, m)
    \/ \E writeEnabled \in BOOLEAN : SetManagedWriteEnabled(p, m, writeEnabled)

RefreshStep(p) ==
  \/ ReadGeneration(p) \/ ReadRows(p)
  \/ \E m \in Managed : ExportRow(p, m)
  \/ InstallRows(p)
  \/ UseTable(p)

Next ==
  \/ \E p \in Proc : ClaimStep(p) \/ LookupStep(p) \/ RefreshStep(p) \/ Fail(p)
  \/ ChangeElsewhere
  \/ Restart

Spec == Init /\ [][Next]_vars

-----------------------------------------------------------------------------
TypeOK ==
  /\ managed \in Table /\ claimed \subseteq Enrollment
  /\ generation \in 1..MaxGeneration
  /\ table \in Table /\ tableGeneration \in 0..MaxGeneration
  /\ op \in [Proc -> Op]
  /\ \A p \in Proc : op[p].pc = "completed" => op[p].identity # None
  /\ exported \in [Managed -> SUBSET Enrollment]

\* "the provider is hot-loaded only after the registry transaction and static
\* export succeed" (docs/wiki/Starry-Control.md:126), whichever handler loads
\* it, and although another process may have completed the claim.
LoadedAfterExport ==
  \A m \in Managed : table[m] # None => table[m].identity \in exported[m]

\* A table with the registry's generation has the registry's rows: whatever
\* older rows a slow refresh installed, the next refresh replaces them.
TableHonest == tableGeneration = generation => table = managed

\* Not so: "First pairing and every rotation are read-only"
\* (docs/wiki/Starry-Control.md:126).  A lookup that read the registry's present
\* generation does not give a read-only instance out for a write.
ReadOnlyRespected ==
  \A p \in Proc :
    LET m == op[p].managed IN
    op[p].pc = "done" /\ op[p].generation = generation /\ managed[m] # None
      /\ managed[m].readOnly /\ table[m] # None
    => table[m].readOnly

-----------------------------------------------------------------------------
(* The invariant the proofs rest on.                                        *)

\* What a handler read is older than the registry, or is what it holds.
ReadsHonest ==
  \A p \in Proc :
    /\ op[p].generation <= generation
    /\ op[p].pc = "exports" /\ op[p].generation = generation => op[p].rows = managed

ExportsKept ==
  \A p \in Proc, m \in Managed :
    IF m \in op[p].todo THEN op[p].rows[m] # None
    ELSE op[p].rows[m] = None \/ op[p].rows[m].identity \in exported[m]

\* What handlers and the table hold is older than the registry's generation or
\* agrees with it, and was exported up to what is still to do.
TableInv ==
  /\ TypeOK
  /\ tableGeneration <= generation
  /\ ReadsHonest
  /\ ExportsKept
  /\ TableHonest
  /\ LoadedAfterExport
=============================================================================
