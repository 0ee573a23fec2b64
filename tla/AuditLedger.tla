----------------------------- MODULE AuditLedger -----------------------------
(* What the audit rows of administrative operations promise their readers   *)
(* (docs/security/SECURITY-MODEL.md): a row is written as an intent before   *)
(* the operation has an effect, it leaves that state once, and a result is   *)
(* never changed again; between the two it may be "pending" only for an      *)
(* operation that goes on after its request.                                *)
CONSTANT Request

VARIABLES
  result,                     \* admin_audit_events.result, "none" without a row
  effective                   \* the requests whose operation took effect

ledger == <<result, effective>>

Final == {"success", "failure"}

Result == {"none", "intent", "pending"} \cup Final

LedgerInit ==
  /\ result = [r \in Request |-> "none"]
  /\ effective = {}

\* What one request may do to its row, or a later one on its behalf.
MayBecome(old, new) ==
  \/ new = old
  \/ old = "none" /\ new = "intent"
  \/ old = "intent" /\ new \in {"pending"} \cup Final
  \/ old = "pending" /\ new \in Final

\* A transaction may conclude several rows: those of one operation.
Record ==
  /\ result' \in [Request -> Result]
  /\ \A r \in Request : MayBecome(result[r], result'[r])
  /\ UNCHANGED effective

TakeEffect(r) ==
  /\ result[r] = "intent"
  /\ effective' = effective \cup {r}
  /\ UNCHANGED result

LedgerNext == Record \/ \E r \in Request : TakeEffect(r)

LedgerSpec == LedgerInit /\ [][LedgerNext]_ledger
=============================================================================
