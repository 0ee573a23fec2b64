--------------------------- MODULE AccountsHistory ---------------------------
(* Accounts with history: which sessions have been invalidated, so that the *)
(* promise "AuthVersion invalidates every previously issued token when      *)
(* incremented" (model/user.go) can be stated about the requests that begin *)
(* after the invalidation, whatever was under way when it happened.         *)
EXTENDS Accounts

VARIABLES
  killed,   \* tokens revoked, expired, or issued before a bump or deletion
  stale,    \* logins whose copy of the user predates a bump or deletion
  late      \* requests that began with a token already killed

hvars == <<user, token, op, invariantLock, killed, stale, late>>

HInit == Init /\ killed = {} /\ stale = {} /\ late = {}

\* Users whose sessions this step invalidates.
Invalidated == {u \in User : \/ user'[u].version > user[u].version
                             \/ Present(u) /\ user'[u].state = "deleted"}

\* Tokens this step stores from a copy that was already out of date.
StoredStale == {k \in Token :
  /\ token[k].state = "free" /\ token'[k].state = "live"
  /\ \E p \in stale : op[p].pc = "issue" /\ op'[p].pc = "idle"}

Record ==
  /\ killed' = killed \cup StoredStale
                 \cup {k \in Token : token[k].state = "live" /\
                         \/ token'[k].state # "live"
                         \/ token[k].user \in Invalidated}
  /\ stale' = {p \in Proc : /\ op'[p].kind \in {"login", "sync"}
                            /\ p \in stale \/ op[p].user \in Invalidated}
  /\ late' = {p \in Proc : /\ op'[p].kind = "request"
                           /\ \/ p \in late
                              \/ op[p].pc = "idle" /\ op'[p].token \in killed}

HNext == Next /\ Record

HSpec == HInit /\ [][HNext]_hvars

-----------------------------------------------------------------------------
\* A request that begins after its token was invalidated (logout, revocation,
\* expiry, global logout, password or two-factor change, role change, disabling
\* or deletion of the user) is not served, even if the token was stored only
\* after the invalidation by a login that had begun before it.
KilledNeverAccepted == \A p \in late : op[p].pc # "accepted"

\* The same for the accounts no directory sync writes to.
KilledNeverAcceptedLocally ==
  \A p \in late : op[p].user \notin LdapUser => op[p].pc # "accepted"

(* The inductive invariant behind it: a version that a local account once   *)
(* left behind is never current again.                                      *)
Behind(u, version) ==
  \/ u \in LdapUser
  \/ user[u].state = "deleted"
  \/ version < user[u].version

CopiesNotAhead ==
  /\ \A p \in Proc : op[p].kind \in {"login", "sync"} =>
       /\ op[p].user \in User /\ user[op[p].user].state # "absent"
       /\ \/ op[p].user \in LdapUser
          \/ user[op[p].user].state = "deleted"
          \/ op[p].version <= user[op[p].user].version
  /\ \A p \in Proc : op[p].kind = "request" =>
       op[p].user \in User /\ user[op[p].user].state # "absent"
  /\ \A k \in Token : token[k].state = "live" =>
       /\ token[k].user \in User /\ user[token[k].user].state # "absent"
       /\ \/ token[k].user \in LdapUser
          \/ user[token[k].user].state = "deleted"
          \/ token[k].version <= user[token[k].user].version

OpShape ==
  \A p \in Proc :
    /\ op[p].pc = "idle" => op[p].kind = "none"
    /\ op[p].pc = "issue" => op[p].kind = "login"
    /\ op[p].pc \in {"checked", "accepted"} => op[p].kind = "request"

FormsCarryNoVersion == \A p \in Proc : op[p].kind = "update" => op[p].version = 0

SyncsAreLdap == \A p \in Proc : op[p].kind = "sync" => op[p].user \in LdapUser

KilledIsDead ==
  \A k \in killed : \/ token[k].state = "revoked"
                     \/ /\ token[k].state = "live"
                        /\ Behind(token[k].user, token[k].version)

StaleIsBehind ==
  \A p \in stale : /\ op[p].kind \in {"login", "sync"}
                   /\ Behind(op[p].user, op[p].version)

LateIsBehind ==
  \A p \in late : /\ op[p].kind = "request"
                  /\ Behind(op[p].user, op[p].version)
                  /\ op[p].user \notin LdapUser => op[p].pc = "checked"

SessionInv ==
  /\ CopiesNotAhead /\ OpShape /\ FormsCarryNoVersion /\ SyncsAreLdap
  /\ killed \subseteq Token /\ KilledIsDead
  /\ stale \subseteq Proc /\ StaleIsBehind
  /\ late \subseteq Proc /\ LateIsBehind
=============================================================================
