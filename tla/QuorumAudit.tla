---------------------------- MODULE QuorumAudit -----------------------------
(***************************************************************************)
(* The decision record of the crate quorum-audit and the consistency rule  *)
(* HashChain::append enforces on it.  A record is                          *)
(*   [agent, principal, grant, class, verdict, hic, ref]                   *)
(* where `ref' is the correlation id.  The parameter hash, the model id    *)
(* and the timestamp are left out: no property here tells them apart.      *)
(***************************************************************************)
CONSTANT None      \* "no principal", "no grant"

Verdicts == {"allow", "deny", "require-approval", "ungoverned",
             "approved", "rejected"}

HicLevels == {"approve_each", "budgeted", "post_hoc", "ungoverned"}

IsConsistent(r) ==
  CASE r.verdict = "ungoverned" ->
         r.principal = None /\ r.grant = None /\ r.hic = "ungoverned"
    [] r.verdict = "rejected"   -> TRUE
    [] r.verdict = "approved"   -> r.principal # None
    [] OTHER                    -> r.principal # None /\ r.grant # None
=============================================================================
