------------------------ MODULE MCGovernedActions ---------------------------
(***************************************************************************)
(* Instances of GovernedActions for TLC: one agent and one human (plus a   *)
(* nameless one), two grants, and the requests that reach every verdict.   *)
(***************************************************************************)
EXTENDS GovernedActions

MCAgents == {"bot"}
MCHumans == {"ana"}
MCClasses == {"repo.write", "key.use"}
MCGrantIds == {"g1", "g2"}
MCModels == {"", "local"}
MCGrant(id, budget, expires, hic) ==
  [id |-> id, agent |-> "bot", principal |-> "ana", classes |-> MCClasses,
   ceiling |-> 2, budget |-> budget, consumed |-> 0, expires |-> expires,
   hic |-> hic, revoked |-> FALSE]

\* g1 runs out after two units and expires first; g2 takes over from it.
MCNewGrants == { MCGrant("g1", 2, 1, "budgeted"), MCGrant("g2", 3, 2, "budgeted") }
OneGrant    == { MCGrant("g1", 2, 2, "budgeted") }

MCRequest(class, label, cost, model) ==
  [agent |-> "bot", class |-> class, label |-> label, cost |-> cost,
   threshold |-> 0, flag |-> FALSE, model |-> model]

Write    == MCRequest("repo.write", "Public", 0, "")
WriteBig == [MCRequest("repo.write", "Public", 2, "") EXCEPT !.threshold = 1]
UseKey   == MCRequest("key.use", "Public", 1, "")
ControlledWrite == MCRequest("repo.write", "CUI", 1, "")

MCRequests   == { Write, WriteBig, ControlledWrite }
FaultRequests == { Write, UseKey }

MCInstants == {0, 1}
AnyInstant == {0}
MCL1Classes == {"key.use"}
MCControlled == {"CUI", "ITAR"}
MCAllow == [l \in {"CUI"} |-> {"local"}]
=============================================================================
