---------------------------- MODULE MCFranchise -----------------------------
(***************************************************************************)
(* Instances of Franchise for TLC: two allowances of one principal and one *)
(* agent, the first big enough for two votes but not for three, the second *)
(* for one; either may be issued twice.                                    *)
(***************************************************************************)
EXTENDS Franchise

MCAllowanceIds == {"v1", "v2"}
MCPrincipals == {"ana"}
MCAgents == {"bot"}
MCClasses == {"budget", "charter"}
MCNew(id, cap, expires) ==
  [id |-> id, principal |-> "ana", agent |-> "bot", classes |-> {"budget"},
   cap |-> cap, expires |-> expires]
MCNewAllowances == { MCNew("v1", 5, 1), MCNew("v2", 2, 2),
                     [MCNew("v2", 2, 2) EXCEPT !.principal = Blank] }
MCWeights == {2}
MCInstants == {0, 1}
=============================================================================
