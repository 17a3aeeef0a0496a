---------------------------- MODULE QuorumPolicy ----------------------------
(***************************************************************************)
(* The policy decision of the crate quorum-policy, as operators on         *)
(* records: what a capability grant covers, what it charges and refunds,   *)
(* and which verdict an action receives.  A grant is a record              *)
(*   [id, agent, principal, classes, ceiling, budget, consumed, expires,   *)
(*    hic, revoked]                                                        *)
(* and an action is a record [class, clf, cost, threshold, mandatory].     *)
(* Classifications are naturals, ordered as the Rust enum orders them;     *)
(* instants are integers.  Nothing here is recursive.                      *)
(***************************************************************************)
EXTENDS Integers

GrantHics == {"approve_each", "budgeted", "post_hoc"}

\* Every action costs at least one unit, so a cost of zero is not a free pass.
ChargeFor(cost) == IF cost = 0 THEN 1 ELSE cost

IsLive(g, now) == ~g.revoked /\ g.expires > now

\* Saturating subtraction on u64.
Monus(m, n) == IF n > m THEN 0 ELSE m - n

Remaining(g) == Monus(g.budget, g.consumed)

\* Mutant: the budget is not looked at.
CoversUnpaid(g, action, now) ==
  /\ IsLive(g, now)
  /\ action.class \in g.classes
  /\ action.clf <= g.ceiling
Covers(g, action, now) ==
  /\ IsLive(g, now)
  /\ action.class \in g.classes
  /\ action.clf <= g.ceiling
  /\ Remaining(g) >= action.cost

Consume(g, units) == [g EXCEPT !.consumed = @ + units]

\* Mutant: the subtraction does not saturate.
RefundUnbounded(g, units) == [g EXCEPT !.consumed = @ - units]
Refund(g, units) == [g EXCEPT !.consumed = Monus(@, units)]

Revoke(g) == [g EXCEPT !.revoked = TRUE]

\* evaluate() takes the first grant of the agent, in the order they were
\* issued, that covers the action: this is that position, or the empty set.
FirstCovering(grants, agent, action, now) ==
  LET Covering == { i \in DOMAIN grants : /\ grants[i].agent = agent
                                          /\ Covers(grants[i], action, now) }
  IN  { i \in Covering : \A j \in Covering : i <= j }

OverCeiling(action) == action.threshold > 0 /\ action.cost > action.threshold

NeedsHuman(action, g) ==
  action.mandatory \/ OverCeiling(action) \/ g.hic = "approve_each"

\* The egress policy: at a controlled classification the action must name a
\* model endpoint, and the policy must list it there.
Permits(controlled, allow, clf, model, unnamed) ==
  clf \in controlled => /\ model # unnamed
                        /\ clf \in DOMAIN allow
                        /\ model \in allow[clf]

\* The verdict on an action that grant g covers, after egress control.
VerdictUnder(g, action, permitted) ==
  IF ~permitted THEN "deny"
  ELSE IF NeedsHuman(action, g) THEN "require-approval"
  ELSE "allow"

\* The HIC level recorded with it: anything but an Allow is HIC-1.
HicUnder(g, verdict) == IF verdict = "allow" THEN g.hic ELSE "approve_each"
=============================================================================
