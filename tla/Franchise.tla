----------------------------- MODULE Franchise ------------------------------
(***************************************************************************)
(* Delegated voting in one tenant: a human issues an agent an allowance of *)
(* weight, the agent spends it vote by vote, and anybody may pull the plug.*)
(* The set of TenantLog is the file allowances.json: one entry for each    *)
(* allowance id, which an issue under the same id overwrites.  Each        *)
(* operation checks its inputs, changes the entry, saves the file and only *)
(* then tries to record the act: a backend that is already degraded        *)
(* refuses the record, not the change.                                     *)
(*                                                                         *)
(* What the properties are about is one delegation, not one id, so the     *)
(* model keeps with each id the list of what was issued under it.  Only    *)
(* the last of the list is in the file, and no operation reads another;    *)
(* the earlier ones, and the issue number in the records, are history.     *)
(***************************************************************************)
EXTENDS TenantLog, Totals

CONSTANTS
  AllowanceIds, Principals, Agents, Classes, Blank,
  NewAllowances,   \* what may be issued: [id, principal, agent, classes, cap, expires]
  Weights,         \* what a vote may weigh
  Instants,        \* readings of the clock
  MaxIssues        \* bound: issues under one id

Allowance == [principal : Principals, agent : Agents, classes : SUBSET Classes,
              cap : Nat, spent : Nat, expires : Int, revoked : BOOLEAN]

ASSUME FranchiseInputs ==
  /\ NewAllowances \subseteq [id : AllowanceIds, principal : Principals \cup {Blank},
                              agent : Agents, classes : SUBSET Classes,
                              cap : Nat, expires : Int]
  /\ Weights \subseteq Nat /\ Instants \subseteq Int
  /\ MaxIssues \in Nat
  /\ Blank \notin Principals

Issues == 1..MaxIssues
Unissued == [id \in AllowanceIds |-> <<>>]

Init == InitLog(Unissued)
-----------------------------------------------------------------------------
\* The issue in force under an id, and the set with that one changed.
Issue(id) == Len(mem.set[id])
Holds(id) == Issue(id) # 0
InForce(id) == mem.set[id][Issue(id)]
WithInForce(id, a) == [mem.set EXCEPT ![id][Issue(id)] = a]

IsLive(a, now) == ~a.revoked /\ a.expires > now

Remaining(a) == IF a.spent > a.cap THEN 0 ELSE a.cap - a.spent

CanCast(a, class, weight, now) ==
  IsLive(a, now) /\ class \in a.classes /\ weight <= Remaining(a)

\* Mutant: a vote sets what is spent instead of adding to it.
SpendsLast(a, weight) == [a EXCEPT !.spent = weight]
Spend(a, weight) == [a EXCEPT !.spent = @ + weight]

\* Issuing and revoking are recorded as acts of the principal, a vote as an act
\* of the agent under the principal and the allowance.
Act(class, id, issue, principal) ==
  [class |-> class, allowance |-> id, issue |-> issue, principal |-> principal,
   agent |-> principal, weight |-> 0]
Vote(id, issue, a, weight) ==
  [class |-> "vote.cast", allowance |-> id, issue |-> issue, principal |-> a.principal,
   agent |-> a.agent, weight |-> weight]
-----------------------------------------------------------------------------
Named(n) == n.principal # Blank

Fresh(n) ==
  [principal |-> n.principal, agent |-> n.agent, classes |-> n.classes, cap |-> n.cap,
   spent |-> 0, expires |-> n.expires, revoked |-> FALSE]

\* The entry is put under its id, whether or not the id has one already: nothing
\* spent and not revoked.
IssueAllowance(n) ==
  /\ Free /\ CanRecord
  /\ Named(n) /\ Issue(n.id) < MaxIssues
  /\ SaveThenTryToRecord([mem.set EXCEPT ![n.id] = Append(@, Fresh(n))],
                         Act("allowance.issue", n.id, Issue(n.id) + 1, n.principal))

CastVote(id, class, weight, now) ==
  /\ Free /\ CanRecord
  /\ Holds(id) /\ CanCast(InForce(id), class, weight, now)
  /\ SaveThenTryToRecord(WithInForce(id, Spend(InForce(id), weight)),
                         Vote(id, Issue(id), InForce(id), weight))

RevokeAllowance(id) ==
  /\ Free /\ CanRecord
  /\ Holds(id)
  /\ SaveThenTryToRecord(WithInForce(id, [InForce(id) EXCEPT !.revoked = TRUE]),
                         Act("allowance.revoke", id, Issue(id), InForce(id).principal))

Next ==
  \/ \E n \in NewAllowances : IssueAllowance(n)
  \/ \E id \in AllowanceIds, class \in Classes, weight \in Weights, now \in Instants :
       CastVote(id, class, weight, now)
  \/ \E id \in AllowanceIds : RevokeAllowance(id)
  \/ LogSteps

Spec == Init /\ [][Next]_logVars
-----------------------------------------------------------------------------
\* The record is an act of that class under that issue of that id.
IsOf(record, class, id, issue) ==
  record.class = class /\ record.allowance = id /\ record.issue = issue

Votes(id, issue) ==
  { n \in DOMAIN disk.chain : IsOf(disk.chain[n], "vote.cast", id, issue) }
Revocations(id, issue) ==
  { n \in DOMAIN disk.chain : IsOf(disk.chain[n], "allowance.revoke", id, issue) }

\* What the votes on record under an issue weigh together.
VotesWeight(id, issue) ==
  Total([n \in DOMAIN disk.chain |->
           IF n \in Votes(id, issue) THEN disk.chain[n].weight ELSE 0],
        Len(disk.chain))

Issued(store, id, issue) == issue \in DOMAIN store.set[id]

\* VA-1, for each delegation: it spends no more than its cap, in memory or on
\* disk; and as the evidence shows it, the votes recorded under it weigh together
\* no more than it has spent on disk, issues overwritten since included.  As long
\* as nothing failed they weigh exactly that: the save comes first, so a crash or
\* a failure before the append spends weight no record accounts for.  An id that
\* is issued again has its cap again: nothing is said of its issues together.
SpendingMatchesVotes ==
  \A id \in AllowanceIds, issue \in Issues :
    /\ \A store \in {mem, disk} : Issued(store, id, issue) =>
         store.set[id][issue].spent <= store.set[id][issue].cap
    /\ Votes(id, issue) # {} =>
         Issued(disk, id, issue) /\ VotesWeight(id, issue) <= disk.set[id][issue].spent
    /\ Free /\ crashes = 0 /\ failures = 0 /\ Issued(disk, id, issue)
         => disk.set[id][issue].spent <= VotesWeight(id, issue)

\* VA-2, for each delegation, as the evidence shows it: a recorded revocation is
\* in force on disk until a human issues the id again, and no vote is cast under
\* what was revoked after it, in this process or a later one.
RevocationHolds ==
  \A id \in AllowanceIds, issue \in Issues :
    /\ \A n \in Votes(id, issue), m \in Revocations(id, issue) : n < m
    /\ Revocations(id, issue) # {} =>
         Issued(disk, id, issue) /\ disk.set[id][issue].revoked
=============================================================================
