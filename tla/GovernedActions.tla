-------------------------- MODULE GovernedActions ---------------------------
(***************************************************************************)
(* One tenant's governed-action pipeline: the in-memory working set of     *)
(* backend.rs, the files of store.rs it writes through to, and the         *)
(* operations that evaluate an action, answer an escalation, issue or      *)
(* revoke a grant, and (re)establish the tenant scope.                     *)
(*                                                                         *)
(* The backend sits behind one mutex, so operations do not interleave; but *)
(* each one makes several durable writes in a fixed order, and the process *)
(* may die, or a write may fail, between any two of them.  An operation is *)
(* therefore a start (its checks, and the values it is going to write) and *)
(* one step per durable write: `op' holds the writes still to be made and  *)
(* the values they install in memory and on disk.                          *)
(*                                                                         *)
(* Decision ids are the positions 1, 2, ... of records in the chain (the   *)
(* code counts from 0).  Names, amounts and instants come from small sets. *)
(* The reading of the clock is an input: nothing orders two readings.      *)
(***************************************************************************)
EXTENDS QuorumPolicy, Evidence, Totals, Sequences, FiniteSets

CONSTANTS
  Agents, Humans, Classes, GrantIds, Models,
  Requests,     \* what agents may ask: ActionInput values
  NewGrants,    \* the grants a human may issue, as CapabilityGrants
  Operator,     \* the established operator of the installation, or None
  Blank,        \* an empty name in a form
  Unnamed,      \* an empty model endpoint
  Issuers,      \* who a grant may be issued by: Humans, perhaps Blank
  L1Classes,    \* the action classes the server-side table marks L-1
  Controlled,   \* EgressPolicy.controlled
  Allow,        \* EgressPolicy.allow
  Instants,     \* readings of the clock
  MaxChain,     \* bound: records in the chain
  MaxCrashes,   \* bound: process deaths
  MaxFailures,  \* bound: failed durable writes
  TornWrites    \* may an interrupted append leave part of a line behind?

\* classification_from_str: what a label means; egress reads the label itself.
Level == [Public |-> 0, Proprietary |-> 1, CUI |-> 2, cui |-> 2, ITAR |-> 3]

Files == {"grants", "charges", "pending", "resolved", "chain"}
Steps == Files \cup {"count"}

Grant == [id : GrantIds, agent : Agents, principal : Humans,
          classes : SUBSET Classes, ceiling : Int, budget : Nat,
          consumed : Nat, expires : Int, hic : GrantHics, revoked : BOOLEAN]

Request == [agent : Agents, class : Classes, label : DOMAIN Level,
            cost : Nat, threshold : Nat, flag : BOOLEAN, model : Models]

Record == [agent : Agents \cup Humans, principal : Humans \cup {None},
           grant : GrantIds \cup {None},
           class : Classes \cup {"grant.issue", "grant.revoke"},
           verdict : Verdicts, hic : HicLevels, ref : GrantIds \cup {"request"}]

Charge == [agent : Agents, grant : GrantIds, units : Nat]

Answers == {"approved", "rejected"}

\* Decision ids; the absent entries of a map keyed by them are None.
Ids == 1..MaxChain

ASSUME InputsTyped ==
  /\ Requests \subseteq Request
  /\ NewGrants \subseteq { g \in Grant : g.consumed = 0 /\ ~g.revoked }
  /\ Issuers \subseteq Humans \cup {Blank}
  /\ Instants \subseteq Int

ASSUME NamesDistinct ==
  /\ None \notin Humans \cup GrantIds \cup Charge /\ Blank \notin Humans
  /\ "request" \notin GrantIds
  /\ Operator \in Humans \cup {None}

ASSUME BoundsTyped ==
  /\ MaxChain \in Nat /\ MaxCrashes \in Nat /\ MaxFailures \in Nat
  /\ TornWrites \in BOOLEAN
-----------------------------------------------------------------------------
VARIABLES
  up,         \* the process runs
  scope,      \* a tenant scope is established in this process
  degraded,   \* a durable write failed: governed actions are refused
  mem,        \* the working set, one component per file
  op,         \* the operation holding the mutex
  disk,       \* the files of the tenant
  eol,        \* the last line of chain.jsonl ends with its newline
  count,      \* chain.count
  dScope,     \* scope.json names the tenant
  acked,      \* history: the chain when an operation last reported success
  answered,   \* history: the answers whose record reached the log
  crashes, failures

vars == << up, scope, degraded, mem, op, disk, eol, count, dScope,
           acked, answered, crashes, failures >>
store == << disk, eol, count, dScope >>
history == << acked, answered >>
faults == << crashes, failures >>

Empty == [grants |-> <<>>, charges |-> [id \in Ids |-> None], pending |-> {},
          resolved |-> [id \in Ids |-> None], chain |-> <<>>]

\* A line of the log that no longer parses as a record.
Garbage == [verdict |-> "garbage"]

NoOp == [todo |-> <<>>, new |-> Empty, about |-> {}]

Last(s) == s[Len(s)]

Init ==
  /\ up = TRUE /\ scope = FALSE /\ degraded = FALSE
  /\ mem = Empty /\ op = NoOp
  /\ disk = Empty /\ eol = TRUE /\ count = 0 /\ dScope = FALSE
  /\ acked = <<>> /\ answered = {}
  /\ crashes = 0 /\ failures = 0
-----------------------------------------------------------------------------
(* Operations: their checks, and what they are going to write. *)

Free  == up /\ op.todo = <<>>
Ready == Free /\ scope
CanRecord == Len(mem.chain) < MaxChain

\* Mutant: the check is missing.
AlwaysProceed == TRUE
\* After a failed write this process refuses to produce more evidence.
CheckNotDegraded == ~degraded

\* The operation goes ahead: these writes, installing these values.
Begin(todo, new, about) ==
  /\ op' = [todo |-> todo, new |-> new, about |-> about]
  /\ UNCHANGED << up, scope, degraded, store, history, faults >>

Target(grants, charges, pending, resolved, chain) ==
  [grants |-> grants, charges |-> charges, pending |-> pending,
   resolved |-> resolved, chain |-> chain]

Asked(req) ==
  [class |-> req.class, clf |-> Level[req.label], cost |-> ChargeFor(req.cost),
   threshold |-> req.threshold,
   mandatory |-> req.flag \/ req.class \in L1Classes]

DecisionRecord(req, principal, grant, verdict, hic) ==
  [agent |-> req.agent, principal |-> principal, grant |-> grant,
   class |-> req.class, verdict |-> verdict, hic |-> hic, ref |-> "request"]

\* No grant covers the action: it is recorded as ungoverned, and costs nothing.
EvaluateUngoverned(req, now) ==
  LET chain == Append(mem.chain, DecisionRecord(req, None, None, "ungoverned", "ungoverned"))
  IN  /\ Ready /\ CheckNotDegraded /\ CanRecord
      /\ FirstCovering(mem.grants, req.agent, Asked(req), now) = {}
      /\ mem' = [mem EXCEPT !.chain = chain]
      /\ Begin(<<"chain", "count">>,
               Target(mem.grants, mem.charges, mem.pending, mem.resolved, chain), {})

\* A grant covers it: the verdict, the charge, and the question to a human.
EvaluateGoverned(req, now) ==
  \E i \in FirstCovering(mem.grants, req.agent, Asked(req), now) :
    LET g       == mem.grants[i]
        action  == Asked(req)
        verdict == VerdictUnder(g, action, Permits(Controlled, Allow, req.label, req.model, Unnamed))
        record  == DecisionRecord(req, g.principal, g.id, verdict, HicUnder(g, verdict))
        chain   == Append(mem.chain, record)
        id      == Len(chain)
        asks    == verdict = "require-approval"
        charge  == [agent |-> req.agent, grant |-> g.id, units |-> action.cost]
    IN  /\ Ready /\ CheckNotDegraded /\ CanRecord
        /\ IsConsistent(record)
        /\ mem' = [mem EXCEPT !.chain = chain]
        /\ Begin(IF asks THEN <<"grants", "charges", "pending", "chain", "count">>
                         ELSE <<"grants", "charges", "chain", "count">>,
                 Target([mem.grants EXCEPT ![i] = Consume(g, action.cost)],
                        [mem.charges EXCEPT ![id] = charge],
                        IF asks THEN mem.pending \cup {id} ELSE mem.pending,
                        mem.resolved, chain),
                 {})

\* An answer leaves the queue and is recorded as a decision of its own.
AnswerRecord(id, principal, verdict) ==
  LET original == mem.chain[id]
  IN  [agent |-> original.agent, principal |-> principal, grant |-> original.grant,
       class |-> original.class, verdict |-> verdict, hic |-> "approve_each",
       ref |-> original.ref]

\* Only a live escalation can be approved.
\* Mutant: any known decision can be approved.
AwaitedUnlessKnown(id) == id \in DOMAIN mem.chain
Awaited(id) == id \in mem.pending

Approve(id, who) ==
  LET known == id \in DOMAIN mem.chain
  IN  /\ Ready /\ CheckNotDegraded /\ CanRecord
      /\ Operator \in {None, who}
      /\ Awaited(id)
      /\ Begin(IF known THEN <<"pending", "resolved", "chain", "count">>
                        ELSE <<"pending", "resolved">>,
               Target(mem.grants, mem.charges, mem.pending \ {id},
                      [mem.resolved EXCEPT ![id] = "approved"],
                      IF known THEN Append(mem.chain, AnswerRecord(id, who, "approved"))
                               ELSE mem.chain),
               IF known THEN {<<id, "approved">>} ELSE {})
      /\ UNCHANGED mem

\* Mutant: every grant of the agent is refunded.
RefundedToAll(grants, charge) ==
  [i \in DOMAIN grants |->
     IF grants[i].agent = charge.agent THEN Refund(grants[i], charge.units) ELSE grants[i]]
\* Any decision of the ledger can be refused; only a charge still outstanding
\* is given back.
Refunded(grants, charge) ==
  [i \in DOMAIN grants |->
     IF grants[i].id = charge.grant /\ grants[i].agent = charge.agent
     THEN Refund(grants[i], charge.units) ELSE grants[i]]

\* Mutant: the answered question stays in the queue.
RejectPlanKeepsQueue(asked, charged) ==
  IF charged THEN <<"resolved", "grants", "charges", "chain", "count">>
             ELSE <<"resolved", "chain", "count">>
RejectPlan(asked, charged) ==
  IF asked
  THEN IF charged THEN <<"pending", "resolved", "grants", "charges", "chain", "count">>
                  ELSE <<"pending", "resolved", "chain", "count">>
  ELSE IF charged THEN <<"resolved", "grants", "charges", "chain", "count">>
                  ELSE <<"resolved", "chain", "count">>

Reject(id) ==
  LET asked   == id \in mem.pending
      charged == mem.charges[id] # None
  IN  /\ Ready /\ CheckNotDegraded /\ CanRecord
      /\ id \in DOMAIN mem.chain
      /\ Begin(RejectPlan(asked, charged),
               Target(IF charged THEN Refunded(mem.grants, mem.charges[id]) ELSE mem.grants,
                      [mem.charges EXCEPT ![id] = None],
                      mem.pending \ {id},
                      [mem.resolved EXCEPT ![id] = "rejected"],
                      Append(mem.chain, AnswerRecord(id, mem.chain[id].principal, "rejected"))),
               {<<id, "rejected">>})
      /\ UNCHANGED mem

\* The record of a human acting directly names the grant in its correlation id.
ActRecord(who, class, ref) ==
  [agent |-> who, principal |-> who, grant |-> None, class |-> class,
   verdict |-> "approved", hic |-> "approve_each", ref |-> ref]

\* Mutant: the record is written before the grants.
GrantPlanRecordFirst(recorded) ==
  IF recorded THEN <<"chain", "count", "grants">> ELSE <<"grants">>
GrantPlan(recorded) == IF recorded THEN <<"grants", "chain", "count">> ELSE <<"grants">>

\* The grant is written first; the record of it only if the backend is not
\* degraded and the issuer is named, and otherwise the call ends in an error.
IssueGrant(g, issuer) ==
  LET recorded == CheckNotDegraded /\ issuer # Blank
  IN  /\ Ready /\ CanRecord
      /\ \A i \in DOMAIN mem.grants : mem.grants[i].id # g.id
      /\ Begin(GrantPlan(recorded),
               Target(Append(mem.grants, g), mem.charges, mem.pending, mem.resolved,
                      IF recorded THEN Append(mem.chain, ActRecord(issuer, "grant.issue", g.id))
                                  ELSE mem.chain),
               {})
      /\ UNCHANGED mem

Revoked(grants, gid) ==
  [i \in DOMAIN grants |-> IF grants[i].id = gid THEN Revoke(grants[i]) ELSE grants[i]]

RevokeGrant(gid, who) ==
  /\ Ready /\ CanRecord
  /\ \E i \in DOMAIN mem.grants : mem.grants[i].id = gid
  /\ Begin(GrantPlan(CheckNotDegraded),
           Target(Revoked(mem.grants, gid), mem.charges, mem.pending, mem.resolved,
                  IF CheckNotDegraded THEN Append(mem.chain, ActRecord(who, "grant.revoke", gid))
                  ELSE mem.chain),
           {})
  /\ UNCHANGED mem
-----------------------------------------------------------------------------
(* The durable writes, in the order the operation makes them. *)

Writing(f) == up /\ op.todo # <<>> /\ Head(op.todo) = f

\* Memory takes the new value just before the file that carries it is written;
\* a charge and the budget it came from change together.
Touched(f) == IF f = "grants" THEN {"grants", "charges"} ELSE {f}
Install(f) == mem' = [x \in Files |-> IF x \in Touched(f) THEN op.new[x] ELSE mem[x]]

Done(f) == op' = [op EXCEPT !.todo = Tail(@)]

\* A mutable set is rewritten whole, by rename.
WriteSet ==
  \E f \in Files \ {"chain"} :
    /\ Writing(f)
    /\ Install(f) /\ Done(f)
    /\ disk' = [disk EXCEPT ![f] = op.new[f]]
    /\ UNCHANGED << up, scope, degraded, eol, count, dScope, history, faults >>

\* What chain.jsonl holds after `line' is appended to it: glued to a last line
\* that has no newline of its own, it spoils both.
Appended(line) ==
  IF eol THEN Append(disk.chain, line)
  ELSE [disk.chain EXCEPT ![Len(disk.chain)] = Garbage]

LogGains(line) == /\ disk' = [disk EXCEPT !.chain = Appended(line)]
                  /\ answered' = answered \cup op.about

WriteRecord ==
  /\ Writing("chain")
  /\ Install("chain") /\ Done("chain")
  /\ LogGains(Last(op.new.chain))
  /\ eol' = TRUE
  /\ UNCHANGED << up, scope, degraded, count, dScope, acked, faults >>

\* The last write; the operation reports success.
WriteCount ==
  /\ Writing("count")
  /\ Done("count")
  /\ count' = count + 1
  /\ acked' = mem.chain
  /\ UNCHANGED << up, scope, degraded, mem, disk, eol, dScope, answered, faults >>

\* What a write that was cut short leaves behind.  A whole-file write leaves
\* the old file.  An append may have reached the log entirely, not at all, or,
\* if TornWrites, in part or without its newline.
Interrupted ==
  LET line == Last(op.new.chain)
      Nothing   == UNCHANGED << disk, eol, answered >>
      Whole     == LogGains(line) /\ eol' = TRUE
      NoNewline == LogGains(line) /\ eol' = FALSE
      Part      == /\ disk' = [disk EXCEPT !.chain = Appended(Garbage)]
                   /\ eol' = FALSE /\ UNCHANGED answered
  IN  IF op.todo # <<>> /\ Head(op.todo) = "chain"
      THEN \/ Nothing
           \/ Whole
           \/ TornWrites /\ (NoNewline \/ Part)
      ELSE Nothing

\* The write fails: the operation ends in an error and the backend degrades.
WriteFails ==
  /\ failures < MaxFailures
  /\ \E f \in Steps : Writing(f) /\ IF f = "count" THEN UNCHANGED mem ELSE Install(f)
  /\ Interrupted
  /\ op' = NoOp
  /\ degraded' = TRUE
  /\ failures' = failures + 1
  /\ UNCHANGED << up, scope, count, dScope, acked, crashes >>
-----------------------------------------------------------------------------
(* Scope, death and restart. *)

\* load_chain replays the log and compares its length with the count.
Readable == /\ \A i \in DOMAIN disk.chain : disk.chain[i] # Garbage
            /\ count <= Len(disk.chain)

\* Mutant: the log is read up to the committed count.
LoadedToCount == [disk EXCEPT !.chain = SubSeq(@, 1, count)]
\* The log is served to its last line: the count may lag behind it.
Loaded == disk

\* set_active_tenant: everything is loaded before anything is replaced, and
\* the scope stands only once scope.json says so.
Establish(saved) ==
  /\ ~saved => failures < MaxFailures
  /\ mem' = Loaded
  /\ dScope' = (dScope \/ saved)
  /\ failures' = IF saved THEN failures ELSE failures + 1

SetActiveTenant ==
  /\ Free /\ Readable
  /\ \E saved \in BOOLEAN : Establish(saved) /\ scope' = (scope \/ saved)
  /\ UNCHANGED << up, degraded, op, disk, eol, count, history, crashes >>

\* All that lives in memory goes with the process.
Ends == /\ up' = FALSE /\ scope' = FALSE /\ degraded' = FALSE
        /\ mem' = Empty /\ op' = NoOp

\* The app is closed between operations.
Exit == Free /\ Ends /\ UNCHANGED << store, history, faults >>

\* The process dies in the middle of one.
Crash ==
  /\ up /\ op.todo # <<>> /\ crashes < MaxCrashes
  /\ Interrupted /\ Ends
  /\ crashes' = crashes + 1
  /\ UNCHANGED << count, dScope, acked, failures >>

\* with_store resumes the scope it was left in; one that does not reload is
\* left unset.
Restart ==
  /\ ~up
  /\ up' = TRUE
  /\ IF dScope /\ Readable
     THEN \E saved \in BOOLEAN : Establish(saved) /\ scope' = saved
     ELSE UNCHANGED << mem, scope, dScope, failures >>
  /\ UNCHANGED << degraded, op, disk, eol, count, history, crashes >>
-----------------------------------------------------------------------------
Next ==
  \/ \E req \in Requests, now \in Instants : EvaluateUngoverned(req, now)
  \/ \E req \in Requests, now \in Instants : EvaluateGoverned(req, now)
  \/ \E id \in Ids, who \in Humans : Approve(id, who)
  \/ \E id \in DOMAIN mem.chain : Reject(id)
  \/ \E g \in NewGrants, issuer \in Issuers : IssueGrant(g, issuer)
  \/ \E gid \in GrantIds, who \in Humans : RevokeGrant(gid, who)
  \/ WriteSet
  \/ WriteRecord
  \/ WriteCount
  \/ WriteFails
  \/ SetActiveTenant
  \/ Exit
  \/ Crash
  \/ Restart

Spec == Init /\ [][Next]_vars
-----------------------------------------------------------------------------
\* Mutant: the answer to a decision of the same class is reported.
DecisionStatusByClass(id) ==
  IF id \in mem.pending THEN "pending"
  ELSE IF id \in DOMAIN mem.chain
       THEN LET alike == { i \in DOMAIN mem.chain : /\ mem.resolved[i] # None
                                                   /\ mem.chain[i].class = mem.chain[id].class }
            IN  IF alike = {} THEN "pending" ELSE mem.resolved[CHOOSE i \in alike : TRUE]
       ELSE "unknown"

\* What the agent polling on a decision is told.
DecisionStatus(id) ==
  IF id \in mem.pending THEN "pending"
  ELSE IF id \in Ids /\ mem.resolved[id] # None THEN mem.resolved[id]
  ELSE IF id \in DOMAIN mem.chain THEN "pending"
  ELSE "unknown"

StoreType(lines) == [grants : Seq(Grant), charges : [Ids -> Charge \cup {None}],
                     pending : SUBSET Ids, resolved : [Ids -> Answers \cup {None}],
                     chain : Seq(lines)]
MemType  == StoreType(Record)
DiskType == StoreType(Record \cup {Garbage})

\* The variables keep their types.
TypeOK ==
  /\ up \in BOOLEAN /\ scope \in BOOLEAN /\ degraded \in BOOLEAN
  /\ mem \in MemType /\ disk \in DiskType
  /\ op \in [todo : Seq(Steps), new : MemType, about : SUBSET (Ids \X Answers)]
  /\ eol \in BOOLEAN /\ count \in Nat /\ dScope \in BOOLEAN
  /\ acked \in Seq(Record) /\ answered \subseteq Ids \X Answers
  /\ crashes \in 0..MaxCrashes /\ failures \in 0..MaxFailures

\* CG-1 across evaluate, reject, failures and restarts: in memory and in
\* grants.json no grant has consumed more than its budget.
WithinBudget ==
  \A grants \in {mem.grants, disk.grants} :
    \A i \in DOMAIN grants : grants[i].consumed <= grants[i].budget

\* What the charges still outstanding under a grant add up to.
Outstanding(charges, gid) ==
  Total([n \in Ids |-> IF charges[n] # None /\ charges[n].grant = gid THEN charges[n].units ELSE 0],
        MaxChain)

\* The books balance: what a grant has consumed is what its unrefunded
\* decisions charged, no more and no less.
BudgetBalanced ==
  Ready => \A i \in DOMAIN mem.grants :
             mem.grants[i].consumed = Outstanding(mem.charges, mem.grants[i].id)

\* An interrupted append has left something in the log that is no record.
Spoiled == \E i \in DOMAIN disk.chain : disk.chain[i] = Garbage

\* Write-through: whenever no operation is under way, no write has failed and
\* the log is not spoiled, memory holds exactly what a restart would load; and
\* a line that is appended carries the hash of the chain it extends in memory,
\* so it replays only if the log holds exactly the records before it, also
\* after a failed write.
MemoryMirrorsDisk ==
  ~Spoiled =>
    /\ Ready /\ ~degraded => mem = disk
    /\ Writing("chain") => op.new.chain = Append(disk.chain, Last(op.new.chain))

Holds(chain, before) ==
  Len(before) <= Len(chain) /\ \A i \in DOMAIN before : before[i] = chain[i]

\* Durable before success, and fail closed: what an operation reported success
\* for stays in the log at its place and a restart serves it (the count never
\* makes a crash look like a truncation), as long as no torn append spoils the
\* log; and a tenant is served with all that was acknowledged or not at all.
AckedSurvives ==
  /\ ~Spoiled => Readable /\ Holds(disk.chain, acked)
  /\ Ready /\ ~degraded => Holds(mem.chain, acked)

Revokes(r, gid) == r.class = "grant.revoke" /\ r.verdict = "approved" /\ r.ref = gid
Decides(r)      == r.verdict \in {"allow", "deny", "require-approval"}

\* A recorded revocation is in force on disk, whatever failed since, so that no
\* restart brings the grant back; and, CG-2 as the evidence shows it, no decision
\* is taken under that grant after the record: questions asked before are answered.
RevocationStands ==
  /\ \A r \in { disk.chain[n] : n \in DOMAIN disk.chain } :
       \A i \in DOMAIN disk.grants :
         r # Garbage /\ Revokes(r, disk.grants[i].id) => disk.grants[i].revoked
  /\ \A m, n \in DOMAIN mem.chain :
       m < n /\ Decides(mem.chain[n]) => ~Revokes(mem.chain[m], mem.chain[n].grant)

\* An agent is told of an answer only if that answer is on record.
StatusHonest ==
  Ready => \A id \in Ids : DecisionStatus(id) \in Answers => <<id, DecisionStatus(id)>> \in answered

\* Only an escalated decision is ever approved.
ApprovedWasAsked ==
  \A id \in Ids : <<id, "approved">> \in answered =>
    id \in DOMAIN disk.chain /\ disk.chain[id].verdict = "require-approval"

\* Every decision can be shown to a stranger, whatever the number of records
\* around it: its document says it is included, and the proof in the document
\* leads from no other record to the root, so it cannot be lent to one.
EveryDecisionProvable ==
  Ready => \A i \in DOMAIN mem.chain :
    LET doc == LedgerDecision(mem.chain, i)
    IN  /\ doc.included
        /\ \A j \in DOMAIN mem.chain :
             Content(mem.chain[j]) # Content(doc.record)
               => ~VerifyInclusion(Content(mem.chain[j]), doc.proof, doc.root)
-----------------------------------------------------------------------------
(* What the pipeline promises to those who only see its answers. *)

\* An operation under way already has its effect; otherwise the files count.
BookView ==
  LET files == IF op.todo # <<>> THEN op.new ELSE disk
  IN  [records |-> [n \in DOMAIN files.chain |-> files.chain[n].verdict],
       waiting |-> files.pending, answer |-> files.resolved]

Promised == INSTANCE Decisions WITH book <- BookView, MaxRecords <- MaxChain

\* Without faults, orderly exits and restarts included, the pipeline is a book
\* of decisions: each operation rules, answers or notes atomically, leaves
\* everything recorded before as it was, and a restart changes nothing.
KeepsDecisionBook == Promised!Spec
=============================================================================
