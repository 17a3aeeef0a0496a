----------------------------- MODULE ChainReads -------------------------------
(***************************************************************************)
(* Commands that read the chain (chain.rs, and the clearance and session   *)
(* crates).  A command asks the node one question after the other; it      *)
(* holds no lock while it waits, so other commands run and the chain       *)
(* changes in between, and any question may go unanswered.  What it        *)
(* concludes is a function of the answers it got.                          *)
(*                                                                         *)
(* The node and its contracts are outside this repository.                 *)
(***************************************************************************)
EXTENDS Integers, Sequences, FiniteSets, SequencesExt, Totals

CONSTANTS
  None,
  Unrecorded,   \* the registry knows nothing of the subject
  Reverted,     \* the contract refused the question
  Unreachable, NoResult,   \* no answer, or one without a result
  Readers,      \* commands that may run at once
  Worlds,       \* the states the chain may be in
  Tenants,      \* the tenants that may be asked about
  Entitlements, \* what a principal may have paid for, and when it is asked
  Counts,       \* how many blocks may be asked for
  Tokens,       \* the tokens asked about that the book has; the others are named unread
  BookChain,    \* the chain the address book is frozen against
  Capacity,     \* lines of activity that are kept
  MaxCommands, MaxFailures, MaxChanges   \* bounds

ASSUME ReadBounds ==
  Capacity \in Nat \ {0} /\ MaxCommands \in Nat /\ MaxFailures \in Nat /\ MaxChanges \in Nat

\* The head of a chain is a number, and so is a count of blocks; the address book
\* lists its tokens; and a refusal is told from a silence.
ASSUME ReadKinds ==
  /\ \A w \in Worlds : w.height \in Nat
  /\ Counts \subseteq Int
  /\ Tokens \in Seq(Range(Tokens))
  /\ Reverted \notin {Unreachable, NoResult}

\* A tenant's children are a list of names that may be asked about in turn.
ASSUME TreeKinds ==
  \A w \in Worlds :
    /\ w.root \in DOMAIN w.tree \cup {None}
    /\ \A id \in DOMAIN w.tree : w.tree[id] # None => w.tree[id].kids \in Seq(DOMAIN w.tree)

VARIABLES
  world,        \* the chain: [root, tree, record, height, id, balance]
  task,         \* reader -> the command it runs
  log,          \* the activity log, a ring
  logged,       \* history: everything that was ever logged
  commands, failures, changes

vars == << world, task, log, logged, commands, failures, changes >>
-----------------------------------------------------------------------------
(* Classifications and grants. *)
Levels == 0..3
\* An ordinal that is no level is not read as one.
Known(ordinal) == IF ordinal \in Levels THEN ordinal ELSE None
Least(a, b) == IF a <= b THEN a ELSE b

\* A paid relationship lifts the commercial cap; anything else is Public.
PaidTiers == {"commercial", "commercial.kyc", "member", "pilot", "enterprise",
              "enterprise.kyc", "academic", "confidential"}
TierCap(tier) == IF tier \in PaidTiers THEN 3 ELSE 0
IsActive(e) == TierCap(e.tier) > 0 /\ e.expires # None /\ e.expires > e.now

Failures == {Reverted, Unreachable, NoResult}

\* Mutant: an axis that was not read does not bound.
UnreadIsOpen(level) == IF level = None THEN 3 ELSE level
OrPublic(level) == IF level = None THEN 0 ELSE level

ClearanceIn(answer) ==
  IF answer \in Failures THEN None ELSE IF answer = Unrecorded THEN 0 ELSE Known(answer.clearance)
\* Only a definite no counts, and one that came with a clearance.
DefinitelyNotForeign(answer) ==
  /\ answer \notin Failures
  /\ answer # Unrecorded => Known(answer.clearance) # None /\ ~answer.foreign
CeilingIn(answer) == IF answer \in Failures THEN None ELSE Known(answer)

\* The least of all ceilings.
ResolveEffectiveGrant(e, record, node) ==
  [ceiling |-> Least(IF IsActive(e) THEN TierCap(e.tier) ELSE 0,
                     Least(OrPublic(ClearanceIn(record)), OrPublic(CeilingIn(node)))),
   foreign |-> ~DefinitelyNotForeign(record)]

PermitsLevel(grant, level) == (level = 3 => ~grant.foreign) /\ level <= grant.ceiling

\* The clearance as a surface shows it: a tenant that was not read or does not
\* exist bounds nothing.
Effective(record) == OrPublic(ClearanceIn(record))
BoundedTo(record, node) ==
  IF CeilingIn(node) = None THEN Effective(record) ELSE Least(Effective(record), CeilingIn(node))
\* What the surface says beside it.  The reader of the tenant's node gives a
\* ceiling or none, whatever went wrong, and none is said to be no such tenant.
\* Nothing is said if the book has no contract for tenants, or after a record
\* that was not read.
Notes(tenant, record, node) ==
  IF ClearanceIn(record) = None THEN {"record unread"}
  ELSE IF CeilingIn(node) = None /\ tenant # None THEN {"no node"} ELSE {}
-----------------------------------------------------------------------------
(* What is asked, and what the node holds on it. *)
Question(q, of, depth) == [q |-> q, of |-> of, depth |-> depth]
NodeAt(id, depth) == Question("node", id, depth)
Plain(q) == Question(q, None, 0)

\* A question put to no contract is refused, like one about no such tenant.
NoSuch(tenant) == tenant = None \/ world.tree[tenant] = None
Holds(q) ==
  CASE q.q = "record"  -> world.record
    [] q.q = "node"    -> IF NoSuch(q.of) THEN Reverted ELSE world.tree[q.of].ceiling
    [] q.q = "kids"    -> IF NoSuch(q.of) THEN Reverted ELSE world.tree[q.of].kids
    [] q.q = "root"    -> world.root
    [] q.q = "height"  -> world.height
    [] q.q = "chain"   -> world.id
    [] q.q = "block"   -> IF q.of <= world.height THEN q.of ELSE Reverted
    [] q.q = "balance" -> world.balance
    [] q.q = "extra"   -> 0

MaxDepth == 3
Clamp(count) == IF count < 1 THEN 1 ELSE Least(count, 25)

\* The questions a command starts with.
FirstQuestions(cmd, arg) ==
  CASE cmd = "clearance" -> << Plain("record"), NodeAt(arg, 0) >>
    [] cmd = "login"     -> << Plain("record"), NodeAt(arg.tenant, 0) >>
    [] cmd = "facts"     -> << NodeAt(arg, 0) >>
    [] cmd = "tenancy"   -> << Plain("root") >>
    [] cmd = "status"    -> << Plain("height"), Plain("chain"), Plain("extra") >>
    [] cmd = "blocks"    -> << Plain("height") >>
    [] cmd = "balances"  -> << Plain("balance") >>
                              \o [n \in DOMAIN Tokens |-> Question("balance", Tokens[n], 0)]

\* The heights asked for, newest first.
Heights(head, count) ==
  LET number == Least(Clamp(count), head + 1) IN [n \in 1..number |-> head - n + 1]

\* The questions an answer leads to: the tree is walked depth first.
FollowUps(cmd, arg, q, a) ==
  CASE cmd = "tenancy" /\ q.q = "root" -> IF a = None THEN <<>> ELSE << NodeAt(a, 0) >>
    [] cmd = "tenancy" /\ q.q = "node" -> << Question("kids", q.of, q.depth) >>
    [] cmd = "tenancy" /\ q.q = "kids" -> [n \in DOMAIN a |-> NodeAt(a[n], q.depth + 1)]
    [] cmd = "blocks" /\ q.q = "height" ->
         [n \in DOMAIN Heights(a, arg) |-> Question("block", Heights(a, arg)[n], 0)]
    [] OTHER -> <<>>

\* Mutant: a tenant that could not be asked about is no such tenant.
FailureIsAbsence(cmd, q, a) ==
  cmd \in {"clearance", "login", "facts"} \/ q.of # None \/ q.q = "extra"
\* A command goes on without an answer where it can say so.  A tenant whose
\* node reverts is no such tenant, which is an answer; any other failure is not.
Tolerates(cmd, q, a) ==
  \/ cmd \in {"clearance", "login"}
  \/ cmd = "facts" /\ a = Reverted
  \/ cmd = "balances" /\ q.of # None
  \/ q.q = "extra"
\* Only the status asks which chain it is, and refuses another than the book's.
GoesOn(cmd, q, a) ==
  /\ a \in Failures => Tolerates(cmd, q, a)
  /\ cmd = "status" /\ q.q = "chain" => a = BookChain
-----------------------------------------------------------------------------
Idle == [cmd |-> "none", arg |-> None, since |-> 0, todo |-> <<>>, got |-> <<>>, state |-> "idle"]

Init ==
  /\ world \in Worlds
  /\ task = [r \in Readers |-> Idle]
  /\ log = <<>> /\ logged = <<>>
  /\ commands = 0 /\ failures = 0 /\ changes = 0

\* A clearance is asked for of no tenant where the book has no contract for them.
Asks ==
  ({"facts"} \X Tenants) \cup ({"clearance"} \X (Tenants \cup {None}))
    \cup ({"tenancy", "status", "balances"} \X {None})
    \cup ({"login"} \X Entitlements) \cup ({"blocks"} \X Counts)

Begins(r, ask, todo, state) ==
  /\ task[r].state # "asking"
  /\ commands < MaxCommands /\ commands' = commands + 1
  /\ task' = [task EXCEPT ![r] =
       [cmd |-> ask[1], arg |-> ask[2], since |-> changes,
        todo |-> todo, got |-> <<>>, state |-> state]]
  /\ UNCHANGED << world, log, logged, failures, changes >>

Start(r, ask) == Begins(r, ask, FirstQuestions(ask[1], ask[2]), "asking")

\* A book that cannot be read, or lacks the endpoint or the contract, ends a
\* command before it asks anything; a tree without a contract is shown as absent.
Unbooked(r, ask) ==
  /\ ask[1] # "login"
  /\ \/ Begins(r, ask, <<>>, "failed")
     \/ ask[1] = "tenancy" /\ Begins(r, ask, <<>>, "absent")

\* The clearance reader has a client of its own, which logs nothing, and an
\* answer that carries no result is not logged either.
Logs(r, a) == task[r].cmd \notin {"clearance", "login"} /\ a # NoResult
KeepsNewest(lines) == IF Len(lines) > Capacity THEN Tail(lines) ELSE lines
RecordActivity(r, q, a) ==
  LET line == [q |-> q.q, ok |-> a \notin {Unreachable, Reverted}] IN
  IF Logs(r, a) THEN log' = KeepsNewest(Append(log, line)) /\ logged' = Append(logged, line)
                ELSE UNCHANGED << log, logged >>

TooDeep(q) == q.q = "node" /\ q.depth > MaxDepth

\* How far a command has got.
Progress(t, todo, got, state) ==
  [cmd |-> t.cmd, arg |-> t.arg, since |-> t.since, todo |-> todo, got |-> got, state |-> state]
Fails(t) == Progress(t, <<>>, t.got, "failed")

\* Mutant: the tree is walked level by level.
BreadthFirst(next, rest) == rest \o next
DepthFirst(next, rest) == next \o rest

\* What is known after an answer; `was` is what the node held.
Hears(r, q, a) ==
  LET t == task[r]
      next == IF a \in Failures THEN <<>> ELSE FollowUps(t.cmd, t.arg, q, a)
      todo == DepthFirst(next, Tail(t.todo))
  IN
  task' = [task EXCEPT ![r] =
    IF GoesOn(t.cmd, q, a)
    THEN Progress(t, todo, Append(t.got, [q |-> q, a |-> a, was |-> Holds(q)]),
                  IF todo = <<>> THEN "done" ELSE "asking")
    ELSE Fails(t)]

Answered(r) ==
  LET q == Head(task[r].todo) IN
  /\ task[r].state = "asking" /\ ~TooDeep(q)
  /\ Hears(r, q, Holds(q)) /\ RecordActivity(r, q, Holds(q))
  /\ UNCHANGED << world, commands, failures, changes >>

Unanswered(r, failure) ==
  LET q == Head(task[r].todo) IN
  /\ task[r].state = "asking" /\ ~TooDeep(q)
  /\ failures < MaxFailures /\ failures' = failures + 1
  /\ Hears(r, q, failure) /\ RecordActivity(r, q, failure)
  /\ UNCHANGED << world, commands, changes >>

\* The walk goes no deeper than the contract says a tree can be.
RefusesDepth(r) ==
  /\ task[r].state = "asking" /\ TooDeep(Head(task[r].todo))
  /\ task' = [task EXCEPT ![r] = Fails(task[r])]
  /\ UNCHANGED << world, log, logged, commands, failures, changes >>

WorldChanges ==
  /\ changes < MaxChanges /\ changes' = changes + 1
  /\ world' \in Worlds
  /\ UNCHANGED << task, log, logged, commands, failures >>

Reads(r) == Answered(r) \/ RefusesDepth(r) \/ \E f \in {Unreachable, NoResult} : Unanswered(r, f)

Next ==
  \/ \E r \in Readers : Reads(r) \/ \E ask \in Asks : Start(r, ask) \/ Unbooked(r, ask)
  \/ WorldChanges

Spec == Init /\ [][Next]_vars
-----------------------------------------------------------------------------
Finished(r, cmd) == task[r].state = "done" /\ task[r].cmd = cmd
Got(r, n) == task[r].got[n]

\* "There is no path where a read failure widens what a principal can see": a
\* grant resolved at login permits no level that it would not have permitted
\* had both questions been answered as the chain stood when they were asked.
ReadFailureNeverWidens ==
  \A r \in Readers : Finished(r, "login") =>
    \A level \in Levels :
      PermitsLevel(ResolveEffectiveGrant(task[r].arg, Got(r, 1).a, Got(r, 2).a), level)
        => PermitsLevel(ResolveEffectiveGrant(task[r].arg, Got(r, 1).was, Got(r, 2).was), level)

\* What a clearance shows and says, and what would have been shown had the chain
\* answered both questions.
Shown(r) == BoundedTo(Got(r, 1).a, Got(r, 2).a)
Held(r) == BoundedTo(Got(r, 1).was, Got(r, 2).was)
Said(r) == Notes(task[r].arg, Got(r, 1).a, Got(r, 2).a)

\* The facts of a tenant are only said not to exist if the contract said so;
\* every token is shown with what was read or named as unread; blocks come
\* without a gap up to the head; no status is shown of a chain that the address
\* book is not about; a clearance is no higher than the record, nor than a tenant
\* that was read, and one that is shown without a note is what the chain held.
\* The note does not tell which failure it was, and only the status asks for the
\* chain: a clearance or facts that are shown may be of another chain.
MissingIsNamed ==
  \A r \in Readers :
    /\ Finished(r, "facts") /\ Got(r, 1).a \in Failures => Got(r, 1).was = Reverted
    /\ Finished(r, "balances") =>
         /\ Got(r, 1).a = Got(r, 1).was
         /\ \A n \in DOMAIN Tokens : Got(r, n + 1).q.of = Tokens[n]
                                     /\ Got(r, n + 1).a \in {Got(r, n + 1).was} \cup Failures
    /\ Finished(r, "blocks") =>
         /\ \A n \in 2..Len(task[r].got) : Got(r, n).a = Got(r, 1).a - n + 2
         /\ Len(task[r].got) - 1 = Least(Clamp(task[r].arg), Got(r, 1).a + 1)
    /\ Finished(r, "status") => Got(r, 1).a = Got(r, 1).was /\ Got(r, 2).was = BookChain
    /\ Finished(r, "clearance") =>
         /\ Shown(r) <= IF Got(r, 2).a \in Failures THEN Effective(Got(r, 1).was) ELSE Held(r)
         /\ Said(r) = {} => Shown(r) = Held(r)

\* The activity log holds the most recent lines, in order.
LogIsRecent ==
  log = SubSeq(logged, Len(logged) - Least(Capacity, Len(logged)) + 1, Len(logged))

\* What a surface shows of the chain, and of the questions put to it, is what
\* was read and asked: what is missing is named, never shown as something else.
ShownAsRead == MissingIsNamed /\ LogIsRecent

\* The rows of a tenant tree, as they are read.
Rows(got) ==
  Combined([n \in DOMAIN got |-> IF got[n].q.q = "node" THEN << got[n].q.of >> ELSE <<>>],
           Len(got))

\* A tree depth first, from each tenant down so many levels; a circle has more.
Listings(tree) ==
  LET listing[left \in 0..(MaxDepth + 1)] ==
        [id \in DOMAIN tree |->
           IF left = 0 \/ tree[id] = None THEN << None >>
           ELSE << id >> \o Combined([n \in DOMAIN tree[id].kids |->
                                       listing[left - 1][tree[id].kids[n]]],
                                    Len(tree[id].kids))]
  IN  listing

\* A tree that is read while nothing changes is shown whole and in order; and
\* whatever tree the chain holds, and however it changes on the way, a walk
\* goes no deeper than the contract allows, and so comes to an end.
TreeAsItStands ==
  \A r \in Readers :
    /\ \A n \in DOMAIN task[r].got : ~TooDeep(task[r].got[n].q)
    /\ Finished(r, "tenancy") /\ task[r].since = changes /\ world.root # None =>
         Rows(task[r].got) = Listings(world.tree)[MaxDepth + 1][world.root]
=============================================================================
