# Citrate Quorum in TLA+

Citrate Quorum is a Tauri desktop app for the governance of AI agents: an agent
asks before it acts, a policy engine answers from the grants humans issued, a
human answers what policy will not, and every decision becomes a record of a
hash chain on disk. Beside that ledger stand meetings, vote allowances and
rooms, and a pipeline that turns a written policy into a contract of the
tenant's chain. This directory models the parts in which something can go wrong
over several steps, checks them with TLC, and proves with TLAPS what matters
most in each.

## 1. Inventory

Paths are relative to `src/`; `backend.rs`, `store.rs`, ... are under
`src-tauri/src/`, crates under `src-tauri/crates/`.

| Component | State | Operations | What makes it correct |
|---|---|---|---|
| Governed-action pipeline (`backend.rs`) | grants, charges, queue of escalations, answers, chain, per tenant, behind one mutex; the degraded latch; the active tenant | evaluate_and_record, approve_decision, reject_decision, decision_status, issue_grant, revoke_grant, set_active_tenant | budgets hold; each answer has a question and a record; nothing acknowledged is lost; no authority without a record |
| Policy engine (`quorum-policy`) | pure | evaluate, covers, consume, refund, cast | the first covering grant decides; a revoked or expired one decides nothing |
| Evidence store (`store.rs`) | one directory per tenant: `chain.jsonl`, `chain.count`, one JSON file per set | append_record, load_chain, save/load of each set | what was written is read back or refused |
| Audit chain (`quorum-audit`) | sequence of records with running hashes | append, verify, merkle_root, merkle_proof | only consistent records; proofs verify against the root |
| Meetings (`quorum-meetings`, `backend.rs`) | a list of meetings per tenant, `meetings.json` | schedule, admit, open, close, content hash, ratify, register intent | quorum, clearance of the room, complete minutes, immutable once ratified |
| Vote allowances (`backend.rs`) | `allowances.json` | issue, cast, revoke | the cap is a cap; revocation is final |
| Agent bridge (`agent_bridge.rs`, `lib.rs`) | the files a launch publishes (token, endpoint); one thread per connection | `POST /intent`, `GET /decision/{id}` | the answer given is the answer to the question asked; only the session's token is served |
| Vendor adapter (`quorum-adapter`) | per call: address, token, decision id, deadline; one MCP proxy | discover, gate_call: submit, poll, give up | only a yes proceeds; a call is recorded once and comes to an end |
| Rooms (`rooms.rs`) | seats, a pending login, rooms, transcript, behind an async mutex held across calls to the relay | connect intent/complete, open, say, events, leave, evict | no agent seat without a room; MR-4 at admission; the roster is who is in the room; what is said is said there, and shown once |
| Authoring pipeline (`ingest`, `interview`, `spec`, `compile`, `simulate`, `ctor`) | one interview file and one file on the documents per policy | ingest, answer, confirm, revise, compile, simulate | an answer is the operator's and is never lost; nothing that should enforce a rule is set aside; a replay says what it left out |
| Deploy and bind (`deploy.rs`, `bind.rs`, `protocols.rs`) | an intent file per ceremony, a record per policy and stage | intent and completion of a deployment and of a binding, lists of policies and protocols | a human is asked for whole policies only; what is signed goes through; a stage is claimed only when the chain shows it |
| MCP relay (`quorum-adapter`: `main.rs`, `mcp.rs`) | what is on its way, the client's name, one pump thread | stdio loop, HTTP exchange | no tool call unruled, nothing lost or overtaken, each request answered once |
| Chain reads (`chain.rs`, `addresses.rs`) | a ring of activity lines | clearance, node facts, tenant tree, status, blocks, balances | what was not read is said not to be read |
| Sessions and clearance (`quorum-session`, `quorum-clearance`, `quorum-tenancy`) | none | the least of three ceilings at login | no failed read widens what a principal may see |
| Minutes anchor, rbac and licence crates | none | one read; generated selectors | input only |
| Frontend ceremony and escalation feed (`ceremony/gate.ts`, `shell/escalations.tsx`) | the open ceremony; announced ids | run the gate, poll the queue | an action that cannot be gated is refused |

How they interact: adapters post intents to the bridge, whose threads take the
backend's mutex; the frontend's commands take the same mutex, so **operations of
the backend never interleave**. What does interleave is the disk: one operation
makes up to five durable writes, in memory first or on disk first depending on
the operation, and the process may die or a write may fail between any two.
That is the first hard part of this code. The second is what happens *between*
calls: a signature shown earlier, a minutes window opened before a restart, an
id that is used twice, a poll after the tenant was switched, an admission after
the grants were read, a transaction mined after the chain, the interview and the
documents have changed. The third is what runs at the same time outside the
backend: the relay's two threads, and the commands that read the chain, which
hold no lock while they wait.

`PROJECT.json` lists each hazard with the line where it bites and the property
that would catch it, or why none does.

## 2. Modules

| Module | Models | Kind |
|---|---|---|
| `QuorumPolicy` | quorum-policy and the egress policy as operators on grants and requests | pure |
| `QuorumAudit` | verdicts, levels and the consistency rule of a record | pure |
| `Evidence` | Merkle roots, inclusion proofs, the document of a decision | pure |
| `GovernedActions`, `MCGovernedActions` | the pipeline of one tenant, write by write | state machine, model |
| `DecisionBook` | what a tenant's pipeline looks like to those who only ask it: verdicts, waiting escalations, answers, as operators | pure |
| `Decisions` | the promise of the pipeline: rulings, answers and notes are atomic | abstract specification, implemented by `GovernedActions` |
| `Totals` | what the first parts of a list come to: a sum, for what is spent and charged, or one list, for the rows of a tree | pure |
| `TenantLog` | one mutable set and the chain, written through, with crashes and failed writes | state machine, extended by the next two |
| `Meetings`, `MCMeetings` | the lifecycle of meetings on top of `TenantLog` | state machine, model |
| `Franchise`, `MCFranchise` | vote allowances on top of `TenantLog` | state machine, model |
| `AgentGate`, `MCAgentGate` | adapter processes, the published files, the bridge's threads and the human, over a `DecisionBook` per tenant | state machine, model |
| `McpRelay`, `MCMcpRelay` | both MCP proxies between a client and a server, over bounded pipes | state machine, model |
| `Rooms`, `MCRooms` | seats, rooms and the transcript over a relay | state machine, model |
| `GovernanceText` | what is read out of words: markings, counts, durations, levels, names | pure |
| `GovernanceSpec` | interview, draft, compilation, constructor arguments, replay | pure |
| `Authoring`, `MCAuthoring` | ingesting and interviewing on files that a write may cut short | state machine, model |
| `Deployment`, `MCDeployment` | deploying and binding around the ceremony and the chain, extends `Authoring` | state machine, model |
| `ChainReads`, `MCChainReads` | commands that read the chain while it changes, the activity log, the grant resolved at login | state machine, model |
| `GovernedActionsProofs`, `FranchiseProofs`, `MeetingsProofs`, `AgentGateProofs`, `McpRelayProofs`, `RoomsProofs`, `DeploymentProofs`, `ChainReadsProofs` | the theorems about the module each is named after | proofs |

### GovernedActions

An operation is a start (the checks in the order of the code, and the values it
is going to write) followed by one step per durable write. `op.todo` lists the
writes still to make, `op.new` the values. `WriteSet` is `write_atomic` (a
temporary file renamed over the old one, so all or nothing), `WriteRecord` the
append to `chain.jsonl`, `WriteCount` the rewrite of `chain.count` after it.
`Install` changes memory with the write that belongs to it; the code changes
memory just before the write, and since the mutex is held nobody can look in
between. `WriteFails` is the error path of any write: the operation stops there,
`degraded` is set and every later operation is refused. `Crash` ends the process
in the middle of an operation, `Exit` between two; `Restart` and
`SetActiveTenant` reload the files through the checks of `load_chain`.
With `TornWrites` an interrupted append may leave the line without its newline,
or half a line (`Garbage`), as two plain `write_all` calls may.

Decision ids are positions of the chain counted from 1. The clock is an input
of every operation, from a small set of instants in any order: the bridge reads
it before it takes the mutex, so two operations need not see it in order.

Left out: correlation ids and hashes of parameters (never compared), the several
tenants of one installation (each has its own directory and its own entries of
every map, and no operation reads another's), adoption and quarantine of a
foreign evidence directory.

### Evidence

`EveryDecisionProvable` asks, of every chain the pipeline can produce, that the
document the Ledger shows for each decision carries a proof that verifies
against the root and names the record. A hash is the tagged tuple of what was
hashed, so BLAKE3 is taken to be injective and leaves are told from nodes by
their tag, as the code does with its domain bytes. An odd level pairs its last
node with itself, in `NextLevel` and in `Sibling` separately: they are two
pieces of code that must agree. Which record can be told from which by its root
is not claimed: a root does not commit to the length of the chain (a chain with
an odd level has the root of the same chain with its last record twice).

### TenantLog, Meetings, Franchise

Meetings and allowances follow a simpler pattern: change the set in memory, save
it, perhaps append one record. `TenantLog` models that pattern once. An append
reaches the log whole or not at all, because `GovernedActions` already covers
what a torn one does, and a restart always finds its scope. Note the difference
between the two: here memory changes at the *start* of an operation, as in the
code, since a save that fails leaves the change in memory behind.

An allowance id may be issued again, which overwrites its entry. `Franchise` keeps
with each id the list of what was issued under it, and the number of the issue in
each record: only the last of the list is in `allowances.json` (`InForce`) and no
operation reads another, so the earlier ones are history, there for the properties
to say what became of a delegation that is no longer in the file.

A hash is modelled by the value it is the hash of (`Content`). Record kinds of
the other subsystems are one `OtherAction`.

### DecisionBook, Decisions, AgentGate

`AgentGate` needs the pipeline only as something that numbers decisions, queues
escalations and takes answers. That view is `DecisionBook`; `Decisions` is the
state machine on it, and `KeepsDecisionBook` says that `GovernedActions`
implements it through the mapping `BookView`: an operation takes effect when it
starts, its writes are stutters. So `AgentGate` leaves the verdict on an intent
open and does not look at grants.

A launch of the app is a session; the address and the token it publishes are
both written as its number, and a file is empty (`Truncated`) between being
opened and being written. A hook (one process per tool call) reads the two files
in two steps, so a relaunch may come between them; the MCP proxy reads them
once, when it starts. A hook that cannot read its call, or reads none with a
tool's name, exits with no objection before it looks (`StandAside`,
`main.rs:130-137` and `428-435`), and so does one whose environment names no
directory of the app (`lib.rs:91-93`): that call runs unjudged. A call then goes through submit, verdict, and the loop of
deadline, sleep and poll. Replies may be lost with the app or come after the
read timeout, while the thread that holds the intent goes on to record it.
`Exit` stands for a clean exit and for the death of the process alike: neither
file is removed in either case.

`rulings`, `said`, `installed` and `crossed` are histories the properties are
about. `crossed` holds the calls that were under way when the operator changed
the active tenant: polls name a decision by number only and are answered from
the active tenant, so after a change a call may act on the answer to another
tenant's decision of the same number. `OutcomeEarned` excludes those calls and
`agent_gate_scope` shows that no other call is affected.

Left out: another process that takes over the port of a dead session; a failure
to write `endpoint.json`, which the app ignores (it then looks like an app that
was never set up); the formats of hooks and of JSON-RPC.

### Rooms

A seat is a session with the relay: the groups it is in, the one it entered
last, the Welcomes and messages it was pushed. The rooms' mutex is held across
the calls to the relay, so `op` is the one opening under way, call by call;
every other operation is one action that needs `Free`. MR-4 is judged before
that mutex is taken: `AskToOpen` is the judgement, `StartOpen` the moment the
mutex is got, and `GrantsChange` may come at any time; it marks the agent in
every request and room it was judged for, which is what `MembersCleared` allows
for. `OpenFails` is the error path of any of the calls. `Drain` is `rooms_events`
finding one envelope; a call that finds more is several of them, nothing comes
in between that could not have come before.

The sessions themselves (`comms-session`) are not in the repository. What the
model takes from the way `rooms.rs` calls them: `join_next_channel` uses the
oldest Welcome, `send_text` sends to the group entered last, an envelope of any
group the session is in is decrypted. Whatever group `send_text` picks, it is not
told the room, so with two rooms one of them gets what was said in the other.
What `join_next_channel` picks matters to the condition of
`RosterIsLive`. Agents and operators have different names (`SeatsDistinct`).

### McpRelay

One client, one server, and the proxy in between, started over stdio or over
HTTP and with or without a governing app (`transport` and `governed` are chosen
at the start). Over stdio the loop (`pc`) reads a line, decides, asks the gate
and waits, refuses or forwards, while `Pump` is the second thread; the pipes
hold `Cap` messages and a full one blocks its writer. Over HTTP one exchange is
made at a time, and `Pump` is the copying of its response. `ServerDies` may
happen at any moment. At the end of the client's input the server's input is
closed, the server and then the pump are waited for, in this order. The gate is
`AgentGate`'s; here it takes a step of its own and gives any outcome.

Left out: the bytes of JSON-RPC, headers other than the routing one, and a
client that does not read its answers.

### GovernanceText, GovernanceSpec, Authoring

A text is a sequence of tokens; what the parsers do with the tokens is modelled,
how a line is split into them is not. `GovernanceText` holds the parsers of
`ingest.rs` and `compile.rs`, `GovernanceSpec` what is built from them: proposals,
the draft, the disposition of each clause, the constructor's guards and the
replay. Both are pure and are evaluated in every state of `Authoring`. The lists
of clauses the code builds are functions from places in the interview: the draft
has the places that were answered, and compiling divides them by disposition, so
their order is that of the interview and "the first mapped clause" the one with
the least place.

`Authoring` is about the files. Interview and document levels are rewritten in
place by a plain `fs::write`, and a file that does not parse is read as none:
`Torn` stands for such a file, and each command has a disjunct in which its
write is cut short. `said` is the history `EverythingSaidIsKept` compares with;
it starts again when the file is torn, since nothing in the code prevents that
loss.

Left out: extraction of text from PDF and office formats (a document either has
text or is refused), digests, and the naming of specs.

### Deployment

The intent checks on the chain what the chain will check, tries the call out
(`DryRun` is `eth_call`), raises the ceremony and saves what the human is shown;
the completion takes a ceremony and any transaction hash, reads the receipt and
the state of the chain, and records the stage. In between others change the
chain, the interview goes on, documents are ingested. `chain` and `txs` are the
factory, the registry and the policy binding as the commands use them,
`ceremonies` the kit; neither is in the repository. `Protocol` is what a bound
protocol may answer a probe, a verdict the app does not know included.

`chain.version` counts the changes of the chain. It is what lets
`ApprovalIsNoGamble` speak of a signature that comes while nothing happened.
`OwnHashes` can restrict completions to a ceremony's own transaction; the run
leaves it off, as the code does.

### ChainReads

A command is a sequence of questions to the node. It holds no lock, so other
commands and the chain itself step between two of them, and any question may
fail in two ways (no answer, an answer without a result) besides being refused
by the contract. `got` collects the answers, and beside each what the node held
at that moment (`was`), which is what the properties compare with. The login
grant of `quorum-session` is the function `ResolveEffectiveGrant` of two such
answers and an entitlement.

A command whose address book is unreadable, or lacks the endpoint or the
contract, ends before it asks anything (`Unbooked`); the tenant tree is then shown
as absent if it is the contract that is missing. What a surface says beside a
clearance is the set `Notes`: that the record was not read, that there is no node
for the tenant, or nothing. The book's chain is compared with the endpoint's in
one place, when the status is asked for (`GoesOn`).

Left out: ABI words, and what a note says beyond that. No command of this commit calls
the resolution at login; it is modelled as its tests and documentation call it.

## 3. Runs

Deadlock checking is off: the bounds on chains, crashes, launches, ceremonies
and failures end every behaviour, and an installation may simply never be used
again.

Two runs assume fairness, for their liveness properties.

* `agent_gate`: each call's adapter process and the bridge's threads go on when
  they can (they are threads of the operating system, none holds a lock while it
  waits for another), and a finite deadline passes. Read timeouts are bounded,
  which says that a reply that is asked for again and again is read at last.
  Nothing is assumed of the human, of the app (it may stay down for ever), or of
  an agent that has not yet called.
* `mcp_relay`: the loop and the pump run, the gate's calls end (which is
  `EveryCallEnds` of `AgentGate`), and the server is fair to its client.
  Nothing is assumed of the client, and `EveryRequestAnswered` promises nothing
  once the server has died.

The backend alone has no liveness property, because nothing in it is scheduled:
an operation runs when called.

| Run | Shows | Bounds |
|---|---|---|
| `governed_actions` | the budget books balance, the polled status agrees with the evidence, nothing is approved that was not asked, every decision has an inclusion proof, and the pipeline implements `Decisions` | chain of 5, orderly restarts, no faults |
| `governed_actions_faults` | memory mirrors disk or the process is degraded, acknowledged records survive and are served or the tenant is refused, budgets hold, revocations stand | chain of 4, a crash and a failed write, either of which may tear an append |
| `meetings` | the quorum judgement stays true in a room that may carry the meeting, minutes are complete across restarts, only shown content is ratified, what is ratified or registered stays so on record | 1 meeting, every kind of visitor, 1 seat, chain of 3, a crash and a failed write |
| `franchise` | caps hold, spent weight and recorded votes agree, revocations are final | 2 allowances, either issued up to twice, chain of 4, a crash and a failed write |
| `agent_gate` | one ruling per call, no stale token, no hook that reads its call takes Quorum for not installed once it was, every call ends, a patient one learns its answer | a hook and a proxied call, 2 launches, 1 read timeout, 2 records |
| `agent_gate_scope` | a call acts on its own decision only, although numbers repeat between tenants | 2 hooks, 2 tenants, 1 change of scope, 1 launch |
| `mcp_relay` | nothing unruled reaches the server, nothing is lost, repeated or overtaken, a call is judged under its client's name, every request is answered | 4 messages (a handshake, two calls of differently named clients, a batch that hides a call), pipes of 1, 1 death |
| `rooms` | whoever decrypts an open room is cleared for it, rosters tell the truth, closing and evicting sweep, nothing is shown as said twice | 1 operator, 2 agents, 2 levels, 2 groups, 2 logins, 2 changes of grants, 1 failed opening, 1 message |
| `authoring` | no answer is lost while its file is whole and none is a document's, no rule is set aside, a replay accounts for every decision and clause | the 7 topics with 2 to 4 answers each, 4 answers given, 1 batch, 1 cut write; 3 registries and 2 histories in each state |
| `deployment` | a human is asked for whole policies only, a signature goes through unless the chain changed, what is recorded as deployed or bound was signed and is so on the chain | 1 policy, 2 topics, 3 answers, 1 batch, 1 cut write, 3 ceremonies, 1 change by others |
| `chain_reads` | no failed read widens a grant, what is missing is named, a clearance without a note is what the chain held, a tenant tree comes to an end and is whole when nothing changes | 2 readers, 2 commands, 2 failures, 1 change, a log of 2 lines, 3 chains (a tree of 4, a circle, none); the readers are alike, so symmetric |

The bounds are enough for the questions asked: a decision, its answer, the
opposite answer and a revocation fit in a chain of 4 or 5, one agent with two
grants is enough for the choice of the covering grant and for a refund to go to
the wrong one, and a single crash and a single failure reach each gap between
two writes of each operation. Two crashes would matter only to a property that
a recovery disturbs, and a recovery here is a plain reload. Two launches are
what it takes to hold a stale address or token; two records, for the number of
one call's decision to be taken by another's. A pipe of one message is full as
soon as anything is in it, so both threads of the relay block wherever they can.
Three ceremonies are a deployment and two bindings in flight at once; one change
of the chain reaches every gap between an intent, a signature and a completion.
Two readers of a question each are all the interleaving there is between
commands that share only the activity log. One seat is enough for the quorum of
one that the meeting asks for; a second one only makes a list longer.

Every property of a passing run has a mutant in `PROJECT.json`: a plausible bug
of the code, written beside the definition it changes, that makes TLC find the
property violated.

### Where the code does not do what its text says

`ratified_changed` checks one sentence of the repository, "Signed. Immutable from
here." of `quorum-meetings`, and TLC finds it violated: closing a ratified meeting
again is refused, but its decisions have been replaced by then, and the content
hash is no longer the one that was signed. The trace is short and worth reading.

The same models show gaps that have no run of their own. They are why some
properties above are stated for executions without faults, or for the inputs
their run names, and each comes back when that condition is dropped.

In the pipeline and its evidence:

* `evaluate_and_record` saves the question before the record it is about. A crash
  in between leaves a question whose number the next decision will take, and
  approving it approves that decision, which nobody asked about
  (`ApprovedWasAsked`).
* `approve_decision` saves the queue, then the answers, then appends the record.
  A crash after the first leaves an escalation that is neither queued nor
  answered (`KeepsDecisionBook`); an append that fails after the second leaves the
  agent polling "approved" with no record behind it (`StatusHonest`). Both are
  checked in `governed_actions`, which has no faults.
* An approved decision can still be rejected, and an escalation rejected twice:
  both answers are in the evidence, the later one is served.
* A crash inside an append may leave half a line, or a line without its newline
  that the next one is glued to; `load_chain` refuses the log from then on. No
  record is lost, none is served (`AckedSurvives`), and the tenant is out
  of reach until somebody repairs the file.
* A rejection saves the refunded grants, then the charges. After a crash in
  between the charge is still there and a second rejection pays it back again
  (`BudgetBalanced`; `WithinBudget` holds, a refund never goes below zero).
* A grant issued with a blank issuer is installed although the call fails
  (`GrantPlan`).
* A denied action keeps the id of the grant it was denied under and is charged
  to it; `BudgetBalanced` counts that charge like any other.
* A proof of inclusion is made against the root of the chain as it stands, not
  against one that was anchored, and the root does not commit to how many records
  it covers.

In meetings and allowances:

* A human admitted to a meeting twice counts twice towards `min_humans`
  (`QuorumStands` counts seats, as the code does).
* `issue_allowance` under an id in use replaces the allowance, nothing spent and
  not revoked (`backend.rs:2207`); `issue_grant` refuses that (`backend.rs:2090`).
  So more than one cap may be spent under an *id*, and an id that was revoked may
  vote again, once a human has issued it again. `SpendingMatchesVotes` and
  `RevocationHolds` are about each *delegation*: they hold of every issue of an
  id, the overwritten ones included, and say nothing of its issues together. If
  the process dies before the new issue is recorded, the log shows votes after a
  revocation and no issue in between.
* `ratify_meeting`, `cast_vote` and `issue_allowance` save before they record: a
  crash or a failure in between leaves a ratified meeting, a spent weight or an
  allowance nobody is recorded to be behind (the last parts of
  `RatificationsOnRecord` and `SpendingMatchesVotes` are about executions without
  one), and a save that fails leaves a ratification in memory that the chain
  registration is built from.

Between an agent and the app:

* A polling call may proceed on another tenant's approval after the operator
  changed the scope (`OutcomeEarned` is about calls that were not under way).
* With the default wait of zero the refusal says "ask for it to be approved and
  retry" (`quorum-adapter/src/lib.rs:289-291`), but the retry is a new decision,
  charged and escalated again: the approval of the first lets nothing run.
* An intent whose reply takes longer than the read timeout is refused by the
  adapter, but recorded, charged and possibly approved all the same.
* A proxy started before the app was ever set up relays ungoverned for as long
  as it runs (`GovernedOnceInstalled` is about hooks).
* `install-claude-hook` prints that "Every tool call then passes the Quorum gate
  before it runs" (`main.rs:196`), but a call whose payload the hook cannot read or
  parse, or that names no tool, is let through, while the app runs too; the comment
  at `main.rs:132` says that this is meant ("do not pretend to have judged it").
  `GovernedOnceInstalled` and `NoHookStandsAside` are about the calls a hook does
  look for a gate for.
* The HTTP proxy judges each call by a fresh identity (`main.rs:599-604`), though
  `mcp.rs:79-81` says that the identity observes every client message: a name
  given in the handshake is not that of later calls (`JudgedAsItself` is about
  stdio). It also makes one exchange at a time.
* The stdio proxy waits for the client's next line after the server has died: the
  request that was under way is never answered (`EveryRequestAnswered`).
* While the gate decides on a call, nothing else the client sends gets past, a
  cancellation of that call included. A refused batch is answered with a null id,
  which its requests cannot be matched to.

In rooms:

* One session serves every room of a seat and `send_text` is not told which one
  is meant (`rooms.rs:812`): with two rooms open, what a member says in the first
  is sent to the second, while the transcript files it under the first.
* An opening that fails after the group was created leaves Welcomes behind: the
  next opening with the same agent lists it on the roster of a group it is not in
  (`RosterIsLive` without its condition, one failed opening and two groups). Seats
  that logged in stay connected until a room is closed or an agent evicted
  (`ClosingSweeps`).
* An agent evicted from one of two rooms keeps its session, and goes on
  decrypting the room it was evicted from (`MembersCleared` covers it, the
  roster does not).
* A message whose sender lost its seat before another seat drained it is shown a
  second time, under the sender's address (`SaidOnce` is about names); two
  operators' names on one wallet are mistaken for each other.
* A completion that arrives with an older ceremony's id uses up the login that
  waits: both signatures were given and neither opens a session.

In the authoring pipeline:

* The interview is rewritten in place (`interview.rs:421`): a write that is cut
  short makes an interview nobody has answered of it, and the next answer buries
  what was there (`EverythingSaidIsKept` starts again).
* Ingesting another batch replaces the level of the documents by that batch's
  alone: a public note after a controlled memo lowers it, and the deployment gets
  the lower ceiling, although `deploy.rs:147-152` says that a ceiling may not be
  lowered to fit. `AskedForWholePolicies` says "the last documents".
* An interview that is not finished compiles and deploys when the answers given
  so far do; only the first mapped clause is deployed; a text may map by accident
  ("two approvers unless friday" is a threshold of two, and the condition is
  gone), although `compile.rs:9-14` promises otherwise.
* A clause on roles from which no number can be read asks for one approver
  (`compile.rs:274`), although `compile.rs:253-254` says that a parser that fails
  is the whole answer.
* The replay splits the scope into classes (`simulate.rs`), the deployment binds
  the whole text of the clause as one class: what was replayed is not what is
  bound when the scope names two.
* The intent is saved after the ceremony was raised (`deploy.rs:541-575`), where
  the comment says before: a write that is cut short leaves a human with a
  ceremony that can be signed but never completed.
* A binding is completed with any successful transaction of the contract
  (`bind.rs`): with two in flight, the record of one may be written from the
  transaction of the other, a refused one's included, although
  `protocols.rs:135-136` says "Written only after the chain has confirmed it"
  (`RecordsWereSigned` excludes it). The stage "bound" is the presence of that
  record and is never taken back, not even by a new deployment of the policy.
* The predicted address covers parameter and approvers, not the ceiling: a
  deployment may be completed with the transaction of another ceremony for the
  same address, at the ceiling of its own intent.
* One unreadable record hides the policies of all protocols that are read after
  it (`protocols.rs:372`), and an unreadable bind intent hides a signed class.
* The stages `deploy-pending` and `bind-pending` are documented and never
  produced.

On the chain:

* The clearance a surface shows is not bounded by a tenant that could not be read
  (`chain.rs:1087-1090`), although the doc says that it fails closed in every
  direction (`chain.rs:1034-1036`); `ShownAsRead` states the bound that is there, and that
  a clearance shown without a note is what the chain held. The grant at login does
  fail closed (`ReadFailureNeverWidens`).
* Without a contract for tenants in the book, a clearance is bounded by none and
  nothing is said of it (`chain.rs:1091`), although the note is documented as present
  when "the contract" is absent (`chain.rs:1015-1016`).
* The note of a clearance does not tell failures apart. The doc says that each "says
  which one happened rather than sharing a sentence" (`chain.rs:1034-1036`); but the
  reader of a tenant's node gives a ceiling or none, whatever went wrong, and
  `clearance` says of none that the contract "holds no node for tenant"
  (`chain.rs:1091-1097`). An endpoint that fell silent after the first question is
  shown as a tenant to be created, which `chain.rs:963-966` says of the same question
  must not happen. `Notes` models it: "no node" stands for either, and for a ceiling
  that is no level. `ShownAsRead` claims that something is said, not that it is right.
* The chain that is read is compared with the book's by the status alone
  (`chain.rs:348-358`). The facts of a tenant, the tree, the clearance, the balances and
  the blocks are read from whatever chain the endpoint is on; the first three name
  the book's as their source ("the contract, chain and book this came from",
  `chain.rs:923`). `ShownAsRead` claims the comparison of the status only.
* The activity log is said to hold every RPC issued (`chain.rs:70-72`); the
  clearance reads and answers without a result are not in it.

## 4. Proofs

Each theorem holds for all values of the constants that satisfy the named
assumptions of its module (typed inputs, distinct names, bounds in `Nat`), so
for any number of crashes, failed writes, torn appends, calls or ceremonies (but
for the four theorems that are said to assume none). In each the property is
strengthened to an invariant that is inductive; each action has a step or a lemma
of its own, and only the last step is temporal.

`GovernedActionsProofs`
* `TypeCorrect`: `Spec => []TypeOK`. Memory, disk and the operation in progress
  are typed together: a step installs `op.new`, so `op.new` must be typed, and
  the chain the log gains a line from must be non-empty whenever a chain write
  is to be made. That is the strengthening the proof carries.
* `BudgetRespected`: `Spec => []WithinBudget` (CG-1). No grant, in memory or on
  disk, ever consumes more than its budget. The inductive invariant adds the
  same bound for `op.new.grants`, the values not yet installed; the work is in
  lemmas about the helpers: a grant that covers a cost has at least that much
  left, charging adds no more than that, and a refund never leaves a grant
  below zero or above what it had.
* `WriteThrough`: `Spec => []MemoryMirrorsDisk`. `MirrorInv`: a file the operation
  in progress has no write left for is equal in memory, on disk and in `op.new`,
  and the record it is about to append extends the log it was hashed onto. Every
  operation starts with nothing owed (`Starts`), every write pays one part of it,
  and a crash in between is followed by a load that makes memory the disk again.
* `DurableBeforeSuccess`: `Spec => []AckedSurvives`. `AckInv` adds to the mirror
  that an acknowledgement is counted only after its record is in the log.
* `RevocationIsFinal`: `Spec => []RevocationStands` (CG-2). The plans of all
  operations write the grants before the record, so `RevokeInv` can say of every
  chain that may come to stand beside a copy of the grants (in memory, on disk,
  in the operation) that it is settled in that copy: what it revokes is not in
  force, and it decides nothing under a grant after revoking it.
* `ImplementsDecisionBook`: with `MaxCrashes = 0` and `MaxFailures = 0` (exits and
  restarts stay), the pipeline implements the book of decisions, which is
  `KeepsDecisionBook`. The book is the view of `op.new` while an operation writes
  and of the disk otherwise: an operation is one step of the book where it starts,
  and each of its writes is a stutter. With faults the refinement is not claimed:
  an operation that fails half way is no step of the book.
* `AgentsAreToldTheTruth` and `OnlyEscalationsApproved`: `StatusHonest` and
  `ApprovedWasAsked`, under the same assumption, from `AnswerInv` (what is about
  to be recorded of an answer) and `CalmInv` (the queue of the book holds only
  escalations on record).
* `BooksBalance`: `Spec => []BudgetBalanced`, under the same assumption, since a
  crash between the grants and the charges leaves units that nobody can give back
  (section 3). `Balanced`: grants have names of their own, each has consumed what
  is outstanding under it, and every charge is to a grant that exists and is of
  that agent. So a refund finds exactly the grant that paid, and never has to stop
  at zero. `OutstandingChanges` says what replacing one charge does to the sum.
* `ProofsAreOfTheirRecords`: `Spec => []EveryDecisionProvable`, whatever the faults.
  It holds of every chain (`ProofIsOfItsRecord`): each level above the leaves is
  shorter until one has a single node (`LevelsShrink`, `TreeHasARoot`), a branch
  stays within the levels (`BranchWithin`), a proof's step takes a node to the one
  above it, the last of an odd level included (`OneUp`), and a hash keeps different
  contents apart, so the climb from the proof's own record meets the branch at
  every level and the climb from any other content at none (`ClimbFollowsBranch`).

What is computed by a loop is a recursive function here (`Totals`, the levels and
branches of `Evidence`, the climb of a verification, the listing of a tree). Its equation is not given but
proved: by the least number for which there would be no such function
(`PartialExists`, `LevelsExist`, `ListsExist`), and facts about all its values likewise.

`FranchiseProofs`
* `RevocationStays`: `Spec => []RevocationHolds` (VA-2), of every issue of an id,
  however often ids are issued again. `RevInv` adds types, that a recorded revocation is in force
  both in memory and on disk, and what the record *about to be appended* may be:
  a revocation is in force in memory already, and on disk once the save is made;
  a vote is of an allowance nobody revoked. Without that last part the step that
  appends cannot be proved, and a save that fails would break it.
* `SpendingStaysCovered`: `Spec => []SpendingMatchesVotes` (VA-1), again of
  every issue of an id. A vote's weight is spent in memory, then on disk, then recorded, so
  the votes on record, with the one that is about to be recorded, weigh no more
  than the file has spent and the file no more than memory (`Ledger`); and as long
  as nothing failed they weigh exactly that (`Calm`). The lemmas on `VotesWeight`
  say what a record more adds to the sum.

`MeetingsProofs`
* `OnlyWhatWasShown`: `Spec => RatifiedAsSeen`. `ShownIsSeen` says that what an
  open ceremony displays is in the history, and that meetings have their fields
  wherever they are kept. The step of `Ratify` then compares hashes and shows that
  ratifying changes nothing the hash covers; no other step ratifies.
* `RecordedIsRatified`: `Spec => []RatificationsOnRecord`, if `None` is not itself
  a meeting (`NoneIsNoMeeting`). `RecordInv` has five parts: what is ratified on
  disk is so in memory, by the same human (`DiskBehind`); what is on record is
  ratified on disk (`OnRecord`); a record about to be written is the first of its
  meeting (`FirstOfItsMeeting`); where nothing failed, a ratified meeting has its
  record or is about to (`RecordFollows`); where no save failed, what is ratified
  in memory is about to be on disk and what was registered is (`RegisteredStays`).
  The last two name their own premises, since the code does not keep them without.
* `TheVerdictStands`: `Spec => []QuorumStands`. The judgement of every meeting, in
  memory and on disk: nobody joins a meeting that is closed, and nobody attests
  who is not cleared for its room, so what was counted at the closing stays the
  count.
* `MinutesQuoteTheRecord`: `Spec => []MinutesComplete`, if `None` is neither a
  meeting nor a position (`NoneIsNoPosition`). `MinutesInv`: whenever an operation
  may start, memory and disk have the same log; a meeting on disk is never ahead
  of the one in memory; and a log that only grows at its end keeps the window
  between two of its positions. A restart between opening and closing is a reload
  of the position with the log it points into.

`AgentGateProofs`
* `NoCallRuledTwice`: `Spec => []RuledOnce`. `AskedOnce`: a call that has not
  been submitted has no intent at the bridge and no ruling, at most one intent of
  a call is held, and none once it was ruled on; a submitted call never becomes
  one that was not.
* `OutcomesAreEarned`: `Spec => []OutcomeEarned`, and `TokensAreCurrent`:
  `Spec => []TokenCurrent`. Both follow from `EarnedInv`: an address is known only
  once its token is in the file, so a call that reaches the running session has
  that session's token (`Placed`); a call listens only to a thread of the session
  it reached, and while that session runs and the scope stays, the tenant its
  ruling is in is the one its polls read (`Heard`); an answer that stands in a book
  was given by a human (`BookInv`). `None` is assumed to be none of the sessions,
  replies, outcomes and tenants (`NoneIsNothingElse`).
* `NoHookStandsAside`: `Spec => GovernedOnceInstalled`, an action property. It adds
  that only a session that runs publishes, and that what was published, the
  emptied file included, is never taken back (`InstalledInv`); then no hook that
  looks finds no file. A hook that does not look (`StandAside`) ends as "unjudged",
  of which nothing is claimed.

`McpRelayProofs`
* `NoCallUnruled`: `Spec => []NothingUnruled`. What waits in the pipe and what the
  relay is about to write was ruled on too, and the gate is asked only about a
  message that hides nothing (`RelayInv`).
* `CallsAreJudgedAsThemselves`: `Spec => []JudgedAsItself`. What is left in the
  inbox is the end of what was sent, so the relay has read the rest; over stdio the
  name it knows is the last one in the rest, and each question was asked in the
  name known there (`NameInv`).
* `NothingIsOvertaken`: `Spec => []OrderKept`, which is about a server that did not
  die over stdio. `HandInv` places the message in hand: it is the last that was
  read, what is being refused may not go through and what is being forwarded may.
  Then what the server took, what waits in its pipe and what is in hand are, one
  after the other, the messages read that may go through.
* `EachIsAnsweredOnce`: `Spec => []AnsweredOnce`, when a client gives each request
  an id of its own (`IdsDistinct`). `PlaceInv`: a request that was read is in one
  place at most (in hand, in the pipe to the server, in the server, in the pipe
  back, answered), once; `EndInv`: when the relay has stopped of its own accord,
  all those places are empty.

`RoomsProofs`
* `OnlyTheClearedHear`: `Spec => []MembersCleared` (MR-4). `Admitted` follows a
  session's way into a group: requests and openings were judged, whoever an
  opening still needs holds a seat with the Welcome it is to use, groups are
  numbered in order, and every group or Welcome an agent holds is one it fits.
* `ClosingLeavesNoSeat`: `Spec => ClosingSweeps`, an action property, from the
  same invariant: only `Leave` and `Evict` shorten a roster, and both prune.
* `RostersAreLive`: `Spec => []RosterIsLive`. `LiveInv` adds, as long as no opening
  failed, that nobody holds a Welcome but to the group being opened (a session
  takes the oldest), that those who are done joining are in it, and that an
  operator who waits for a signature has no seat, so that no login replaces one.
* `NothingIsShownTwice`: `Spec => []SaidOnce`, with one operator to the wallet of
  the app (`OneOperator`): a second one would share its address, and then the
  first seat found is named for either. `TalkInv`: whatever waits in an inbox was
  said by its sender; a line that is there already is not shown again.

`DeploymentProofs`
* `SigningGoesThrough`: `Spec => []ApprovalIsNoGamble`. No ceremony was raised on a
  version of the chain that is yet to come, and everything that could turn an
  accepted call into a revert makes a new version (`Tried`).
* `HumansAreAskedForWhole`: `Spec => AskedForWholePolicies`, an action property.
  Only `DeployIntent` raises a deployment, and its target is the mapped clause with
  the least place, so it is a clause of the draft that is not structural and whose
  parameter was read; what the constructor takes is in its guards.
* `RecordsAreOfSignedCalls`: `Spec => []RecordsWereSigned`. `RecordInv`: every
  ceremony has its intent, or a file that does not parse, and every transaction a
  signed ceremony with its call (`Paired`); what is bound on the chain a human was
  asked for, and what was mined is bound (`BoundInv`); as long as one binding was
  raised, the class was ungoverned when the human was asked, so what the completion
  reads afterwards is what that binding changed (`SoleInv`). The chain may change
  in between, and completions may name any transaction.
* `NothingIsSetAside` and `ReplayHidesNothing`: `RulesAreNotSetAside` (R-A) and
  `ReplaysAreHonest` (R-B) for `AuthoringSpec`. They hold of any interview
  whatever: a disposition says what kind of clause it is of (`DispositionSays`),
  and the outcomes of a replay divide the history (`CountedApart`).
* `AnswersAreKept`: `AuthoringSpec => []EverythingSaidIsKept`, if what stands for an
  unreadable file is not itself an interview (`UnreadIsNoInterview`). `SaidInv`: what
  is read of each policy is what was said since its file was last torn, by the
  operator. `Tell` appends to both, documents touch neither.

`ChainReadsProofs`
* `NoReadFailureWidens`: `Spec => []ReadFailureNeverWidens`. The invariant is about
  the three stages of a login, each answer being what the node held or a failure;
  then a failure on either axis leaves Public, which is permitted in any case.
* `WhatIsShownWasRead`: `Spec => []ShownAsRead`. `OnScript`: the answers a command has
  got and the questions it still has to ask are its script, in order, which is what
  ties each answer to what is shown for it; a clearance without a note had both
  questions answered, or had no contract to ask about the tenant, and is then what
  the chain held. `LogInv`: the ring of activity lines is the end of all that was
  logged. The theorem says nothing about which failure a note stands for, and of
  another chain only that no status is shown of it: the code keeps no more. It rests on `ReadKinds`: heights are numbers, the
  address book lists its tokens, and a refusal can be told from a silence.
* `TheTreeIsShownWhole`: `Spec => []TreeAsItStands`. `Whole`: the rows a walk has
  read, followed by what each of its open questions is going to add, are the tree
  depth first, for as long as the chain is what it was when the walk began. A node
  promises its own row and what is below it, a question for children the listings
  of these (`AnswerKeepsPromise`), and taking up the new questions before the old
  ones keeps the order (`WalkHears`). It rests on `TreeKinds`: a tenant's children
  are a list of names that can be asked about.

Only model-checked: the properties of the four theorems of `GovernedActions` that assume no faults,
where crashes and failed writes are allowed and the property still claims
something; the authoring half's three theorems where deployments are under way as
well (they share no variable but the count of torn writes); `SaidOnce` with several
operators; and what has no theorem. That is `EveryCallEnds`, `AnswerReachesAgent`
and `EveryRequestAnswered`, since liveness under fairness is out of the prover's
reach. Every invariant and every action property that a run checks is stated by a
theorem.

## 5. Plan

What is left, in order of importance:

1. The theorems of `GovernedActions` that assume no faults, with what is left of
   them when some operations fail: which budgets a crash can leave unbalanced, and
   by how much.
2. `EscalationFeed`: the four second poller of the queue in the frontend, over
   `DecisionBook`: each escalation is announced once, also after a change of
   tenant.
3. The quarantine of a foreign evidence directory in `store.rs`.

## 6. Not modelled, and why

The signature ceremony, custody and sign-in live in `citrate-core-kit`, MLS and
the relay in `citrate-comms`: neither is in this repository, and both are seen
only as the code calls them. The minutes anchor is one stateless read. Generated
RBAC selectors and the licence stub have no behaviour. The surfaces render, and
the bridge types marshal. Extraction of text from documents, ABI encoding,
digests and the byte formats of files are functions on data that tests reach
better than a model checker. The workspace path and the agenda and journal
sources only supply the text of an agenda.
