----------------------------- MODULE Deployment -----------------------------
(***************************************************************************)
(* The second half of the authoring pipeline: deploying a policy and       *)
(* binding it to its action class.  Each is done in two phases.  The       *)
(* intent checks on the chain what the chain will check, raises a ceremony *)
(* and saves what the human is shown; the completion is given a ceremony   *)
(* and the hash of a transaction, asks the chain what that transaction     *)
(* did, and records the stage.  In between a human signs or refuses, and   *)
(* everything may change: the chain, the interview, the documents.         *)
(*                                                                         *)
(* The chain and the ceremony kit are outside this repository: both are    *)
(* modelled as the commands use them.                                      *)
(***************************************************************************)
EXTENDS Authoring

CONSTANTS
  MaxCeremonies,   \* bound: ceremonies raised
  MaxChanges,      \* bound: changes somebody else makes on the chain
  Protocol,        \* what a protocol that is bound may answer a probe: a number and
                   \* how many must sign
  OwnHashes        \* is a ceremony only completed with its own transaction?

ASSUME DeploymentBounds ==
  MaxCeremonies \in Nat /\ MaxChanges \in Nat /\ OwnHashes \in BOOLEAN

VARIABLES
  chain,        \* the tenant on the chain
  txs,          \* the transactions mined, by hash
  ceremonies,   \* the ceremonies raised, by id
  intents,      \* ceremony -> what was saved of it
  deployed,     \* policy -> its record of a deployment
  bound,        \* policy -> its record of a binding
  changes

pipelineVars == << chain, txs, ceremonies, intents, deployed, bound, changes >>
vars == << authoringVars, pipelineVars >>

Init ==
  /\ AuthoringInit
  /\ \E catalog \in Catalogs :
       chain = [admin |-> TRUE, ceiling |-> 3, catalog |-> catalog,
                contracts |-> {}, bindings |-> {}, version |-> 0]
  /\ txs = <<>> /\ ceremonies = <<>> /\ intents = <<>>
  /\ deployed = [s \in Specs |-> None] /\ bound = [s \in Specs |-> None]
  /\ changes = 0
-----------------------------------------------------------------------------
(* The contracts of the chain. *)
Deployments == { k.address : k \in chain.contracts }
AcceptsDeploy(call) ==
  /\ call.address.template \in chain.catalog
  /\ call.ceiling <= chain.ceiling
  /\ call.address \notin Deployments
AcceptsBind(call) == call.address \in Deployments
Accepts(call) ==
  /\ chain.admin
  /\ IF call.kind = "deploy" THEN AcceptsDeploy(call) ELSE AcceptsBind(call)

Effect(call) ==
  [chain EXCEPT
     !.contracts = IF call.kind = "deploy"
                   THEN @ \cup {[address |-> call.address, ceiling |-> call.ceiling]} ELSE @,
     !.bindings = IF call.kind = "bind"
                  THEN @ \cup {[address |-> call.address, class |-> call.class]} ELSE @,
     !.version = @ + 1]

\* The operator stops being an admin of the tenant, the tenant's ceiling is
\* lowered, or the registry changes.
ChainChanges ==
  /\ changes < MaxChanges /\ changes' = changes + 1
  /\ \E admin \in BOOLEAN, ceiling \in {1, 3}, catalog \in Catalogs :
       chain' = [chain EXCEPT !.admin = admin, !.ceiling = ceiling, !.catalog = catalog,
                              !.version = @ + 1]
  /\ UNCHANGED << authoringVars, txs, ceremonies, intents, deployed, bound >>
-----------------------------------------------------------------------------
(* Phase one. *)
\* Mutant: the call is not tried out before a human is asked.
NoDryRun(call) == TRUE
DryRun(call) == Accepts(call)

\* The ceremony is raised, and then its intent is saved: a write that is cut
\* short leaves a ceremony whose intent cannot be read.
Raise(call, intent) ==
  /\ Len(ceremonies) < MaxCeremonies
  /\ DryRun(call)
  /\ ceremonies' = Append(ceremonies, [call |-> call, state |-> "pending", tx |-> 0,
                                       seen |-> chain.version])
  /\ \/ intents' = Append(intents, intent) /\ UNCHANGED tears
     \/ tears < MaxTears /\ tears' = tears + 1 /\ intents' = Append(intents, Torn)
  /\ UNCHANGED << interviews, metas, said, told, batches,
                  chain, txs, deployed, bound, changes >>

\* A probe asks PolicyBinding what it says of an action class; nothing happens.
Verdicts == [n \in 0..3 |-> << "Allow", "Deny", "RequireApproval", "RequireVote" >>[n + 1]]
Bound(class) == { b \in chain.bindings : b.class = class }
Says(class) ==
  IF Bound(class) = {} THEN {[verdict |-> 0, reason |-> "PB_UNGOVERNED", signers |-> 0]}
  ELSE { [verdict |-> p[1], reason |-> "PB_ALLOWED", signers |-> p[2]] : p \in Protocol }

\* A verdict the app does not know is no answer, and never Allow.
Understood(answer) == answer.verdict \in DOMAIN Verdicts
Decoded(answer) ==
  [verdict |-> Verdicts[answer.verdict], signers |-> answer.signers,
   ungoverned |-> Verdicts[answer.verdict] = "Allow" /\ answer.reason = "PB_UNGOVERNED"]
Ask(class) == { Decoded(answer) : answer \in { w \in Says(class) : Understood(w) } }

Compiled(s) == Compile(Clauses(s), chain.catalog)

DeployIntent(s) ==
  LET compiled == Compiled(s)
      address == Address(s, Target(compiled), Approvers(compiled))
  IN
  /\ chain.admin
  /\ LoadMeta(s) # None /\ LoadMeta(s) <= chain.ceiling
  /\ Target(compiled) # None
  /\ Constructs(Target(compiled), Approvers(compiled))
  /\ Raise([kind |-> "deploy", address |-> address, ceiling |-> LoadMeta(s), class |-> None],
           [kind |-> "deploy", spec |-> s, address |-> address, ceiling |-> LoadMeta(s),
            class |-> ActionClass(compiled)])

BindIntent(address, class) ==
  /\ chain.admin
  /\ \E before \in Ask(class) :
       Raise([kind |-> "bind", address |-> address, class |-> class, ceiling |-> 0],
             [kind |-> "bind", address |-> address, class |-> class, before |-> before])
-----------------------------------------------------------------------------
(* The ceremony: the human signs, the call is broadcast and mined. *)
Settled(c, state, tx) ==
  ceremonies' = [ceremonies EXCEPT ![c] = [@ EXCEPT !.state = state, !.tx = tx]]

Sign(c) ==
  LET call == ceremonies[c].call IN
  /\ ceremonies[c].state = "pending"
  /\ Settled(c, "signed", Len(txs) + 1)
  /\ txs' = Append(txs, [call |-> call, ok |-> Accepts(call)])
  /\ chain' = IF Accepts(call) THEN Effect(call) ELSE chain
  /\ UNCHANGED << authoringVars, intents, deployed, bound, changes >>

Refuse(c) ==
  /\ ceremonies[c].state = "pending" /\ Settled(c, "refused", 0)
  /\ UNCHANGED << authoringVars, chain, txs, intents, deployed, bound, changes >>
-----------------------------------------------------------------------------
(* Phase two. *)
Names(c, h) == OwnHashes => ceremonies[c].tx = h
\* The receipt is one of a successful call to the contract that is asked.
Confirms(h, kind) == txs[h].ok /\ txs[h].call.kind = kind
IntentFor(c, kind) == ~Unread(intents[c]) /\ intents[c].kind = kind

RecordStage(which, s, record) ==
  \/ which' = [which EXCEPT ![s] = record] /\ UNCHANGED tears
  \/ tears < MaxTears /\ tears' = tears + 1 /\ which' = [which EXCEPT ![s] = Torn]

\* Mutant: the address in the log is not compared with the one that was shown.
AnyDeployment(c, h) == TRUE
AddressMatches(c, h) == txs[h].call.address = intents[c].address

DeployComplete(c, h) ==
  /\ IntentFor(c, "deploy") /\ Names(c, h) /\ Confirms(h, "deploy")
  /\ AddressMatches(c, h)
  /\ txs[h].call.address \in Deployments
  /\ RecordStage(deployed, intents[c].spec,
       [address |-> txs[h].call.address, ceiling |-> intents[c].ceiling,
        class |-> intents[c].class])
  /\ UNCHANGED << interviews, metas, said, told, batches,
                  chain, txs, ceremonies, intents, bound, changes >>

\* The policies a contract may be found to come from: the records are read in
\* some order, and one that cannot be read ends the search.
Readable == { s \in Specs : ~Unread(deployed[s]) }
SpecsForProtocol(address) ==
  { s \in Readable : deployed[s].address = address }
    \cup (IF \E s \in Specs : deployed[s] = Torn THEN {None} ELSE {})

BindResult(intent, after) ==
  [address |-> intent.address, class |-> intent.class,
   before |-> intent.before, after |-> after, changed |-> after # intent.before,
   protocols |-> Cardinality(Bound(intent.class))]

BindComplete(c, h) ==
  /\ IntentFor(c, "bind") /\ Names(c, h) /\ Confirms(h, "bind")
  /\ \E after \in Ask(intents[c].class), s \in SpecsForProtocol(intents[c].address) \ {None} :
       RecordStage(bound, s, BindResult(intents[c], after))
  /\ UNCHANGED << interviews, metas, said, told, batches,
                  chain, txs, ceremonies, intents, deployed, changes >>

Next ==
  \/ Author /\ UNCHANGED pipelineVars
  \/ ChainChanges
  \/ \E s \in Specs : DeployIntent(s)
  \/ \E address \in Deployments, class \in Words["scope"] : BindIntent(address, class)
  \/ \E c \in DOMAIN ceremonies :
       \/ Sign(c) \/ Refuse(c)
       \/ \E h \in DOMAIN txs : DeployComplete(c, h) \/ BindComplete(c, h)

Spec == Init /\ [][Next]_vars
-----------------------------------------------------------------------------
\* How far a policy has got.
StageOf(s) ==
  IF bound[s] # None THEN "bound"
  ELSE IF deployed[s] # None THEN "deployed"
  ELSE IF Clauses(s) = <<>> THEN "ingested"
  ELSE IF DOMAIN Clauses(s) # DOMAIN Order THEN "interviewing" ELSE "drafted"

\* A line of that list; a policy without documents has no level.
Listed(s) == [id |-> s, stage |-> StageOf(s), level |-> LoadMeta(s)]

\* The contracts of the tenant, from the chain's own list.  The chain can only be
\* asked of a class by name, so it is asked of those in a readable bind intent; a
\* template that left the registry has no name.
KnownClasses == { intents[c].class : c \in { k \in DOMAIN intents : IntentFor(k, "bind") } }
Protocols ==
  { [addr |-> k.address,
     name |-> IF k.address.template \in chain.catalog THEN k.address.template ELSE None,
     governs |-> { class \in KnownClasses :
                     [address |-> k.address, class |-> class] \in chain.bindings }]
    : k \in chain.contracts }

\* What a policy is recorded to be deployed as is a contract on the chain, at an
\* address a human signed for; and the record says of that address what a human
\* was shown with it, whichever transaction the completion was called with.
DeploymentSigned(s) ==
  /\ deployed[s].address \in Deployments
  /\ \E c \in DOMAIN ceremonies :
       /\ IntentFor(c, "deploy") /\ intents[c].spec = s
       /\ \A shown \in {"address", "ceiling", "class"} : intents[c][shown] = deployed[s][shown]
  /\ \E c \in DOMAIN ceremonies :
       /\ ceremonies[c].state = "signed" /\ ceremonies[c].call.kind = "deploy"
       /\ ceremonies[c].call.address = deployed[s].address

\* The class of a binding's record is governed on the chain, the list of protocols
\* says so too, and the record says what that changed.
Governs(record) ==
  /\ \E p \in Protocols : p.addr = record.address /\ record.class \in p.governs
  /\ record.protocols = Cardinality(Bound(record.class))
  /\ record.before.ungoverned /\ ~record.after.ungoverned /\ record.changed

Bindings == { c \in DOMAIN ceremonies : ceremonies[c].call.kind = "bind" }

\* "Written only after the chain has confirmed it": deployments are what was
\* signed for, and a policy that is listed as bound governs, on the chain, the
\* class its record says.  The address of a deployment is compared with the one
\* in the log; of a binding nothing is, so when two were raised one of them, even
\* if it was refused, may be completed with the transaction of the other.
RecordsWereSigned ==
  \A s \in Specs :
    /\ s \in Readable => DeploymentSigned(s)
    /\ Listed(s).stage = "bound" /\ ~Unread(bound[s]) =>
         \/ Governs(bound[s])
         \/ Cardinality(Bindings) > 1

\* "A ceremony that ends in a revert teaches an operator that approving is a
\* gamble": a ceremony that is signed goes through, unless the chain changed
\* after it was raised.
ApprovalIsNoGamble ==
  \A c \in DOMAIN ceremonies :
    ceremonies[c].state = "pending" /\ ceremonies[c].seen = chain.version
      => Accepts(ceremonies[c].call)

\* A human is only asked to deploy what the interview on disk says at that
\* moment, compiled without a piece missing, for as many principals as it takes
\* (where duties are kept apart, one more than must approve), at a level that
\* covers the last documents and that the tenant may hold.
AskedForWholePolicies ==
  [][ Len(ceremonies') > Len(ceremonies) =>
        LET call == ceremonies'[Len(ceremonies')].call IN
        call.kind = "deploy" =>
          /\ Deployable(Compiled(call.address.spec))
          /\ \E n \in DOMAIN Clauses(call.address.spec) :
               /\ Clauses(call.address.spec)[n].topic \notin Structural
               /\ Template[Clauses(call.address.spec)[n].topic] = call.address.template
               /\ ExtractParam(Clauses(call.address.spec)[n]) = call.address.param
          /\ \/ /\ call.address.template = "ThresholdApproval"
                /\ call.address.param <= Len(call.address.approvers)
             \/ /\ call.address.template = "SegregationOfDuties"
                /\ call.address.param + 1 <= Len(call.address.approvers)
          /\ call.ceiling = metas[call.address.spec] /\ call.ceiling <= chain.ceiling ]_vars
=============================================================================
