--------------------------- MODULE GovernanceSpec ---------------------------
(***************************************************************************)
(* A governance policy from interview to contract: the interview and what  *)
(* documents propose to it, the clauses drafted from its answers, what     *)
(* each clause compiles to, the contract a deployment is for, and the      *)
(* replay of recorded decisions through the policy.  Pure operators: no    *)
(* state is kept here.                                                     *)
(***************************************************************************)
EXTENDS GovernanceText

CONSTANT Order   \* the topics the interview asks about, in the order it asks

Topics == {"scope", "principals", "roles", "thresholds", "escalation", "expiry", "exceptions"}
Asked == Range(Order)

ASSUME OrderOfTopics == Order \in Seq(Topics) /\ IsInjective(Order)
-----------------------------------------------------------------------------
(* The interview: every answer a topic was ever given, the last one in     *)
(* force, and at most one proposal for each topic.                         *)
NewInterview == [answers |-> [t \in Asked |-> <<>>], proposals |-> [t \in Asked |-> None]]

Answered(iv, t) == iv.answers[t] # <<>>
Pending(iv) == FirstAt({ n \in DOMAIN Order : ~Answered(iv, Order[n]) }, LAMBDA n : Order[n])

\* An answer names who gave it and, when it is a confirmed proposal, the
\* document it came from.
Answer(text, by, from) == [text |-> text, by |-> by, from |-> from]

\* Mutant: a new answer takes the place of the one before.
RecordOver(iv, t, answer) == [iv EXCEPT !.answers[t] = <<answer>>]
Record(iv, t, answer) == [iv EXCEPT !.answers[t] = Append(@, answer)]

\* What a sentence of a document seems to be about, by pieces of words: a set of
\* words here is those with the piece.  A long run of words, one token here, takes
\* a sentence past the 240 characters up to which one is looked at.
LongRun == "..."
CandidateTopic(s) ==
  IF s = <<>> \/ LongRun \in Range(s) THEN None
  ELSE IF /\ Mentions(s, {"approve", "approved", "approver", "approvers", "approval", "approvals"})
          /\ Mentions(s, {"two", "2", "of", "office"})
  THEN "thresholds"
  ELSE IF Mentions(s, {"escalate", "escalates", "escalation"}) THEN "escalation"
  ELSE IF \/ Mentions(s, {"expire", "expires", "lapse", "lapses"})
          \/ \E n \in 2..Len(s) : s[n - 1] = "valid" /\ s[n] = "until"
  THEN "expiry"
  ELSE IF Mentions(s, {"except", "exception", "exclude", "excluded"}) THEN "exceptions"
  ELSE None

Sentences(files) ==
  FlattenSeq([n \in DOMAIN files |->
    [k \in DOMAIN files[n].chunks |-> [text |-> files[n].chunks[k], from |-> files[n].name]]])

\* The first proposal for a topic stands, and so does the first sentence about it.
Propose(iv, t, sentences) ==
  IF iv.proposals[t] # None THEN iv.proposals[t]
  ELSE FirstAt({ k \in DOMAIN sentences : CandidateTopic(sentences[k].text) = t },
               LAMBDA k : sentences[k])

ProposeFromDocuments(iv, files) ==
  [iv EXCEPT !.proposals = [t \in Asked |-> Propose(iv, t, Sentences(files))]]
-----------------------------------------------------------------------------
(* The draft: one clause for each answered topic, at its place in the      *)
(* interview.  Clauses in order are a function from some of the places.    *)
Draft(iv) ==
  [n \in { k \in DOMAIN Order : Answered(iv, Order[k]) } |->
     [topic |-> Order[n], said |-> Last(iv.answers[Order[n]])]]

Text(clause) == clause.said.text
-----------------------------------------------------------------------------
(* Compiling against the templates that are registered on the chain. *)
Template == [ thresholds |-> "ThresholdApproval", roles |-> "SegregationOfDuties",
              escalation |-> "IncidentEscalation", expiry |-> "TimeBoundedElevation",
              exceptions |-> "ClassificationGate" ]

OrOne(n) == IF n = None THEN 1 ELSE n
NonZero(n) == IF n = 0 THEN None ELSE n

\* The parameter read from a clause; a threshold of zero is not one, and a
\* clause on roles that names no count asks for one approver.
ExtractParam(clause) ==
  CASE clause.topic = "thresholds" -> NonZero(ParseCount(Text(clause)))
    [] clause.topic = "roles"      -> OrOne(ParseCount(Text(clause)))
    [] clause.topic \in {"escalation", "expiry"} -> ParseDurationSecs(Text(clause))
    [] clause.topic = "exceptions" -> ParseClassification(Text(clause))

Structural == {"scope", "principals"}
Maps(clause, catalog) == Template[clause.topic] \in catalog /\ ExtractParam(clause) # None

\* Mutant: a clause that cannot be mapped is set aside.
SetAside(clause, catalog) ==
  CASE clause.topic \in Structural -> "structural"
    [] clause.topic \notin Structural /\ Maps(clause, catalog) -> "mapped"
    [] OTHER -> "waived"
Disposition(clause, catalog) ==
  CASE clause.topic \in Structural -> "structural"
    [] clause.topic \notin Structural /\ IsWaiver(Text(clause)) -> "waived"
    [] OTHER -> IF Maps(clause, catalog) THEN "mapped" ELSE "unmapped"

Compile(clauses, catalog) ==
  [d \in {"structural", "waived", "mapped", "unmapped"} |->
     Restrict(clauses, { n \in DOMAIN clauses : Disposition(clauses[n], catalog) = d })]

Deployable(compiled) == compiled.unmapped = <<>> /\ compiled.mapped # <<>>
-----------------------------------------------------------------------------
(* The contract a deployment is for: that of the first mapped clause. *)
FirstMapped(compiled) == compiled.mapped[Min(DOMAIN compiled.mapped)]
Target(compiled) == IF Deployable(compiled) THEN FirstMapped(compiled) ELSE None

\* What the structural clause on a topic says, if there is one.
Structure(compiled, topic) ==
  FirstAt({ n \in DOMAIN compiled.structural : compiled.structural[n].topic = topic },
          LAMBDA n : Text(compiled.structural[n]))
Approvers(compiled) ==
  IF Structure(compiled, "principals") = None THEN <<>>
  ELSE PrincipalsOf(Structure(compiled, "principals"))

\* The class the policy is bound to: the whole of the scope clause.
ActionClass(compiled) == Structure(compiled, "scope")

MaxIdentities == 64
\* Mutant: the number of approvers is not compared with what the policy asks.
ConstructsFor(clause, approvers) ==
  Template[clause.topic] \in {"ThresholdApproval", "SegregationOfDuties"}
Constructs(clause, approvers) ==
  LET need == ExtractParam(clause) IN
  /\ approvers # <<>> /\ Len(approvers) <= MaxIdentities
  /\ \A n \in DOMAIN approvers : EnvelopeIdentity(approvers[n]) # None
  /\ CASE Template[clause.topic] = "ThresholdApproval"   -> need <= Len(approvers)
       [] Template[clause.topic] = "SegregationOfDuties" -> need > 0 /\ need + 1 <= Len(approvers)
       [] OTHER -> FALSE

\* What an address is computed from: the salt names the policy and the template,
\* the constructor's arguments are the parameter and the approvers.
Address(spec, clause, approvers) ==
  [spec |-> spec, template |-> Template[clause.topic], param |-> ExtractParam(clause),
   approvers |-> [n \in DOMAIN approvers |-> EnvelopeIdentity(approvers[n])]]
-----------------------------------------------------------------------------
(* Replaying decisions: [class, human] says what was decided about and     *)
(* whether a human was asked.                                              *)
Scope(compiled) ==
  IF Structure(compiled, "scope") = None THEN {} ELSE ScopeClasses(Structure(compiled, "scope"))

Replayable(clause) == Template[clause.topic] = "ThresholdApproval"
Simulated(compiled) == { c \in Range(compiled.mapped) : Replayable(c) }
\* Mutant: a clause that cannot be replayed is passed over in silence.
OnlyUnmapped(compiled) == Range(compiled.unmapped)
NotSimulated(compiled) ==
  { c \in Range(compiled.mapped) : ~Replayable(c) } \cup Range(compiled.unmapped)

Outcome(decision, compiled) ==
  IF decision.class \notin Scope(compiled) THEN "unchanged"
  ELSE IF Simulated(compiled) = {} \/ decision.human THEN "allowed" ELSE "paused"

Replay(compiled, decisions) ==
  [ total |-> Len(decisions),
    counts |-> [o \in {"unchanged", "allowed", "paused", "blocked"} |->
                  Cardinality({ n \in DOMAIN decisions : Outcome(decisions[n], compiled) = o })],
    simulated |-> Simulated(compiled), notSimulated |-> NotSimulated(compiled),
    empty |-> decisions = <<>> ]
ReplayComplete(replay) == replay.notSimulated = {} /\ ~replay.empty
=============================================================================
