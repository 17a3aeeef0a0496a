-------------------------- MODULE DeploymentProofs ---------------------------
(***************************************************************************)
(* What is proved of the authoring pipeline, for any policies, documents,  *)
(* answers, registries and bounds.  Of its first half: every answer is kept, *)
(* a policy that can be deployed sets no rule aside, and a replay hides    *)
(* nothing.  Of its second half: a human is only asked to deploy a whole   *)
(* policy; approving is no gamble, because whatever would stop a call that *)
(* was tried out makes a new version of the chain; and what is recorded was *)
(* signed for, because every transaction leads back to a ceremony and every *)
(* ceremony to what a human was shown.                                     *)
(***************************************************************************)
EXTENDS Deployment, SequenceTheorems, FiniteSetTheorems, WellFoundedInduction, TLAPS

\* Ceremonies are numbered and have the fields they are raised with.
Numbered ==
  /\ ceremonies \in Seq({ ceremonies[c] : c \in DOMAIN ceremonies })
  /\ \A c \in DOMAIN ceremonies : {"call", "state", "tx", "seen"} \subseteq DOMAIN ceremonies[c]

\* The chain counts its changes, and no ceremony was raised on a version to come.
Counted ==
  /\ "version" \in DOMAIN chain /\ chain.version \in Nat
  /\ \A c \in DOMAIN ceremonies :
       ceremonies[c].seen \in Nat /\ ceremonies[c].seen <= chain.version

Tried == Numbered /\ Counted /\ ApprovalIsNoGamble

LEMMA InitTries == Init => Tried
<1> SUFFICES ASSUME Init PROVE Tried
  OBVIOUS
<1>1. ceremonies = <<>>
  BY DEF Init
<1>2. "version" \in DOMAIN chain /\ chain.version = 0
  BY DEF Init
<1> QED
  BY <1>1, <1>2 DEF Tried, Numbered, Counted, ApprovalIsNoGamble
-----------------------------------------------------------------------------
\* Nothing is raised or settled, and the chain is left alone.
LEMMA Untouched ==
  ASSUME Tried, UNCHANGED << ceremonies, chain >>
  PROVE  Tried'
BY DEF Tried, Numbered, Counted, ApprovalIsNoGamble, Accepts, AcceptsDeploy, AcceptsBind, Deployments

\* A new version of the chain: nothing was raised on it yet.
Newer == "version" \in DOMAIN chain' /\ chain'.version = chain.version + 1

LEMMA NewVersion ==
  ASSUME Tried, UNCHANGED ceremonies, Newer
  PROVE  Tried'
BY DEF Newer, Tried, Numbered, Counted, ApprovalIsNoGamble

LEMMA RaiseTries ==
  ASSUME Tried, NEW call, NEW intent, Raise(call, intent)
  PROVE  Tried'
<1> DEFINE Old == { ceremonies[c] : c \in DOMAIN ceremonies }
           new == [call |-> call, state |-> "pending", tx |-> 0, seen |-> chain.version]
<1>1. ceremonies' = Append(ceremonies, new) /\ chain' = chain /\ Accepts(call)
  BY DEF Raise, DryRun
<1>2. ceremonies \in Seq(Old \cup {new})
  <2>1. ceremonies \in Seq(Old)
    BY DEF Tried, Numbered
  <2>2. ceremonies \in [1..Len(ceremonies) -> Old] /\ Len(ceremonies) \in Nat
    BY <2>1
  <2> QED
    BY <2>2
<1>3. /\ Len(ceremonies) \in Nat
      /\ DOMAIN ceremonies = 1..Len(ceremonies)
      /\ DOMAIN ceremonies' = 1..(Len(ceremonies) + 1)
      /\ \A c \in DOMAIN ceremonies : ceremonies'[c] = ceremonies[c]
      /\ ceremonies'[Len(ceremonies) + 1] = new
      /\ ceremonies' \in Seq(Old \cup {new})
      /\ Len(ceremonies') = Len(ceremonies) + 1
  <2> HIDE DEF Old, new
  <2> QED
    BY <1>1, <1>2
<1>4. Numbered'
  <2>1. Old \cup {new} = { ceremonies'[c] : c \in DOMAIN ceremonies' }
    BY <1>3
  <2>2. \A c \in DOMAIN ceremonies' : {"call", "state", "tx", "seen"} \subseteq DOMAIN ceremonies'[c]
    BY <1>3 DEF Tried, Numbered
  <2> QED
    BY <1>3, <2>1, <2>2 DEF Numbered
<1>5. Counted'
  BY <1>1, <1>3 DEF Tried, Counted
<1>6. ApprovalIsNoGamble'
  <2> SUFFICES ASSUME NEW c \in DOMAIN ceremonies', ceremonies'[c].state = "pending",
                      ceremonies'[c].seen = chain.version
               PROVE  Accepts(ceremonies'[c].call)
    BY <1>1 DEF ApprovalIsNoGamble, Accepts, AcceptsDeploy, AcceptsBind, Deployments
  <2>1. CASE c \in DOMAIN ceremonies
    BY <1>3, <2>1 DEF Tried, ApprovalIsNoGamble
  <2>2. CASE c = Len(ceremonies) + 1
    BY <1>1, <1>3, <2>2
  <2> QED
    BY <1>3, <2>1, <2>2
<1> QED
  BY <1>4, <1>5, <1>6 DEF Tried

\* A ceremony that is settled is no longer pending, the others are as they were.
LEMMA SettledTries ==
  ASSUME Tried, NEW c \in DOMAIN ceremonies, NEW state, state # "pending", NEW tx,
         Settled(c, state, tx), chain' = chain \/ Newer
  PROVE  Tried'
<1>1. /\ DOMAIN ceremonies' = DOMAIN ceremonies
      /\ \A d \in DOMAIN ceremonies \ {c} : ceremonies'[d] = ceremonies[d]
      /\ ceremonies'[c] = [ceremonies[c] EXCEPT !.state = state, !.tx = tx]
  BY DEF Settled
<1>2. /\ DOMAIN ceremonies'[c] = DOMAIN ceremonies[c]
      /\ ceremonies'[c].seen = ceremonies[c].seen /\ ceremonies'[c].state = state
  BY <1>1 DEF Tried, Numbered
<1>3. Numbered'
  <2>1. Len(ceremonies) \in Nat /\ DOMAIN ceremonies = 1..Len(ceremonies)
    BY DEF Tried, Numbered
  <2>2. ceremonies' \in [1..Len(ceremonies) -> { ceremonies'[d] : d \in DOMAIN ceremonies' }]
    BY <1>1, <2>1 DEF Settled
  <2>3. ceremonies' \in Seq({ ceremonies'[d] : d \in DOMAIN ceremonies' })
    BY <2>1, <2>2
  <2> QED
    BY <1>1, <1>2, <2>3 DEF Tried, Numbered
<1>4. \A d \in DOMAIN ceremonies' :
        /\ ceremonies'[d].seen = ceremonies[d].seen
        /\ ceremonies[d].seen \in Nat /\ ceremonies[d].seen <= chain.version
  BY <1>1, <1>2 DEF Tried, Counted
<1>5. Counted'
  BY <1>4 DEF Tried, Counted, Newer
<1>6. CASE chain' = chain
  <2> SUFFICES ASSUME NEW d \in DOMAIN ceremonies', ceremonies'[d].state = "pending",
                      ceremonies'[d].seen = chain.version
               PROVE  Accepts(ceremonies'[d].call)
    BY <1>3, <1>5, <1>6
       DEF Tried, ApprovalIsNoGamble, Accepts, AcceptsDeploy, AcceptsBind, Deployments
  <2>1. d # c
    BY <1>2
  <2> QED
    BY <1>1, <2>1 DEF Tried, ApprovalIsNoGamble
<1>7. CASE Newer
  BY <1>3, <1>4, <1>5, <1>7 DEF Tried, ApprovalIsNoGamble, Counted, Newer
<1> QED
  BY <1>6, <1>7
-----------------------------------------------------------------------------
LEMMA SignTries ==
  ASSUME Tried, NEW c \in DOMAIN ceremonies, Sign(c)
  PROVE  Tried'
<1>1. Settled(c, "signed", Len(txs) + 1)
  BY DEF Sign
<1>2. chain' = chain \/ chain' = Effect(ceremonies[c].call)
  BY DEF Sign
<1>3. ASSUME chain' = Effect(ceremonies[c].call) PROVE Newer
  BY <1>3 DEF Effect, Newer, Tried, Counted
<1> QED
  BY <1>1, <1>2, <1>3, SettledTries

LEMMA StepTries == Tried /\ [Next]_vars => Tried'
<1> SUFFICES ASSUME Tried, [Next]_vars PROVE Tried'
  OBVIOUS
<1>1. CASE Author /\ UNCHANGED pipelineVars
  BY <1>1, Untouched DEF pipelineVars
<1>2. CASE ChainChanges
  <2>1. Newer /\ UNCHANGED ceremonies
    BY <1>2 DEF ChainChanges, Newer, Tried, Counted
  <2> QED
    BY <2>1, NewVersion
<1>3. ASSUME NEW s \in Specs, DeployIntent(s) PROVE Tried'
  BY <1>3, RaiseTries DEF DeployIntent
<1>4. ASSUME NEW address, NEW class, BindIntent(address, class) PROVE Tried'
  BY <1>4, RaiseTries DEF BindIntent
<1>5. ASSUME NEW c \in DOMAIN ceremonies, Sign(c) PROVE Tried'
  BY <1>5, SignTries
<1>6. ASSUME NEW c \in DOMAIN ceremonies, Refuse(c) PROVE Tried'
  BY <1>6, SettledTries DEF Refuse
<1>7. ASSUME NEW c \in DOMAIN ceremonies, NEW h \in DOMAIN txs,
             DeployComplete(c, h) \/ BindComplete(c, h)
      PROVE  Tried'
  BY <1>7, Untouched DEF DeployComplete, BindComplete
<1>8. CASE UNCHANGED vars
  BY <1>8, Untouched DEF vars, pipelineVars
<1> QED
  BY <1>1, <1>2, <1>3, <1>4, <1>5, <1>6, <1>7, <1>8 DEF Next

\* "A ceremony that ends in a revert teaches an operator that approving is a
\* gamble": whatever was authored, deployed and bound before, a ceremony that is
\* signed goes through unless the chain changed after it was raised.
THEOREM SigningGoesThrough == Spec => []ApprovalIsNoGamble
<1>1. Tried => ApprovalIsNoGamble
  BY DEF Tried
<1> QED
  BY InitTries, StepTries, <1>1, PTL DEF Spec
-----------------------------------------------------------------------------
(* The first half: what is drafted and what is compiled. *)
\* A function of nothing is the empty list.
LEMMA NothingListed ==
  ASSUME NEW f, DOMAIN f = {}, f = [n \in DOMAIN f |-> f[n]] PROVE f = <<>>
<1>1. f \in [{} -> {}]
  OBVIOUS
<1> QED
  BY <1>1

\* The clauses of one disposition, at their places.
LEMMA CompiledAt ==
  ASSUME NEW clauses, NEW catalog, NEW d \in {"structural", "waived", "mapped", "unmapped"}
  PROVE  LET part == Compile(clauses, catalog)[d] IN
         /\ DOMAIN part = { n \in DOMAIN clauses : Disposition(clauses[n], catalog) = d }
         /\ \A n \in DOMAIN part : part[n] = clauses[n]
         /\ part = <<>> <=> DOMAIN part = {}
<1> DEFINE part == Compile(clauses, catalog)[d]
           places == { n \in DOMAIN clauses : Disposition(clauses[n], catalog) = d }
<1>1. part = [n \in places |-> clauses[n]]
  BY DEF Compile, Restrict
<1>2. DOMAIN part = places /\ \A n \in places : part[n] = clauses[n]
  BY <1>1
<1>3. DOMAIN part = {} => part = <<>>
  BY <1>1, NothingListed
<1>4. DOMAIN <<>> = {}
  OBVIOUS
<1> QED
  BY <1>2, <1>3, <1>4

\* A clause is mapped, and then to a template that is registered, unmapped,
\* structural by its topic or waived by its words.
LEMMA DispositionSays ==
  ASSUME NEW clause, NEW catalog
  PROVE  LET d == Disposition(clause, catalog) IN
         /\ d = "structural" <=> clause.topic \in Structural
         /\ d = "waived" => Text(clause) \in Waivers
         /\ d = "mapped" => ExtractParam(clause) # None /\ Template[clause.topic] \in catalog
         /\ d \in {"structural", "waived", "mapped", "unmapped"}
BY DEF Disposition, Maps, IsWaiver

\* Nothing is set aside to make a policy look finished: for any interviews, topics
\* and registry, a policy that can be deployed enforces every clause that rules on
\* actions and that the operator did not waive in so many words (compile.rs:
\* compile, Compiled::deployable).  It holds whatever the file of the policy says.
THEOREM NothingIsSetAside == AuthoringSpec => []RulesAreNotSetAside
<1>1. RulesAreNotSetAside
  <2> SUFFICES ASSUME NEW s \in Specs, NEW catalog \in Catalogs,
                      Deployable(Compile(Clauses(s), catalog))
               PROVE  /\ catalog # {}
                      /\ \A n \in DOMAIN Clauses(s) :
                           \/ Clauses(s)[n].topic \in Structural
                           \/ Text(Clauses(s)[n]) \in Waivers
                           \/ /\ ExtractParam(Clauses(s)[n]) # None
                              /\ Template[Clauses(s)[n].topic] \in catalog
    BY DEF RulesAreNotSetAside
  <2> DEFINE clauses == Clauses(s)
             compiled == Compile(clauses, catalog)
  <2> HIDE DEF clauses
  <2>1. /\ \A n \in DOMAIN clauses : Disposition(clauses[n], catalog) # "unmapped"
        /\ \E n \in DOMAIN clauses : Disposition(clauses[n], catalog) = "mapped"
    BY CompiledAt DEF Deployable, clauses
  <2> QED
    BY <2>1, DispositionSays DEF clauses
<1> QED
  BY <1>1, PTL

\* Three sets that share nothing hold together as many as they hold apart.
LEMMA CountedApart ==
  ASSUME NEW A, NEW B, NEW C, IsFiniteSet(A \cup B \cup C),
         A \cap B = {}, (A \cup B) \cap C = {}
  PROVE  Cardinality(A) + Cardinality(B) + Cardinality(C) = Cardinality(A \cup B \cup C)
<1>1. IsFiniteSet(A) /\ IsFiniteSet(B) /\ IsFiniteSet(C)
  BY FS_Subset
<1>2. /\ IsFiniteSet(A \cup B)
      /\ Cardinality(A \cup B) = Cardinality(A) + Cardinality(B) - Cardinality(A \cap B)
  BY <1>1, FS_Union
<1>3. Cardinality(A \cup B \cup C)
        = Cardinality(A \cup B) + Cardinality(C) - Cardinality((A \cup B) \cap C)
  BY <1>1, <1>2, FS_Union
<1>4. Cardinality(A \cap B) = 0 /\ Cardinality((A \cup B) \cap C) = 0
  BY FS_EmptySet
<1>5. Cardinality(A) \in Nat /\ Cardinality(B) \in Nat /\ Cardinality(C) \in Nat
  BY <1>1, FS_CardinalityType
<1> QED
  BY <1>2, <1>3, <1>4, <1>5

\* Every decision is counted once.
LEMMA DecisionsCounted ==
  ASSUME NEW compiled, NEW h, h \in Seq(Range(h))
  PROVE  LET counts == Replay(compiled, h).counts IN
         counts.unchanged + counts.allowed + counts.paused + counts.blocked = Len(h)
<1> DEFINE Of(o) == { n \in DOMAIN h : Outcome(h[n], compiled) = o }
           unchanged == Of("unchanged")
           allowed == Of("allowed")
           paused == Of("paused")
           blocked == Of("blocked")
<1>1. Len(h) \in Nat /\ DOMAIN h = 1..Len(h)
  BY LenProperties
<1>2. \A n \in DOMAIN h : Outcome(h[n], compiled) \in {"unchanged", "allowed", "paused"}
  BY DEF Outcome
<1>3. /\ unchanged \cup allowed \cup paused = 1..Len(h)
      /\ unchanged \cap allowed = {} /\ (unchanged \cup allowed) \cap paused = {}
      /\ blocked = {}
  BY <1>1, <1>2
<1>4. LET counts == Replay(compiled, h).counts IN
      /\ counts.unchanged = Cardinality(unchanged) /\ counts.allowed = Cardinality(allowed)
      /\ counts.paused = Cardinality(paused) /\ counts.blocked = Cardinality(blocked)
  BY DEF Replay
<1> HIDE DEF unchanged, allowed, paused, blocked
<1>5. IsFiniteSet(1..Len(h)) /\ Cardinality(1..Len(h)) = Len(h)
  BY <1>1, FS_Interval
<1>6. Cardinality(unchanged) + Cardinality(allowed) + Cardinality(paused) = Len(h)
  BY <1>3, <1>5, CountedApart
<1>7. Cardinality(blocked) = 0
  BY <1>3, FS_EmptySet
<1> QED
  BY <1>1, <1>4, <1>6, <1>7

\* No number of a replay stands for less than it says: whatever is on disk, in the
\* registry and in the record of decisions, every decision is counted once and every
\* clause that rules on actions is replayed or listed as not replayed
\* (simulate.rs: replay, Replay::is_complete).
THEOREM ReplayHidesNothing == AuthoringSpec => []ReplaysAreHonest
<1>1. ReplaysAreHonest
  <2> SUFFICES ASSUME NEW s \in Specs, NEW catalog \in Catalogs, NEW h \in Histories
               PROVE  LET compiled == Compile(Clauses(s), catalog)
                          replay == Replay(compiled, h)
                          rules == Range(compiled.mapped) \cup Range(compiled.unmapped)
                      IN
                      /\ replay.counts.unchanged + replay.counts.allowed
                           + replay.counts.paused + replay.counts.blocked = replay.total
                      /\ rules = replay.simulated \cup replay.notSimulated
                      /\ ReplayComplete(replay) => replay.total > 0 /\ rules = replay.simulated
    BY DEF ReplaysAreHonest
  <2> DEFINE compiled == Compile(Clauses(s), catalog)
             replay == Replay(compiled, h)
             rules == Range(compiled.mapped) \cup Range(compiled.unmapped)
  <2> HIDE DEF compiled
  <2>1. h \in Seq(Range(h))
    BY HistoriesListed
  <2>2. /\ replay.total = Len(h) /\ replay.simulated = Simulated(compiled)
        /\ replay.notSimulated = NotSimulated(compiled) /\ replay.empty = (h = <<>>)
    BY DEF Replay
  <2>3. replay.counts.unchanged + replay.counts.allowed
          + replay.counts.paused + replay.counts.blocked = replay.total
    BY <2>1, <2>2, DecisionsCounted
  <2>4. rules = Simulated(compiled) \cup NotSimulated(compiled)
    BY DEF Simulated, NotSimulated
  <2>5. h # <<>> => Len(h) > 0
    BY <2>1, EmptySeq
  <2> HIDE DEF replay, rules
  <2>6. ReplayComplete(replay) => replay.total > 0 /\ rules = replay.simulated
    BY <2>2, <2>4, <2>5 DEF ReplayComplete
  <2> QED
    BY <2>2, <2>3, <2>4, <2>6 DEF compiled, replay, rules
<1> QED
  BY <1>1, PTL
-----------------------------------------------------------------------------
(* What was said and what is on disk. *)
\* What stands for no file, or one that does not parse, is not an interview.
UnreadIsNoInterview ==
  \A file : Unread(file) => "answers" \notin DOMAIN file

\* A list of answers, each of them the operator's own or confirmed by the operator.
ByOperator(answers) ==
  /\ \E S : answers \in Seq(S)
  /\ \A n \in 1..Len(answers) : answers[n].by = Operator

\* What is read of a policy is what was said since its file was last torn.
SaidInv ==
  /\ DOMAIN interviews = Specs /\ DOMAIN said = Specs
  /\ \A s \in Specs :
       /\ "answers" \in DOMAIN Load(s) /\ Load(s).answers = said[s]
       /\ DOMAIN said[s] = Asked /\ \A t \in Asked : ByOperator(said[s][t])

LEMMA SaidInit == AuthoringInit => SaidInv
<1> SUFFICES ASSUME AuthoringInit PROVE SaidInv
  OBVIOUS
<1>1. ByOperator(<<>>)
  BY EmptySeq DEF ByOperator
<1>2. \A s \in Specs : Load(s) = NewInterview
  BY DEF AuthoringInit, Load, Unread
<1>3. /\ "answers" \in DOMAIN NewInterview
      /\ DOMAIN NewInterview.answers = Asked /\ \A t \in Asked : NewInterview.answers[t] = <<>>
  BY DEF NewInterview
<1> QED
  BY <1>1, <1>2, <1>3 DEF AuthoringInit, SaidInv

\* One answer more of the operator's.
LEMMA OneMoreAnswer ==
  ASSUME NEW answers, ByOperator(answers), NEW answer, answer.by = Operator
  PROVE  ByOperator(Append(answers, answer))
<1>1. PICK S : answers \in Seq(S)
  BY DEF ByOperator
<1> DEFINE T == S \cup {answer}
<1>2. answers \in Seq(T) /\ answer \in T /\ Len(answers) \in Nat
  BY <1>1, SeqMonotonic, LenProperties
<1> HIDE DEF T
<1> DEFINE more == Append(answers, answer)
<1>3. /\ more \in Seq(T) /\ Len(more) = Len(answers) + 1
      /\ \A n \in 1..Len(answers) : more[n] = answers[n]
      /\ more[Len(answers) + 1] = answer
  BY <1>2, AppendProperties
<1> HIDE DEF more
<1>4. \A n \in 1..Len(more) : n \in 1..Len(answers) \/ n = Len(answers) + 1
  BY <1>2, <1>3
<1>5. ByOperator(more)
  BY <1>3, <1>4 DEF ByOperator
<1> QED
  BY <1>5 DEF more

\* A file that is torn is read as a new interview.
LEMMA TornIsNew ==
  ASSUME SaidInv, NEW s \in Specs, TearsInterview(s)
  PROVE  SaidInv'
<1>1. /\ DOMAIN interviews' = Specs /\ interviews'[s] = Torn
      /\ \A u \in Specs \ {s} : interviews'[u] = interviews[u]
  BY DEF TearsInterview, SaidInv
<1>2. /\ DOMAIN said' = Specs /\ said'[s] = NewInterview.answers
      /\ \A u \in Specs \ {s} : said'[u] = said[u]
  BY DEF TearsInterview, SaidInv
<1>3. Load(s)' = NewInterview
  BY <1>1 DEF Load, Unread
<1>4. \A u \in Specs \ {s} : Load(u)' = Load(u)
  BY <1>1 DEF Load
<1>5. ByOperator(<<>>)
  BY EmptySeq DEF ByOperator
<1>6. /\ "answers" \in DOMAIN NewInterview
      /\ DOMAIN NewInterview.answers = Asked /\ \A t \in Asked : NewInterview.answers[t] = <<>>
  BY DEF NewInterview
<1>7. ASSUME NEW u \in Specs
      PROVE  /\ "answers" \in DOMAIN Load(u)' /\ Load(u)'.answers = said'[u]
             /\ DOMAIN said'[u] = Asked /\ \A t \in Asked : ByOperator(said'[u][t])
  <2>1. CASE u = s
    BY <2>1, <1>2, <1>3, <1>5, <1>6
  <2>2. CASE u # s
    BY <2>2, <1>2, <1>4 DEF SaidInv
  <2> QED
    BY <2>1, <2>2
<1> QED
  BY <1>1, <1>2, <1>7 DEF SaidInv

\* An interview that is saved is what is read.
LEMMA SavedIsRead ==
  ASSUME UnreadIsNoInterview, SaidInv, NEW s \in Specs, NEW iv, "answers" \in DOMAIN iv,
         Saved(s, iv)
  PROVE  /\ DOMAIN interviews' = Specs /\ Load(s)' = iv
         /\ \A u \in Specs \ {s} : Load(u)' = Load(u)
<1>1. /\ DOMAIN interviews' = Specs /\ interviews'[s] = iv
      /\ \A u \in Specs \ {s} : interviews'[u] = interviews[u]
  BY DEF Saved, SaidInv
<1>2. ~Unread(iv)
  BY DEF UnreadIsNoInterview
<1> QED
  BY <1>1, <1>2 DEF Load

LEMMA TellSaid ==
  ASSUME UnreadIsNoInterview, SaidInv, NEW s \in Specs, NEW t, NEW answer,
         answer.by = Operator, Tell(s, t, answer)
  PROVE  SaidInv'
<1>1. CASE TearsInterview(s)
  BY <1>1, TornIsNew
<1>2. CASE /\ Saved(s, Record(Load(s), t, answer))
           /\ said' = [said EXCEPT ![s][t] = Append(@, answer)]
  <2> DEFINE iv == Record(Load(s), t, answer)
             more == [said[s] EXCEPT ![t] = Append(@, answer)]
  <2>1. "answers" \in DOMAIN iv /\ iv.answers = more
    BY DEF Record, SaidInv
  <2>2. /\ DOMAIN said' = Specs /\ said'[s] = more
        /\ \A u \in Specs \ {s} : said'[u] = said[u]
    BY <1>2 DEF SaidInv
  <2>3. /\ DOMAIN interviews' = Specs /\ Load(s)' = iv
        /\ \A u \in Specs \ {s} : Load(u)' = Load(u)
    BY <1>2, <2>1, SavedIsRead
  <2>4. DOMAIN more = Asked /\ \A v \in Asked : ByOperator(more[v])
    <3>1. /\ DOMAIN more = Asked
          /\ \A v \in Asked : more[v] = IF v = t THEN Append(said[s][v], answer) ELSE said[s][v]
      BY DEF SaidInv
    <3>2. \A v \in Asked : ByOperator(said[s][v])
      BY DEF SaidInv
    <3> QED
      BY <3>1, <3>2, OneMoreAnswer
  <2> HIDE DEF iv, more
  <2>5. ASSUME NEW u \in Specs
        PROVE  /\ "answers" \in DOMAIN Load(u)' /\ Load(u)'.answers = said'[u]
               /\ DOMAIN said'[u] = Asked /\ \A v \in Asked : ByOperator(said'[u][v])
    <3>1. CASE u = s
      BY <3>1, <2>1, <2>2, <2>3, <2>4
    <3>2. CASE u # s
      BY <3>2, <2>2, <2>3 DEF SaidInv
    <3> QED
      BY <3>1, <3>2
  <2> QED
    BY <2>2, <2>3, <2>5 DEF SaidInv
<1> QED
  BY <1>1, <1>2 DEF Tell

\* Documents propose; they answer nothing.
LEMMA IngestSaid ==
  ASSUME UnreadIsNoInterview, SaidInv, NEW s \in Specs, NEW files, Ingest(s, files)
  PROVE  SaidInv'
<1>1. CASE TearsInterview(s)
  BY <1>1, TornIsNew
<1>2. CASE Saved(s, ProposeFromDocuments(Load(s), Accepted(files))) /\ UNCHANGED said
  <2> DEFINE iv == ProposeFromDocuments(Load(s), Accepted(files))
  <2>1. "answers" \in DOMAIN iv /\ iv.answers = said[s]
    BY DEF ProposeFromDocuments, SaidInv
  <2>2. /\ DOMAIN interviews' = Specs /\ Load(s)' = iv
        /\ \A u \in Specs \ {s} : Load(u)' = Load(u)
    BY <1>2, <2>1, SavedIsRead
  <2> HIDE DEF iv
  <2>3. \A u \in Specs : "answers" \in DOMAIN Load(u)' /\ Load(u)'.answers = said'[u]
    BY <1>2, <2>1, <2>2 DEF SaidInv
  <2> QED
    BY <1>2, <2>2, <2>3 DEF SaidInv
<1> QED
  BY <1>1, <1>2 DEF Ingest

LEMMA AuthorSaid ==
  ASSUME UnreadIsNoInterview, SaidInv, [Author]_authoringVars
  PROVE  SaidInv'
<1>1. ASSUME NEW s \in Specs, NEW t, \E text \in Words[t] : Tell(s, t, Answer(text, Operator, None))
      PROVE  SaidInv'
  BY <1>1, TellSaid DEF Answer
<1>2. ASSUME NEW s \in Specs, AnswerNext(s) PROVE SaidInv'
  BY <1>1, <1>2 DEF AnswerNext
<1>3. ASSUME NEW s \in Specs, ConfirmProposal(s) PROVE SaidInv'
  BY <1>3, TellSaid DEF ConfirmProposal, Answer
<1>4. ASSUME NEW s \in Specs, NEW t \in Asked, Revise(s, t) PROVE SaidInv'
  BY <1>1, <1>4 DEF Revise
<1>5. ASSUME NEW s \in Specs, NEW files \in Batches, Ingest(s, files) PROVE SaidInv'
  BY <1>5, IngestSaid
<1>6. CASE UNCHANGED authoringVars
  BY <1>6 DEF authoringVars, SaidInv, Load
<1> QED
  BY <1>2, <1>3, <1>4, <1>5, <1>6 DEF Author

\* Every clause stands on the last answer to its topic.
LEMMA SaidImplies == SaidInv => EverythingSaidIsKept
<1> SUFFICES ASSUME SaidInv, NEW s \in Specs
             PROVE  /\ Load(s).answers = said[s]
                    /\ \A n \in DOMAIN Clauses(s) :
                         /\ Clauses(s)[n].said.by = Operator
                         /\ Clauses(s)[n].said = Last(said[s][Clauses(s)[n].topic])
  BY DEF EverythingSaidIsKept
<1>1. Load(s).answers = said[s]
  BY DEF SaidInv
<1>2. ASSUME NEW n \in DOMAIN Clauses(s)
      PROVE  /\ Clauses(s)[n].said.by = Operator
             /\ Clauses(s)[n].said = Last(said[s][Clauses(s)[n].topic])
  <2>1. /\ n \in DOMAIN Order /\ said[s][Order[n]] # <<>>
        /\ Clauses(s)[n] = [topic |-> Order[n], said |-> Last(said[s][Order[n]])]
    BY <1>1 DEF Clauses, Draft, Answered
  <2>2. Order[n] \in Asked
    BY <2>1 DEF Asked, Range
  <2>3. ByOperator(said[s][Order[n]])
    BY <2>2 DEF SaidInv
  <2>4. Len(said[s][Order[n]]) \in 1..Len(said[s][Order[n]])
    BY <2>1, <2>3, EmptySeq DEF ByOperator
  <2> QED
    BY <2>1, <2>3, <2>4 DEF ByOperator, Last
<1> QED
  BY <1>1, <1>2

\* Answers are evidence: for any policies, words, documents and torn writes, an
\* interview whose file is whole holds every answer it was given, in order, and a
\* clause stands on the last one the operator gave or confirmed (interview.rs:
\* record, propose, load, save; spec.rs: draft).
THEOREM AnswersAreKept ==
  UnreadIsNoInterview => (AuthoringSpec => []EverythingSaidIsKept)
<1> SUFFICES ASSUME UnreadIsNoInterview PROVE AuthoringSpec => []EverythingSaidIsKept
  OBVIOUS
<1>1. AuthoringInit => SaidInv
  BY SaidInit
<1>2. SaidInv /\ [Author]_authoringVars => SaidInv'
  BY AuthorSaid
<1>3. SaidInv => EverythingSaidIsKept
  BY SaidImplies
<1> QED
  BY <1>1, <1>2, <1>3, PTL DEF AuthoringSpec
-----------------------------------------------------------------------------
(* What a human is asked to deploy. *)
\* A set of numbers has a least one.
LEMMA LeastPlace ==
  ASSUME NEW T \in SUBSET Nat, T # {} PROVE Min(T) \in T
<1>1. PICK m \in T : \A n \in T : ~(<<n, m>> \in OpToRel(<, Nat))
  BY WFMin, NatLessThanWellFounded
<1>2. \A n \in T : ~(n < m)
  BY <1>1 DEF OpToRel
<1>3. \A n \in T : n \in Nat
  OBVIOUS
<1>4. \A n \in T : m <= n
  BY <1>2, <1>3
<1> QED
  BY <1>4 DEF Min

\* A policy that can be deployed is deployed for one of its clauses that map.
LEMMA TargetIsMapped ==
  ASSUME NEW s \in Specs, Target(Compiled(s)) # None
  PROVE  /\ Deployable(Compiled(s))
         /\ \E n \in DOMAIN Clauses(s) :
              /\ Target(Compiled(s)) = Clauses(s)[n]
              /\ Clauses(s)[n].topic \notin Structural
<1> DEFINE compiled == Compiled(s)
           places == DOMAIN compiled.mapped
<1>1. Deployable(compiled) /\ Target(compiled) = compiled.mapped[Min(places)]
  BY DEF Target, FirstMapped
<1>2. /\ places = { n \in DOMAIN Clauses(s) : Disposition(Clauses(s)[n], chain.catalog) = "mapped" }
      /\ \A n \in places : compiled.mapped[n] = Clauses(s)[n]
      /\ places # {}
  BY <1>1, CompiledAt DEF Compiled, Deployable
<1>3. DOMAIN Clauses(s) \subseteq Nat
  <2>1. DOMAIN Order \subseteq Nat
    BY OrderOfTopics, LenProperties
  <2> QED
    BY <2>1 DEF Clauses, Draft
<1> HIDE DEF places, compiled
<1>4. Min(places) \in places
  BY <1>2, <1>3, LeastPlace
<1>5. Disposition(Clauses(s)[Min(places)], chain.catalog) = "mapped"
  BY <1>2, <1>4
<1>6. Clauses(s)[Min(places)].topic \notin Structural
  BY <1>5, DispositionSays
<1> QED
  BY <1>1, <1>2, <1>4, <1>6 DEF compiled

\* One more ceremony, the last.
LEMMA RaisedLast ==
  ASSUME Numbered, NEW call, NEW intent, Raise(call, intent)
  PROVE  Len(ceremonies') > Len(ceremonies) /\ ceremonies'[Len(ceremonies')].call = call
<1> DEFINE Old == { ceremonies[c] : c \in DOMAIN ceremonies }
           new == [call |-> call, state |-> "pending", tx |-> 0, seen |-> chain.version]
<1>1. ceremonies' = Append(ceremonies, new)
  BY DEF Raise
<1>2. ceremonies \in Seq(Old \cup {new}) /\ new \in Old \cup {new} /\ new.call = call
  BY SeqMonotonic DEF Numbered
<1> HIDE DEF Old, new
<1> QED
  BY <1>1, <1>2, AppendProperties, LenProperties

\* What is asked of a human is asked of the interview as it is on disk.
Whole(call) ==
  /\ Deployable(Compiled(call.address.spec))
  /\ \E n \in DOMAIN Clauses(call.address.spec) :
       /\ Clauses(call.address.spec)[n].topic \notin Structural
       /\ Template[Clauses(call.address.spec)[n].topic] = call.address.template
       /\ ExtractParam(Clauses(call.address.spec)[n]) = call.address.param
  /\ \/ /\ call.address.template = "ThresholdApproval"
        /\ call.address.param <= Len(call.address.approvers)
     \/ /\ call.address.template = "SegregationOfDuties"
        /\ call.address.param + 1 <= Len(call.address.approvers)
  /\ call.ceiling = metas[call.address.spec] /\ call.ceiling <= chain.ceiling

LEMMA AskedWhole ==
  ASSUME Numbered, NEW s \in Specs, DeployIntent(s)
  PROVE  Whole(ceremonies'[Len(ceremonies')].call)
<1> DEFINE compiled == Compiled(s)
           approvers == Approvers(compiled)
           address == Address(s, Target(compiled), approvers)
           call == [kind |-> "deploy", address |-> address, ceiling |-> LoadMeta(s), class |-> None]
<1>1. /\ LoadMeta(s) # None /\ LoadMeta(s) <= chain.ceiling
      /\ Target(compiled) # None /\ Constructs(Target(compiled), approvers)
      /\ \E intent : Raise(call, intent)
  BY DEF DeployIntent
<1>2. ceremonies'[Len(ceremonies')].call = call
  BY <1>1, RaisedLast
<1>3. LoadMeta(s) = metas[s]
  BY <1>1 DEF LoadMeta
<1>4. /\ Deployable(compiled)
      /\ \E n \in DOMAIN Clauses(s) :
           Target(compiled) = Clauses(s)[n] /\ Clauses(s)[n].topic \notin Structural
  BY <1>1, TargetIsMapped
<1>5. /\ address.spec = s /\ address.template = Template[Target(compiled).topic]
      /\ address.param = ExtractParam(Target(compiled))
      /\ address.approvers = [n \in DOMAIN approvers |-> EnvelopeIdentity(approvers[n])]
  BY DEF Address
<1> HIDE DEF compiled, approvers
<1>6. Len(address.approvers) = Len(approvers)
  <2>1. DOMAIN address.approvers = DOMAIN approvers
    BY <1>5
  <2> HIDE DEF address
  <2> QED
    BY <2>1
<1>7. \/ address.template = "ThresholdApproval" /\ address.param <= Len(address.approvers)
      \/ address.template = "SegregationOfDuties" /\ address.param + 1 <= Len(address.approvers)
  BY <1>1, <1>5, <1>6 DEF Constructs
<1>8. call.address = address /\ call.ceiling = metas[s]
  BY <1>3
<1> HIDE DEF address, call
<1>9. Whole(call)
  BY <1>1, <1>3, <1>4, <1>5, <1>7, <1>8 DEF Whole, compiled
<1> QED
  BY <1>2, <1>9

\* A step that raises nothing leaves as many ceremonies as there were.
LEMMA NoneRaised ==
  ASSUME DOMAIN ceremonies' = DOMAIN ceremonies PROVE Len(ceremonies') = Len(ceremonies)
OBVIOUS

LEMMA StepAsksWhole ==
  ASSUME Numbered, [Next]_vars, Len(ceremonies') > Len(ceremonies),
         ceremonies'[Len(ceremonies')].call.kind = "deploy"
  PROVE  Whole(ceremonies'[Len(ceremonies')].call)
<1>1. Len(ceremonies) \in Nat
  BY LenProperties DEF Numbered
<1>2. DOMAIN ceremonies' # DOMAIN ceremonies
  BY <1>1, NoneRaised
<1>3. \/ \E s \in Specs : DeployIntent(s)
      \/ \E address, class : BindIntent(address, class)
  <2>1. ~(Author /\ UNCHANGED pipelineVars) /\ ~ChainChanges /\ ~UNCHANGED vars
    BY <1>2 DEF pipelineVars, vars, ChainChanges
  <2>2. \A c : ~Sign(c) /\ ~Refuse(c)
    BY <1>2 DEF Sign, Refuse, Settled
  <2>3. \A c, h : ~DeployComplete(c, h) /\ ~BindComplete(c, h)
    BY <1>2 DEF DeployComplete, BindComplete
  <2> QED
    BY <2>1, <2>2, <2>3 DEF Next
<1>4. ASSUME NEW address, NEW class, BindIntent(address, class) PROVE FALSE
  <2> DEFINE call == [kind |-> "bind", address |-> address, class |-> class, ceiling |-> 0]
  <2>1. \E intent : Raise(call, intent)
    BY <1>4 DEF BindIntent
  <2>2. ceremonies'[Len(ceremonies')].call = call
    BY <2>1, RaisedLast
  <2> QED
    BY <2>2
<1> QED
  BY <1>3, <1>4, AskedWhole

\* A human is only asked to deploy what the interview on disk says at that moment,
\* whole, for as many principals as it takes and at a level its documents and the
\* tenant allow: for any policies, words, documents, registries and bounds
\* (deploy.rs: governance_deploy_intent, target; compile.rs; ctor.rs: encode).
THEOREM HumansAreAskedForWhole == Spec => AskedForWholePolicies
<1>1. Tried /\ [Next]_vars =>
        [ Len(ceremonies') > Len(ceremonies) =>
            LET call == ceremonies'[Len(ceremonies')].call IN
            call.kind = "deploy" => Whole(call) ]_vars
  BY StepAsksWhole DEF Tried
<1> QED
  BY InitTries, StepTries, <1>1, PTL DEF Spec, AskedForWholePolicies, Whole
-----------------------------------------------------------------------------
(* What is recorded of a policy, and what was signed. *)
\* What a human is shown of a call: what the call says, or nothing that can be read.
ShownFor(call, intent) ==
  \/ intent = Torn
  \/ /\ call.kind \in {"deploy", "bind"}
     /\ intent.kind = call.kind /\ intent.address = call.address
     /\ call.kind = "deploy" => intent.spec \in Specs
     /\ call.kind = "bind" => intent.class = call.class

\* Every ceremony has its intent, every transaction a ceremony that was signed.
Paired ==
  /\ {"contracts", "bindings"} \subseteq DOMAIN chain
  /\ \E S : intents \in Seq(S)
  /\ DOMAIN intents = DOMAIN ceremonies
  /\ \A c \in DOMAIN ceremonies : ShownFor(ceremonies[c].call, intents[c])
  /\ \E S : txs \in Seq(S)
  /\ \A h \in DOMAIN txs : \E c \in DOMAIN ceremonies :
       ceremonies[c].state = "signed" /\ ceremonies[c].call = txs[h].call
  /\ DOMAIN deployed = Specs /\ DOMAIN bound = Specs

DeployedInv == \A s \in Specs : ~Unread(deployed[s]) => DeploymentSigned(s)

\* The binding a call is for.  What the chain has bound, a human was asked for, and
\* what was mined is bound.
BindingOf(call) == [address |-> call.address, class |-> call.class]
BoundInv ==
  /\ \A b \in chain.bindings :
       b.address \in Deployments /\ \E c \in Bindings : b = BindingOf(ceremonies[c].call)
  /\ \A h \in DOMAIN txs :
       txs[h].ok /\ txs[h].call.kind = "bind" => BindingOf(txs[h].call) \in chain.bindings

\* As long as one binding was raised, its class was not governed when a human was
\* asked, and what is recorded of it is what it changed.
Sole == \A c, d \in Bindings : c = d
WasUngoverned == \A c \in Bindings : IntentFor(c, "bind") => intents[c].before.ungoverned
Changed(record) ==
  /\ \E c \in Bindings :
       /\ IntentFor(c, "bind")
       /\ intents[c].class = record.class /\ intents[c].address = record.address
  /\ BindingOf(record) \in chain.bindings
  /\ record.protocols = 1
  /\ record.before.ungoverned /\ ~record.after.ungoverned /\ record.changed
SoleInv == Sole => WasUngoverned /\ \A s \in Specs : ~Unread(bound[s]) => Changed(bound[s])

RecordInv == Paired /\ DeployedInv /\ BoundInv /\ SoleInv

LEMMA RecordInit == Init => RecordInv
<1> SUFFICES ASSUME Init PROVE RecordInv
  OBVIOUS
<1>1. /\ ceremonies = <<>> /\ intents = <<>> /\ txs = <<>>
      /\ \A s \in Specs : deployed[s] = None /\ bound[s] = None
      /\ DOMAIN deployed = Specs /\ DOMAIN bound = Specs
      /\ {"contracts", "bindings"} \subseteq DOMAIN chain /\ chain.bindings = {}
  BY DEF Init
<1>2. \A c \in DOMAIN <<>> : FALSE
  OBVIOUS
<1>3. <<>> \in Seq({})
  BY EmptySeq
<1>4. Paired
  BY <1>1, <1>2, <1>3 DEF Paired
<1>5. DeployedInv
  BY <1>1 DEF DeployedInv, Unread
<1>6. BoundInv
  BY <1>1, <1>2 DEF BoundInv
<1>7. SoleInv
  BY <1>1, <1>2 DEF SoleInv, WasUngoverned, Bindings, Unread
<1> QED
  BY <1>4, <1>5, <1>6, <1>7 DEF RecordInv

\* Ceremonies keep their calls, signed ones stay signed, intents stay as they were
\* saved, and the chain forgets no contract and no binding.
Grows ==
  /\ DOMAIN ceremonies \subseteq DOMAIN ceremonies'
  /\ \A c \in DOMAIN ceremonies :
       /\ ceremonies'[c].call = ceremonies[c].call
       /\ ceremonies[c].state = "signed" => ceremonies'[c].state = "signed"
       /\ intents'[c] = intents[c]
  /\ DOMAIN intents' = DOMAIN ceremonies'
  /\ chain.contracts \subseteq chain'.contracts /\ chain.bindings \subseteq chain'.bindings

\* What a policy is deployed as stays signed.
LEMMA SignedStays ==
  ASSUME Paired, Grows, NEW s \in Specs, deployed'[s] = deployed[s], DeploymentSigned(s)
  PROVE  DeploymentSigned(s)'
<1>1. deployed'[s].address \in Deployments'
  BY DEF DeploymentSigned, Deployments, Grows
<1>2. \E c \in DOMAIN ceremonies' :
        /\ IntentFor(c, "deploy")' /\ intents'[c].spec = s
        /\ \A shown \in {"address", "ceiling", "class"} : intents'[c][shown] = deployed'[s][shown]
  BY DEF DeploymentSigned, IntentFor, Grows, Paired
<1>3. \E c \in DOMAIN ceremonies' :
        /\ ceremonies'[c].state = "signed" /\ ceremonies'[c].call.kind = "deploy"
        /\ ceremonies'[c].call.address = deployed'[s].address
  BY DEF DeploymentSigned, Grows
<1> QED
  BY <1>1, <1>2, <1>3 DEF DeploymentSigned

LEMMA DeployedStays ==
  ASSUME Paired, DeployedInv, Grows, deployed' = deployed PROVE DeployedInv'
BY SignedStays DEF DeployedInv

\* Bindings that were raised stay raised.
LEMMA BindingsStay ==
  ASSUME Grows
  PROVE  /\ Bindings \subseteq Bindings' /\ (Sole' => Sole)
         /\ \A c \in Bindings : ceremonies'[c].call = ceremonies[c].call
         /\ Deployments \subseteq Deployments'
BY DEF Grows, Bindings, Sole, Deployments

\* What is recorded of a binding stays so.
LEMMA ChangedStays ==
  ASSUME Paired, Grows, NEW record, Changed(record)
  PROVE  Changed(record)'
<1>1. \E c \in Bindings' :
        /\ IntentFor(c, "bind")'
        /\ intents'[c].class = record.class /\ intents'[c].address = record.address
  BY BindingsStay DEF Changed, Bindings, IntentFor, Grows
<1>2. BindingOf(record) \in chain'.bindings
  BY DEF Changed, Grows
<1> QED
  BY <1>1, <1>2 DEF Changed

LEMMA AllChangedStay ==
  ASSUME Paired, Grows, bound' = bound, \A s \in Specs : ~Unread(bound[s]) => Changed(bound[s])
  PROVE  (\A s \in Specs : ~Unread(bound[s]) => Changed(bound[s]))'
<1> SUFFICES ASSUME NEW s \in Specs, ~Unread(bound[s])' PROVE Changed(bound[s])'
  OBVIOUS
<1>1. PICK record : record = bound[s]
  OBVIOUS
<1>2. Changed(record) /\ bound'[s] = record
  BY <1>1 DEF Unread
<1>3. Changed(record)'
  BY <1>2, ChangedStays
<1> QED
  BY <1>2, <1>3 DEF Changed

\* One ceremony more, with its intent or a file that does not parse.
LEMMA RaisedNext ==
  ASSUME Numbered, Paired, NEW call, NEW intent, Raise(call, intent)
  PROVE  LET n == Len(ceremonies) + 1 IN
         /\ DOMAIN ceremonies' = DOMAIN ceremonies \cup {n} /\ n \notin DOMAIN ceremonies
         /\ DOMAIN intents' = DOMAIN intents \cup {n} /\ \E S : intents' \in Seq(S)
         /\ \A c \in DOMAIN ceremonies :
              ceremonies'[c] = ceremonies[c] /\ intents'[c] = intents[c]
         /\ ceremonies'[n].call = call /\ intents'[n] \in {intent, Torn}
         /\ UNCHANGED << chain, txs, deployed, bound >>
<1> DEFINE Old == { ceremonies[c] : c \in DOMAIN ceremonies }
           new == [call |-> call, state |-> "pending", tx |-> 0, seen |-> chain.version]
           n == Len(ceremonies) + 1
<1>1. /\ ceremonies' = Append(ceremonies, new) /\ UNCHANGED << chain, txs, deployed, bound >>
      /\ \E file \in {intent, Torn} : intents' = Append(intents, file)
  BY DEF Raise
<1>2. PICK file \in {intent, Torn} : intents' = Append(intents, file)
  BY <1>1
<1>3. ceremonies \in Seq(Old \cup {new}) /\ new \in Old \cup {new} /\ new.call = call
  BY SeqMonotonic DEF Numbered
<1>4. PICK S : intents \in Seq(S)
  BY DEF Paired
<1>5. intents \in Seq(S \cup {file}) /\ file \in S \cup {file}
  BY <1>4, SeqMonotonic
<1>6. /\ Len(ceremonies) \in Nat /\ DOMAIN ceremonies = 1..Len(ceremonies)
      /\ Len(intents) = Len(ceremonies)
  BY <1>3, <1>5, LenProperties DEF Paired
<1> HIDE DEF Old, new
<1>7. /\ ceremonies' \in Seq(Old \cup {new}) /\ Len(ceremonies') = n
      /\ \A c \in 1..Len(ceremonies) : ceremonies'[c] = ceremonies[c]
      /\ ceremonies'[n] = new
  BY <1>1, <1>3, AppendProperties
<1>8. /\ intents' \in Seq(S \cup {file}) /\ Len(intents') = Len(intents) + 1
      /\ \A c \in 1..Len(intents) : intents'[c] = intents[c]
      /\ intents'[Len(intents) + 1] = file
  BY <1>2, <1>5, AppendProperties
<1>9. DOMAIN ceremonies' = 1..n /\ DOMAIN intents' = 1..n
  BY <1>6, <1>7, <1>8, LenProperties
<1>10. 1..n = (1..Len(ceremonies)) \cup {n} /\ n \notin 1..Len(ceremonies)
  BY <1>6
<1>11. DOMAIN intents = DOMAIN ceremonies
  BY DEF Paired
<1> QED
  BY <1>1, <1>3, <1>6, <1>7, <1>8, <1>9, <1>10, <1>11

LEMMA RaiseRecords ==
  ASSUME Numbered, RecordInv, NEW call, NEW intent, Raise(call, intent),
         ShownFor(call, intent),
         call.kind = "bind" /\ chain.bindings = {} => intent.before.ungoverned
  PROVE  RecordInv'
<1> DEFINE n == Len(ceremonies) + 1
<1>1. /\ DOMAIN ceremonies' = DOMAIN ceremonies \cup {n} /\ n \notin DOMAIN ceremonies
      /\ DOMAIN intents' = DOMAIN intents \cup {n} /\ \E S : intents' \in Seq(S)
      /\ \A c \in DOMAIN ceremonies : ceremonies'[c] = ceremonies[c] /\ intents'[c] = intents[c]
      /\ ceremonies'[n].call = call /\ intents'[n] \in {intent, Torn}
      /\ chain' = chain /\ txs' = txs /\ deployed' = deployed /\ bound' = bound
  BY RaisedNext DEF RecordInv
<1> HIDE DEF n
<1>2. Paired /\ DeployedInv /\ BoundInv /\ SoleInv
  BY DEF RecordInv
<1>3. Grows
  BY <1>1, <1>2 DEF Grows, Paired
<1>4. Paired'
  <2>1. \A c \in DOMAIN ceremonies' : ShownFor(ceremonies'[c].call, intents'[c])
    <3>1. ShownFor(call, Torn)
      BY DEF ShownFor
    <3>2. ShownFor(ceremonies'[n].call, intents'[n])
      BY <1>1, <3>1
    <3>3. \A c \in DOMAIN ceremonies : ShownFor(ceremonies'[c].call, intents'[c])
      BY <1>1, <1>2 DEF Paired
    <3> QED
      BY <1>1, <3>2, <3>3
  <2>2. \A h \in DOMAIN txs' : \E c \in DOMAIN ceremonies' :
          ceremonies'[c].state = "signed" /\ ceremonies'[c].call = txs'[h].call
    BY <1>1, <1>2 DEF Paired
  <2> QED
    BY <1>1, <1>2, <2>1, <2>2 DEF Paired
<1>5. DeployedInv'
  BY <1>1, <1>2, <1>3, DeployedStays
<1>6. BoundInv'
  BY <1>1, <1>2, <1>3, BindingsStay DEF BoundInv
<1>7. SoleInv'
  <2> SUFFICES ASSUME Sole' PROVE WasUngoverned' /\ (\A s \in Specs : ~Unread(bound[s]) => Changed(bound[s]))'
    BY DEF SoleInv
  <2>1. Sole /\ WasUngoverned /\ \A s \in Specs : ~Unread(bound[s]) => Changed(bound[s])
    BY <1>2, <1>3, BindingsStay DEF SoleInv
  <2>2. (\A s \in Specs : ~Unread(bound[s]) => Changed(bound[s]))'
    BY <1>1, <1>2, <1>3, <2>1, AllChangedStay
  <2>3. ASSUME NEW c \in Bindings', IntentFor(c, "bind")'
        PROVE  intents'[c].before.ungoverned
    <3>1. CASE c \in DOMAIN ceremonies
      BY <3>1, <2>1, <2>3, <1>1 DEF WasUngoverned, Bindings, IntentFor
    <3>2. CASE c = n
      <4>1. call.kind = "bind" /\ c \in Bindings'
        BY <3>2, <2>3, <1>1 DEF Bindings
      <4>2. Bindings = {}
        BY <4>1, <3>2, <1>1, <1>3, BindingsStay DEF Sole, Bindings
      <4>3. chain.bindings = {}
        BY <4>2, <1>2 DEF BoundInv
      <4>4. intents'[n] = intent
        BY <2>3, <3>2, <1>1 DEF IntentFor, Unread
      <4> QED
        BY <3>2, <4>1, <4>3, <4>4
    <3> QED
      BY <3>1, <3>2, <2>3, <1>1 DEF Bindings
  <2> QED
    BY <2>2, <2>3 DEF WasUngoverned
<1> QED
  BY <1>4, <1>5, <1>6, <1>7 DEF RecordInv

LEMMA DeployIntentRecords ==
  ASSUME Numbered, RecordInv, NEW s \in Specs, DeployIntent(s)
  PROVE  RecordInv'
<1> DEFINE address == Address(s, Target(Compiled(s)), Approvers(Compiled(s)))
           call == [kind |-> "deploy", address |-> address, ceiling |-> LoadMeta(s), class |-> None]
           intent == [kind |-> "deploy", spec |-> s, address |-> address, ceiling |-> LoadMeta(s),
                      class |-> ActionClass(Compiled(s))]
<1>1. Raise(call, intent)
  BY DEF DeployIntent
<1>2. ShownFor(call, intent) /\ call.kind # "bind"
  BY DEF ShownFor
<1> HIDE DEF call, intent
<1> QED
  BY <1>1, <1>2, RaiseRecords

\* What the chain says of a class of which it has bound nothing.
LEMMA UngovernedSays ==
  ASSUME NEW class, NEW answer \in Ask(class)
  PROVE  IF Bound(class) = {} THEN answer.ungoverned ELSE ~answer.ungoverned
<1>1. PICK w \in Says(class) : answer = Decoded(w)
  BY DEF Ask
<1>2. CASE Bound(class) = {}
  <2>1. w.verdict = 0 /\ w.reason = "PB_UNGOVERNED"
    BY <1>2 DEF Says
  <2>2. Verdicts[0] = "Allow"
    BY DEF Verdicts
  <2> QED
    BY <1>1, <1>2, <2>1, <2>2 DEF Decoded
<1>3. CASE Bound(class) # {}
  <2>1. w.reason = "PB_ALLOWED"
    BY <1>3 DEF Says
  <2> QED
    BY <1>1, <1>3, <2>1 DEF Decoded
<1> QED
  BY <1>2, <1>3

LEMMA BindIntentRecords ==
  ASSUME Numbered, RecordInv, NEW address, NEW class, BindIntent(address, class)
  PROVE  RecordInv'
<1> DEFINE call == [kind |-> "bind", address |-> address, class |-> class, ceiling |-> 0]
           Intent(before) ==
             [kind |-> "bind", address |-> address, class |-> class, before |-> before]
<1>1. PICK before \in Ask(class) : Raise(call, Intent(before))
  BY DEF BindIntent
<1> DEFINE intent == Intent(before)
<1>2. ShownFor(call, intent) /\ intent.before = before
  BY DEF ShownFor
<1>3. chain.bindings = {} => before.ungoverned
  BY UngovernedSays DEF Bound
<1> HIDE DEF call, intent
<1>4. Raise(call, intent)
  BY <1>1 DEF intent
<1> QED
  BY <1>2, <1>3, <1>4, RaiseRecords

\* A ceremony is settled; what is recorded is left alone.
LEMMA SettledGrows ==
  ASSUME Numbered, RecordInv, NEW c \in DOMAIN ceremonies, ceremonies[c].state = "pending",
         NEW state, NEW tx, Settled(c, state, tx),
         UNCHANGED << intents, deployed, bound >>,
         chain.contracts \subseteq chain'.contracts, chain.bindings \subseteq chain'.bindings
  PROVE  /\ Grows /\ DOMAIN ceremonies' = DOMAIN ceremonies /\ Bindings' = Bindings
         /\ \A d \in DOMAIN ceremonies : ceremonies'[d].call = ceremonies[d].call
         /\ ceremonies'[c].state = state
         /\ DeployedInv' /\ SoleInv'
<1>1. /\ DOMAIN ceremonies' = DOMAIN ceremonies
      /\ \A d \in DOMAIN ceremonies \ {c} : ceremonies'[d] = ceremonies[d]
      /\ ceremonies'[c] = [ceremonies[c] EXCEPT !.state = state, !.tx = tx]
  BY DEF Settled
<1>2. ceremonies'[c].call = ceremonies[c].call /\ ceremonies'[c].state = state
  BY <1>1 DEF Numbered
<1>3. Paired /\ DeployedInv /\ SoleInv
  BY DEF RecordInv
<1>4. \A d \in DOMAIN ceremonies : ceremonies'[d].call = ceremonies[d].call
  BY <1>1, <1>2
<1>5. Grows
  BY <1>1, <1>2, <1>3, <1>4 DEF Grows, Paired
<1>6. Bindings' = Bindings
  BY <1>1, <1>4 DEF Bindings
<1>7. DeployedInv'
  BY <1>3, <1>5, DeployedStays
<1>8. SoleInv'
  <2>1. WasUngoverned => WasUngoverned'
    BY <1>6 DEF WasUngoverned, IntentFor
  <2>2. (\A s \in Specs : ~Unread(bound[s]) => Changed(bound[s]))
          => (\A s \in Specs : ~Unread(bound[s]) => Changed(bound[s]))'
    BY <1>3, <1>5, AllChangedStay
  <2>3. Sole' => Sole
    BY <1>6 DEF Sole
  <2> QED
    BY <1>3, <2>1, <2>2, <2>3 DEF SoleInv
<1> QED
  BY <1>1, <1>2, <1>4, <1>5, <1>6, <1>7, <1>8

LEMMA RefuseRecords ==
  ASSUME Numbered, RecordInv, NEW c \in DOMAIN ceremonies, Refuse(c)
  PROVE  RecordInv'
<1>1. /\ Settled(c, "refused", 0) /\ ceremonies[c].state = "pending"
      /\ UNCHANGED << chain, txs, intents, deployed, bound >>
  BY DEF Refuse
<1>2. /\ Grows /\ DOMAIN ceremonies' = DOMAIN ceremonies /\ Bindings' = Bindings
      /\ \A d \in DOMAIN ceremonies : ceremonies'[d].call = ceremonies[d].call
      /\ DeployedInv' /\ SoleInv'
  BY <1>1, SettledGrows
<1>3. Paired /\ BoundInv
  BY DEF RecordInv
<1>4. Paired'
  BY <1>1, <1>2, <1>3 DEF Paired, Grows
<1>5. BoundInv'
  BY <1>1, <1>2, <1>3 DEF BoundInv, Bindings, Deployments
<1> QED
  BY <1>2, <1>4, <1>5 DEF RecordInv

\* What is signed is mined, and goes through if the chain accepts it.
LEMMA SignRecords ==
  ASSUME Numbered, RecordInv, NEW c \in DOMAIN ceremonies, Sign(c)
  PROVE  RecordInv'
<1> DEFINE call == ceremonies[c].call
           tx == [call |-> call, ok |-> Accepts(call)]
           n == Len(txs) + 1
<1>1. /\ Settled(c, "signed", Len(txs) + 1) /\ ceremonies[c].state = "pending"
      /\ UNCHANGED << intents, deployed, bound >>
      /\ txs' = Append(txs, tx)
      /\ chain' = IF Accepts(call) THEN Effect(call) ELSE chain
  BY DEF Sign
<1>2. Paired /\ BoundInv
  BY DEF RecordInv
<1>3. /\ chain.contracts \subseteq chain'.contracts
      /\ chain'.bindings = IF Accepts(call) /\ call.kind = "bind"
                           THEN chain.bindings \cup {BindingOf(call)} ELSE chain.bindings
  BY <1>1, <1>2 DEF Effect, Paired, BindingOf
<1>4. /\ Grows /\ DOMAIN ceremonies' = DOMAIN ceremonies /\ Bindings' = Bindings
      /\ \A d \in DOMAIN ceremonies : ceremonies'[d].call = ceremonies[d].call
      /\ ceremonies'[c].state = "signed"
      /\ DeployedInv' /\ SoleInv'
  BY <1>1, <1>3, SettledGrows
<1>5. PICK S : txs \in Seq(S)
  BY <1>2 DEF Paired
<1>6. txs \in Seq(S \cup {tx}) /\ tx \in S \cup {tx}
  BY <1>5, SeqMonotonic
<1>7. tx.call = call /\ (tx.ok <=> Accepts(call))
  OBVIOUS
<1> HIDE DEF tx
<1>8. /\ txs' \in Seq(S \cup {tx}) /\ DOMAIN txs' = DOMAIN txs \cup {n}
      /\ \A h \in DOMAIN txs : txs'[h] = txs[h]
      /\ txs'[n] = tx
  <2>1. Len(txs) \in Nat /\ DOMAIN txs = 1..Len(txs)
    BY <1>6, LenProperties
  <2>2. /\ txs' \in Seq(S \cup {tx}) /\ Len(txs') = n
        /\ \A h \in 1..Len(txs) : txs'[h] = txs[h]
        /\ txs'[n] = tx
    BY <1>1, <1>6, AppendProperties
  <2>3. DOMAIN txs' = 1..n /\ 1..n = (1..Len(txs)) \cup {n}
    BY <2>1, <2>2, LenProperties
  <2> QED
    BY <2>1, <2>2, <2>3
<1> HIDE DEF n
<1>9. Paired'
  <2>1. \A h \in DOMAIN txs' : \E d \in DOMAIN ceremonies' :
          ceremonies'[d].state = "signed" /\ ceremonies'[d].call = txs'[h].call
    <3>1. \A h \in DOMAIN txs : \E d \in DOMAIN ceremonies' :
            ceremonies'[d].state = "signed" /\ ceremonies'[d].call = txs'[h].call
      BY <1>2, <1>4, <1>8 DEF Paired, Grows
    <3>2. ceremonies'[c].state = "signed" /\ ceremonies'[c].call = txs'[n].call
      BY <1>4, <1>7, <1>8
    <3> QED
      BY <3>1, <3>2, <1>4, <1>8
  <2>2. {"contracts", "bindings"} \subseteq DOMAIN chain'
    BY <1>1, <1>2 DEF Paired, Effect
  <2> QED
    BY <1>1, <1>2, <1>4, <1>8, <2>1, <2>2 DEF Paired
<1>10. BoundInv'
  <2>1. Accepts(call) /\ call.kind = "bind" => call.address \in Deployments /\ c \in Bindings
    BY DEF Accepts, AcceptsBind, Bindings
  <2>2. Deployments \subseteq Deployments'
    BY <1>4, BindingsStay
  <2>3. \A b \in chain'.bindings :
          b.address \in Deployments' /\ \E d \in Bindings' : b = BindingOf(ceremonies'[d].call)
    <3>1. \A b \in chain.bindings :
            b.address \in Deployments' /\ \E d \in Bindings' : b = BindingOf(ceremonies'[d].call)
      BY <1>2, <1>4, <2>2 DEF BoundInv, Bindings
    <3>2. ASSUME Accepts(call), call.kind = "bind"
          PROVE  /\ BindingOf(call).address \in Deployments'
                 /\ \E d \in Bindings' : BindingOf(call) = BindingOf(ceremonies'[d].call)
      <4>1. BindingOf(call).address = call.address
        BY DEF BindingOf
      <4>2. c \in Bindings' /\ ceremonies'[c].call = call
        BY <3>2, <2>1, <1>4
      <4> HIDE DEF call
      <4> QED
        BY <3>2, <4>1, <4>2, <2>1, <2>2
    <3> QED
      BY <1>3, <3>1, <3>2
  <2>4. \A h \in DOMAIN txs' :
          txs'[h].ok /\ txs'[h].call.kind = "bind" => BindingOf(txs'[h].call) \in chain'.bindings
    <3>1. \A h \in DOMAIN txs :
            txs'[h].ok /\ txs'[h].call.kind = "bind" => BindingOf(txs'[h].call) \in chain'.bindings
      BY <1>2, <1>3, <1>8 DEF BoundInv
    <3>2. txs'[n].ok /\ txs'[n].call.kind = "bind" => BindingOf(txs'[n].call) \in chain'.bindings
      BY <1>3, <1>7, <1>8
    <3> QED
      BY <3>1, <3>2, <1>8
  <2> QED
    BY <2>3, <2>4 DEF BoundInv
<1> QED
  BY <1>4, <1>9, <1>10 DEF RecordInv

\* A change somebody else makes on the chain takes back no contract and no binding.
LEMMA ChangesRecord ==
  ASSUME RecordInv, ChainChanges
  PROVE  RecordInv'
<1>1. Paired /\ DeployedInv /\ BoundInv /\ SoleInv
  BY DEF RecordInv
<1>2. /\ UNCHANGED << txs, ceremonies, intents, deployed, bound >>
      /\ chain'.contracts = chain.contracts /\ chain'.bindings = chain.bindings
      /\ DOMAIN chain' = DOMAIN chain
  BY <1>1 DEF ChainChanges, Paired
<1>3. Grows
  BY <1>1, <1>2 DEF Grows, Paired
<1>4. Paired'
  BY <1>1, <1>2 DEF Paired
<1>5. DeployedInv'
  BY <1>1, <1>2, <1>3, DeployedStays
<1>6. BoundInv'
  BY <1>1, <1>2 DEF BoundInv, Bindings, Deployments
<1>7. SoleInv'
  BY <1>1, <1>2, <1>3, AllChangedStay DEF SoleInv, Sole, Bindings, WasUngoverned, IntentFor
<1> QED
  BY <1>4, <1>5, <1>6, <1>7 DEF RecordInv

\* A deployment is recorded: the address is the one in the log and the one shown.
LEMMA DeployCompleteRecords ==
  ASSUME RecordInv, NEW c \in DOMAIN ceremonies, NEW h \in DOMAIN txs, DeployComplete(c, h)
  PROVE  RecordInv'
<1>0. PICK s : s = intents[c].spec
  OBVIOUS
<1> DEFINE record == [address |-> txs[h].call.address, ceiling |-> intents[c].ceiling,
                      class |-> intents[c].class]
<1>1. Paired /\ DeployedInv /\ BoundInv /\ SoleInv
  BY DEF RecordInv
<1>2. /\ IntentFor(c, "deploy") /\ Confirms(h, "deploy") /\ AddressMatches(c, h)
      /\ txs[h].call.address \in Deployments
      /\ UNCHANGED << chain, txs, ceremonies, intents, bound >>
      /\ deployed' = [deployed EXCEPT ![s] = record] \/ deployed' = [deployed EXCEPT ![s] = Torn]
  BY <1>0 DEF DeployComplete, RecordStage
<1>3. s \in Specs
  BY <1>0, <1>1, <1>2 DEF Paired, ShownFor, IntentFor, Unread
<1>4. /\ DOMAIN deployed' = Specs /\ deployed'[s] \in {record, Torn}
      /\ \A u \in Specs \ {s} : deployed'[u] = deployed[u]
  BY <1>1, <1>2, <1>3 DEF Paired
<1>5. Paired' /\ BoundInv' /\ SoleInv'
  <2>1. Paired'
    BY <1>1, <1>2, <1>4 DEF Paired
  <2>2. BoundInv'
    BY <1>1, <1>2 DEF BoundInv, Bindings, Deployments
  <2>3. SoleInv'
    BY <1>1, <1>2 DEF SoleInv, Sole, WasUngoverned, Changed, Bindings, IntentFor
  <2> QED
    BY <2>1, <2>2, <2>3
<1>6. ASSUME deployed'[s] = record PROVE DeploymentSigned(s)'
  <2>1. deployed'[s].address \in Deployments'
    BY <1>2, <1>6 DEF Deployments
  <2>2. \A shown \in {"address", "ceiling", "class"} : intents'[c][shown] = deployed'[s][shown]
    BY <1>2, <1>6 DEF AddressMatches
  <2>3. PICK d \in DOMAIN ceremonies :
          ceremonies[d].state = "signed" /\ ceremonies[d].call = txs[h].call
    BY <1>1 DEF Paired
  <2>4. /\ ceremonies'[d].state = "signed" /\ ceremonies'[d].call.kind = "deploy"
        /\ ceremonies'[d].call.address = deployed'[s].address
    BY <2>3, <1>2, <1>6 DEF Confirms
  <2>5. IntentFor(c, "deploy")' /\ intents'[c].spec = s /\ DOMAIN ceremonies' = DOMAIN ceremonies
    BY <1>0, <1>2 DEF IntentFor
  <2> HIDE DEF record
  <2> QED
    BY <2>1, <2>2, <2>4, <2>5 DEF DeploymentSigned
<1>7. Grows
  BY <1>1, <1>2 DEF Grows, Paired
<1>8. ASSUME NEW u \in Specs, ~Unread(deployed'[u]) PROVE DeploymentSigned(u)'
  <2>1. CASE u = s
    <3>1. deployed'[s] = record
      BY <1>4, <1>8, <2>1 DEF Unread
    <3> QED
      BY <1>6, <2>1, <3>1
  <2>2. CASE u # s
    <3>1. deployed'[u] = deployed[u]
      BY <2>2, <1>4
    <3>2. DeploymentSigned(u)
      BY <3>1, <1>1, <1>8 DEF DeployedInv
    <3> QED
      BY <3>1, <3>2, <1>1, <1>7, SignedStays
  <2> QED
    BY <2>1, <2>2
<1>9. DeployedInv'
  BY <1>8 DEF DeployedInv
<1> QED
  BY <1>5, <1>9 DEF RecordInv

\* What the only binding changed is what the chain says now and did not say before.
LEMMA OnlyBindingChanged ==
  ASSUME RecordInv, Sole, NEW c \in DOMAIN ceremonies, NEW h \in DOMAIN txs,
         IntentFor(c, "bind"), Confirms(h, "bind"), NEW after \in Ask(intents[c].class)
  PROVE  Changed(BindResult(intents[c], after))
<1> DEFINE intent == intents[c]
           record == BindResult(intent, after)
           b == BindingOf(intent)
<1>1. Paired /\ BoundInv /\ WasUngoverned
  BY DEF RecordInv, SoleInv
<1>2. c \in Bindings /\ b = BindingOf(ceremonies[c].call)
  BY <1>1 DEF Paired, ShownFor, IntentFor, Unread, Bindings, BindingOf
<1>3. PICK d \in DOMAIN ceremonies : ceremonies[d].call = txs[h].call
  BY <1>1 DEF Paired
<1>4. d \in Bindings /\ d = c
  BY <1>2, <1>3 DEF Confirms, Bindings, Sole
<1>5. b \in chain.bindings
  BY <1>1, <1>2, <1>3, <1>4 DEF BoundInv, Confirms
<1>6. b.class = intent.class /\ b.address = intent.address
  BY DEF BindingOf
<1>7. Bound(intent.class) = {b}
  <2>1. \A e \in chain.bindings : e = b
    BY <1>1, <1>2 DEF BoundInv, Sole
  <2> QED
    BY <1>5, <1>6, <2>1 DEF Bound
<1>8. ~after.ungoverned
  BY <1>7, UngovernedSays
<1>9. intent.before.ungoverned
  BY <1>1, <1>2 DEF WasUngoverned
<1>10. Cardinality({b}) = 1
  BY FS_Singleton
<1>11. /\ record.address = intent.address /\ record.class = intent.class
       /\ record.before = intent.before /\ record.after = after
       /\ record.changed = (after # intent.before) /\ record.protocols = 1
  BY <1>7, <1>10 DEF BindResult
<1>12. after # intent.before
  BY <1>8, <1>9
<1>13. BindingOf(record) = b
  BY <1>11 DEF BindingOf
<1> HIDE DEF record, b
<1>14. Changed(record)
  BY <1>2, <1>5, <1>8, <1>9, <1>11, <1>12, <1>13 DEF Changed
<1> QED
  BY <1>14 DEF record

LEMMA BindCompleteRecords ==
  ASSUME RecordInv, NEW c \in DOMAIN ceremonies, NEW h \in DOMAIN txs, BindComplete(c, h)
  PROVE  RecordInv'
<1>1. Paired /\ DeployedInv /\ BoundInv /\ SoleInv
  BY DEF RecordInv
<1>2. PICK after \in Ask(intents[c].class), s \in SpecsForProtocol(intents[c].address) \ {None} :
        RecordStage(bound, s, BindResult(intents[c], after))
  BY DEF BindComplete
<1>3. PICK record : record = BindResult(intents[c], after)
  OBVIOUS
<1>4. /\ IntentFor(c, "bind") /\ Confirms(h, "bind")
      /\ UNCHANGED << chain, txs, ceremonies, intents, deployed >>
      /\ bound' = [bound EXCEPT ![s] = record] \/ bound' = [bound EXCEPT ![s] = Torn]
  BY <1>2, <1>3 DEF BindComplete, RecordStage
<1>5. s \in Specs
  BY DEF SpecsForProtocol, Readable
<1>6. /\ DOMAIN bound' = Specs /\ bound'[s] \in {record, Torn}
      /\ \A u \in Specs \ {s} : bound'[u] = bound[u]
  BY <1>1, <1>4, <1>5 DEF Paired
<1>7. Paired'
  BY <1>1, <1>4, <1>6 DEF Paired
<1>8. DeployedInv'
  BY <1>1, <1>4 DEF DeployedInv, DeploymentSigned, Deployments, IntentFor
<1>9. BoundInv'
  BY <1>1, <1>4 DEF BoundInv, Bindings, Deployments
<1>10. Grows
  BY <1>1, <1>4 DEF Grows, Paired
<1>11. SoleInv'
  <2> SUFFICES ASSUME Sole' PROVE WasUngoverned' /\ (\A u \in Specs : ~Unread(bound[u]) => Changed(bound[u]))'
    BY DEF SoleInv
  <2>1. Sole /\ Bindings' = Bindings
    BY <1>4 DEF Sole, Bindings
  <2>2. WasUngoverned' /\ \A u \in Specs : ~Unread(bound[u]) => Changed(bound[u])
    BY <1>1, <1>4, <2>1 DEF SoleInv, WasUngoverned, IntentFor
  <2>3. Changed(record)
    BY <1>3, <1>4, <2>1, OnlyBindingChanged
  <2>4. ASSUME NEW u \in Specs, ~Unread(bound[u])' PROVE Changed(bound[u])'
    <3>1. PICK now : now = bound'[u]
      OBVIOUS
    <3>2. CASE u = s
      <4>1. now = record
        BY <1>6, <2>4, <3>1, <3>2 DEF Unread
      <4>2. Changed(record)'
        BY <2>3, <1>1, <1>10, ChangedStays
      <4> QED
        BY <3>1, <4>1, <4>2 DEF Changed
    <3>3. CASE u # s
      <4>1. now = bound[u]
        BY <1>6, <3>1, <3>3
      <4>2. Changed(now)
        BY <4>1, <2>2, <2>4, <3>1 DEF Unread
      <4>3. Changed(now)'
        BY <4>2, <1>1, <1>10, ChangedStays
      <4> QED
        BY <3>1, <4>3 DEF Changed
    <3> QED
      BY <3>2, <3>3
  <2> QED
    BY <2>2, <2>4
<1> QED
  BY <1>7, <1>8, <1>9, <1>11 DEF RecordInv

LEMMA RecordStays ==
  ASSUME RecordInv, UNCHANGED pipelineVars PROVE RecordInv'
<1>1. UNCHANGED << chain, txs, ceremonies, intents, deployed, bound >>
  BY DEF pipelineVars
<1>2. Paired' /\ DeployedInv'
  BY <1>1 DEF RecordInv, Paired, DeployedInv, DeploymentSigned, Deployments, IntentFor
<1>3. BoundInv'
  BY <1>1 DEF RecordInv, BoundInv, Bindings, Deployments
<1>4. SoleInv'
  BY <1>1 DEF RecordInv, SoleInv, Sole, WasUngoverned, Changed, Bindings, IntentFor
<1> QED
  BY <1>2, <1>3, <1>4 DEF RecordInv

LEMMA RecordStep == Tried /\ RecordInv /\ [Next]_vars => RecordInv'
<1> SUFFICES ASSUME Numbered, RecordInv, [Next]_vars PROVE RecordInv'
  BY DEF Tried
<1>1. CASE (Author /\ UNCHANGED pipelineVars) \/ UNCHANGED vars
  BY <1>1, RecordStays DEF vars
<1>2. CASE ChainChanges
  BY <1>2, ChangesRecord
<1>3. ASSUME NEW s \in Specs, DeployIntent(s) PROVE RecordInv'
  BY <1>3, DeployIntentRecords
<1>4. ASSUME NEW address, NEW class, BindIntent(address, class) PROVE RecordInv'
  BY <1>4, BindIntentRecords
<1>5. ASSUME NEW c \in DOMAIN ceremonies, Sign(c) \/ Refuse(c) PROVE RecordInv'
  BY <1>5, SignRecords, RefuseRecords
<1>6. ASSUME NEW c \in DOMAIN ceremonies, NEW h \in DOMAIN txs,
             DeployComplete(c, h) \/ BindComplete(c, h)
      PROVE  RecordInv'
  BY <1>6, DeployCompleteRecords, BindCompleteRecords
<1> QED
  BY <1>1, <1>2, <1>3, <1>4, <1>5, <1>6 DEF Next

\* As long as one binding was raised, what is recorded of it is what the chain says.
LEMMA ChangedGoverns ==
  ASSUME Paired, BoundInv, Sole, NEW record, Changed(record)
  PROVE  Governs(record)
<1> DEFINE b == BindingOf(record)
<1>1. b \in chain.bindings /\ b.class = record.class /\ b.address = record.address
  BY DEF Changed, BindingOf
<1>2. Bound(record.class) = {b}
  <2>1. \A e \in chain.bindings : e = b
    BY <1>1 DEF BoundInv, Sole
  <2> QED
    BY <1>1, <2>1 DEF Bound
<1>3. Cardinality({b}) = 1
  BY FS_Singleton
<1>4. PICK k \in chain.contracts : k.address = record.address
  BY <1>1 DEF BoundInv, Deployments
<1>5. record.class \in KnownClasses
  <2>1. PICK c \in Bindings : IntentFor(c, "bind") /\ intents[c].class = record.class
    BY DEF Changed
  <2>2. c \in DOMAIN intents
    BY DEF Bindings, Paired
  <2> QED
    BY <2>1, <2>2 DEF KnownClasses
<1>6. b = [address |-> k.address, class |-> record.class]
  BY <1>4 DEF BindingOf
<1> HIDE DEF b
<1>7. \E p \in Protocols : p.addr = record.address /\ record.class \in p.governs
  <2> DEFINE p == [addr |-> k.address,
                   name |-> IF k.address.template \in chain.catalog THEN k.address.template ELSE None,
                   governs |-> { class \in KnownClasses :
                                   [address |-> k.address, class |-> class] \in chain.bindings }]
  <2>1. p \in Protocols
    BY DEF Protocols
  <2>2. record.class \in p.governs
    BY <1>1, <1>5, <1>6
  <2>3. p.addr = record.address
    BY <1>4
  <2> HIDE DEF p
  <2> QED
    BY <2>1, <2>2, <2>3
<1> QED
  BY <1>2, <1>3, <1>7 DEF Governs, Changed

LEMMA TwoBindings ==
  ASSUME Numbered, ~Sole PROVE Cardinality(Bindings) > 1
<1>1. PICK c, d \in Bindings : c # d
  BY DEF Sole
<1>2. IsFiniteSet(Bindings)
  <2>1. Len(ceremonies) \in Nat /\ DOMAIN ceremonies = 1..Len(ceremonies)
    BY LenProperties DEF Numbered
  <2>2. IsFiniteSet(1..Len(ceremonies)) /\ Bindings \in SUBSET (1..Len(ceremonies))
    BY <2>1, FS_Interval DEF Bindings
  <2> QED
    BY <2>2, FS_Subset
<1>3. IsFiniteSet({c}) /\ Cardinality({c}) = 1
  BY FS_Singleton
<1>4. Cardinality({c} \cup {d}) = 2
  BY <1>1, <1>3, FS_AddElement
<1>5. {c} \cup {d} \in SUBSET Bindings
  BY <1>1
<1>6. Cardinality({c} \cup {d}) <= Cardinality(Bindings) /\ Cardinality(Bindings) \in Nat
  BY <1>2, <1>5, FS_Subset, FS_CardinalityType
<1> QED
  BY <1>4, <1>6

LEMMA RecordImplies == Tried /\ RecordInv => RecordsWereSigned
<1> SUFFICES ASSUME Numbered, RecordInv, NEW s \in Specs
             PROVE  /\ s \in Readable => DeploymentSigned(s)
                    /\ ~Unread(bound[s]) => Governs(bound[s]) \/ Cardinality(Bindings) > 1
  BY DEF RecordsWereSigned, Tried
<1>1. s \in Readable => DeploymentSigned(s)
  BY DEF RecordInv, DeployedInv, Readable
<1>2. ASSUME ~Unread(bound[s]), Sole PROVE Governs(bound[s])
  <2>1. PICK record : record = bound[s]
    OBVIOUS
  <2>2. Changed(record)
    BY <1>2, <2>1 DEF RecordInv, SoleInv
  <2>3. Governs(record)
    BY <1>2, <2>2, ChangedGoverns DEF RecordInv
  <2> QED
    BY <2>1, <2>3
<1> QED
  BY <1>1, <1>2, TwoBindings

\* "Written only after the chain has confirmed it": for any policies, registries,
\* changes of the chain, completions with any transaction and torn writes, what a
\* policy is recorded to be deployed as is a contract on the chain that a human
\* signed for, under what that human was shown; and what is recorded of a binding
\* is what it changed on the chain, unless two were raised (deploy.rs:
\* governance_deploy_complete, governance_bind_complete).
THEOREM RecordsAreOfSignedCalls == Spec => []RecordsWereSigned
<1>1. Init => Tried /\ RecordInv
  BY InitTries, RecordInit
<1>2. Tried /\ RecordInv /\ [Next]_vars => (Tried /\ RecordInv)'
  BY StepTries, RecordStep
<1>3. Tried /\ RecordInv => RecordsWereSigned
  BY RecordImplies
<1> QED
  BY <1>1, <1>2, <1>3, PTL DEF Spec
=============================================================================
