----------------------------- MODULE Authoring ------------------------------
(***************************************************************************)
(* The first half of the authoring pipeline: ingesting documents into a    *)
(* policy and the interview about it.  Both files of a policy, the         *)
(* interview and what is known of its documents, are rewritten in place by *)
(* a plain write: one that is cut short, by a crash or a full disk, leaves *)
(* a file that does not parse, and such a file is read as if there were    *)
(* none.  Commands run one after the other.                                *)
(***************************************************************************)
EXTENDS GovernanceSpec

CONSTANTS
  Specs,        \* policies
  Operator,     \* who this installation is signed in as
  Batches,      \* sequences of documents that may be ingested together
  Catalogs,     \* sets of templates the registry may hold
  Histories,    \* sequences of decisions a policy may be replayed on
  Words,        \* for each topic, what a human may answer
  Torn,         \* the contents of a file whose write was cut short
  MaxTold,      \* bound: answers given
  MaxBatches,   \* bound: batches ingested
  MaxTears      \* bound: writes that are cut short

ASSUME AuthoringBounds == MaxTold \in Nat /\ MaxBatches \in Nat /\ MaxTears \in Nat
ASSUME HistoriesListed == \A h \in Histories : h \in Seq(Range(h))
ASSUME NothingBlank == \A t \in Asked : <<>> \notin Words[t]

VARIABLES
  interviews,   \* policy -> its interview file
  metas,        \* policy -> the level of its documents, as its file has it
  said,         \* history: policy -> topic -> the answers given since its file was last torn
  told, batches, tears

authoringVars == << interviews, metas, said, told, batches, tears >>

Unread(file) == file \in {None, Torn}
Load(s) == IF Unread(interviews[s]) THEN NewInterview ELSE interviews[s]
LoadMeta(s) == IF Unread(metas[s]) THEN None ELSE metas[s]

AuthoringInit ==
  /\ interviews = [s \in Specs |-> None] /\ metas = [s \in Specs |-> None]
  /\ said = [s \in Specs |-> NewInterview.answers]
  /\ told = 0 /\ batches = 0 /\ tears = 0
-----------------------------------------------------------------------------
\* The command makes its write.
Saved(s, iv) == interviews' = [interviews EXCEPT ![s] = iv]

\* The write is cut short and the command goes no further.
TearsInterview(s) ==
  /\ tears < MaxTears /\ tears' = tears + 1
  /\ interviews' = [interviews EXCEPT ![s] = Torn]
  /\ said' = [said EXCEPT ![s] = NewInterview.answers]

\* The highest level among the documents of a batch.
MetaOf(accepted) == Highest({ DetectMarking(accepted[n].phrases) : n \in DOMAIN accepted })

\* The interview is saved first, also when no document was accepted; then, when
\* one was, what is known of the documents is replaced.
Ingest(s, files) ==
  LET accepted == Accepted(files)
      meta == MetaOf(accepted)
  IN
  /\ batches < MaxBatches /\ batches' = batches + 1 /\ UNCHANGED told
  /\ \/ TearsInterview(s) /\ UNCHANGED metas
     \/ /\ Saved(s, ProposeFromDocuments(Load(s), accepted))
        /\ UNCHANGED said
        /\ \/ metas' = [metas EXCEPT ![s] = IF meta = None THEN @ ELSE meta] /\ UNCHANGED tears
           \/ /\ meta # None /\ tears < MaxTears /\ tears' = tears + 1
              /\ metas' = [metas EXCEPT ![s] = Torn]

Tell(s, t, answer) ==
  /\ told < MaxTold /\ told' = told + 1
  /\ \/ TearsInterview(s)
     \/ /\ Saved(s, Record(Load(s), t, answer))
        /\ said' = [said EXCEPT ![s][t] = Append(@, answer)]
        /\ UNCHANGED tears
  /\ UNCHANGED << metas, batches >>

\* The next question is answered in the operator's own words.
AnswerNext(s) ==
  LET t == Pending(Load(s)) IN
  t # None /\ \E text \in Words[t] : Tell(s, t, Answer(text, Operator, None))

\* What a document proposes to the next question is confirmed.
ConfirmProposal(s) ==
  LET t == Pending(Load(s)) IN
  /\ t # None /\ Load(s).proposals[t] # None
  /\ Tell(s, t, Answer(Load(s).proposals[t].text, Operator, Load(s).proposals[t].from))

\* A topic that is named is answered again, or for the first time out of turn.
Revise(s, t) == \E text \in Words[t] : Tell(s, t, Answer(text, Operator, None))

Author ==
  \E s \in Specs :
    \/ \E files \in Batches : Ingest(s, files)
    \/ AnswerNext(s) \/ ConfirmProposal(s)
    \/ \E t \in Asked : Revise(s, t)

AuthoringSpec == AuthoringInit /\ [][Author]_authoringVars
-----------------------------------------------------------------------------
(* What this half promises. *)
Clauses(s) == Draft(Load(s))

\* Answers are evidence: as long as its file is whole, an interview holds every
\* answer it was given, in order, the corrected ones included, whatever was
\* ingested in between; and every clause of the draft stands on the last answer
\* the operator gave or confirmed, never on what only a document says.
EverythingSaidIsKept ==
  \A s \in Specs :
    /\ Load(s).answers = said[s]
    /\ \A n \in DOMAIN Clauses(s) :
         /\ Clauses(s)[n].said.by = Operator
         /\ Clauses(s)[n].said = Last(said[s][Clauses(s)[n].topic])

\* R-A: whatever is on disk and in the registry, a policy that can be deployed has
\* no clause that enforces nothing unless its topic is structural or the operator
\* waived it in so many words, and with no template registered nothing can be
\* deployed: nothing that should enforce a rule is set aside to make a policy look
\* finished.
RulesAreNotSetAside ==
  \A s \in Specs, catalog \in Catalogs : LET compiled == Compile(Clauses(s), catalog) IN
    Deployable(compiled) =>
      /\ catalog # {}
      /\ \A n \in DOMAIN Clauses(s) :
           \/ Clauses(s)[n].topic \in Structural
           \/ Text(Clauses(s)[n]) \in Waivers
           \/ ExtractParam(Clauses(s)[n]) # None /\ Template[Clauses(s)[n].topic] \in catalog

\* R-B: no number of a replay stands for less than it says.  For each history of
\* decisions, every decision is counted once, every clause that rules on actions
\* is either replayed or listed as not replayed, and a replay that calls itself
\* complete had decisions to replay and left out no rule.
ReplaysAreHonest ==
  \A s \in Specs, catalog \in Catalogs, h \in Histories :
    LET compiled == Compile(Clauses(s), catalog)
        replay == Replay(compiled, h)
        rules == Range(compiled.mapped) \cup Range(compiled.unmapped)
    IN
    /\ replay.counts.unchanged + replay.counts.allowed
         + replay.counts.paused + replay.counts.blocked = replay.total
    /\ rules = replay.simulated \cup replay.notSimulated
    /\ ReplayComplete(replay) => replay.total > 0 /\ rules = replay.simulated
=============================================================================
