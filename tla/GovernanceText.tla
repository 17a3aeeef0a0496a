--------------------------- MODULE GovernanceText ---------------------------
(***************************************************************************)
(* What the authoring pipeline reads out of words: the markings of an      *)
(* ingested document, and the counts, durations, levels and names in an    *)
(* operator's answer.                                                      *)
(*                                                                         *)
(* A text is a sequence of tokens: its words, lower-cased and split at     *)
(* white space, with the commas, semicolons and slashes between names as   *)
(* tokens of their own and all other punctuation trimmed.                  *)
(***************************************************************************)
EXTENDS Integers, Sequences, SequencesExt, FiniteSetsExt, Functions

CONSTANT None

\* The first position in a set of them, and what is read there.
FirstAt(positions, Read(_)) == IF positions = {} THEN None ELSE Read(Min(positions))
Mentions(text, words) == Range(text) \cap words # {}
-----------------------------------------------------------------------------
(* Classifications, in order: Public, Proprietary, CUI, ITAR. *)
Levels == 0..3
Highest(levels) == IF levels = {} THEN None ELSE Max(levels)

\* The phrases that mark a document, the longest first.
Markings == << "controlled unclassified information", "approved for public release",
               "company confidential", "export-controlled", "export controlled",
               "public release", "unclassified", "confidential", "proprietary",
               "itar", "cui" >>
MarkingLevel == << 2, 0, 1, 3, 3, 0, 0, 1, 1, 3, 2 >>

DetectMarking(phrases) ==
  Highest({ MarkingLevel[n] : n \in { k \in DOMAIN Markings : Markings[k] \in phrases } })

\* A document: whether text can be extracted from it, the phrases in it, and the
\* sentences of each chunk.  One without text or without a marking is refused.
Ingestible(d) == d.format = "text" /\ d.chunks # <<>> /\ DetectMarking(d.phrases) # None
Accepted(files) == SelectSeq(files, Ingestible)
-----------------------------------------------------------------------------
NumberWords == [ one |-> 1, two |-> 2, three |-> 3, four |-> 4, five |-> 5, six |-> 6 ]
\* The numerals an instance may write; 65 is the least that is not read.
Numerals == << "1", "2", "3", "4", "8", "30", "64", "65", "0" >>
NumeralValue == << 1, 2, 3, 4, 8, 30, 64, 65, 0 >>

WordOrDigit(token) ==
  IF token \in DOMAIN NumberWords THEN NumberWords[token]
  ELSE FirstAt({ n \in DOMAIN Numerals : Numerals[n] = token /\ NumeralValue[n] <= 64 },
               LAMBDA n : NumeralValue[n])
IsCount(token) == WordOrDigit(token) # None

ApprovalWords == {"approve", "approved", "approver", "approvers", "approval", "approvals",
                  "signature", "signatures", "sign-off", "signer", "signers"}

\* "N of M", where M need not be a number, or the first count of a text that
\* speaks of approving.
CountBefore(text, n) == WordOrDigit(text[n - 1])
NOfM(text) == FirstAt({ n \in 2..(Len(text) - 1) : text[n] = "of" },
                      LAMBDA n : CountBefore(text, n))
AnyCount(text) ==
  FirstAt({ n \in DOMAIN text : IsCount(text[n]) }, LAMBDA n : WordOrDigit(text[n]))
ParseCount(text) ==
  IF NOfM(text) # None THEN NOfM(text)
  ELSE IF Mentions(text, ApprovalWords) THEN AnyCount(text) ELSE None

Units == [ seconds |-> 1, minutes |-> 60, hours |-> 3600, days |-> 86400, weeks |-> 604800 ]
ParseDurationSecs(text) ==
  FirstAt({ n \in 2..Len(text) : text[n] \in DOMAIN Units /\ IsCount(text[n - 1]) },
          LAMBDA n : CountBefore(text, n) * Units[text[n]])

LevelNames == [ public |-> 0, proprietary |-> 1, cui |-> 2, itar |-> 3 ]
ParseClassification(text) == Highest({ LevelNames[w] : w \in Range(text) \cap DOMAIN LevelNames })

\* Answers that say the topic imposes no rule, matched whole.
Waivers == { <<"none">>, <<"no", "exceptions">>, <<"nothing">>, <<"n", "/", "a">>, <<"not", "applicable">> }
IsWaiver(text) == text \in Waivers
-----------------------------------------------------------------------------
(* Lists of names. *)
\* The pieces of a text between separators, empty ones included.
Pieces(text, separators) ==
  FoldLeft(LAMBDA pieces, w :
             IF w \in separators THEN Append(pieces, <<>>)
             ELSE [pieces EXCEPT ![Len(pieces)] = Append(@, w)],
           << <<>> >>, text)
Distinct(names) == FoldLeft(LAMBDA kept, n : IF Contains(kept, n) THEN kept ELSE Append(kept, n),
                            <<>>, names)

\* The distinct names in a text; a single letter is no name.
Letters == {"a", "b", "c", "n"}
IsName(piece) == piece # <<>> /\ ~(Len(piece) = 1 /\ piece[1] \in Letters)
PrincipalsOf(text) ==
  Distinct(SelectSeq(Pieces(text, {",", ";", "/", "and", "&"}), IsName))

\* Only an address has an identity on the chain.
Addresses == {"0xana", "0xbob", "0xcyd"}
EnvelopeIdentity(name) == IF Len(name) = 1 /\ name[1] \in Addresses THEN name[1] ELSE None

\* The action classes a replay is run over.
ScopeClasses(text) == Range(SelectSeq(Pieces(text, {",", ";"}), LAMBDA p : p # <<>>))
=============================================================================
