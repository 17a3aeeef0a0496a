------------------------------ MODULE Evidence ------------------------------
(***************************************************************************)
(* The Merkle side of quorum-audit: the root over a tenant's records, the  *)
(* inclusion proof of one of them, its verification, and the document the  *)
(* Ledger shows for a decision.  A hash is the tagged tuple of what was    *)
(* hashed: BLAKE3 is taken to be injective.                                *)
(***************************************************************************)
EXTENDS QuorumAudit, Integers, Sequences

OrEmpty(name) == IF name = None THEN "" ELSE name

\* The framed fields of a record: an absent name is framed as the empty one.
Content(r) == << r.agent, OrEmpty(r.principal), OrEmpty(r.grant), r.class,
                 r.verdict, r.hic, r.ref >>

LeafHash(content)     == << "leaf", content >>
NodeHash(left, right) == << "node", left, right >>
ZeroRoot == <<>>

Leaves(chain) == [i \in DOMAIN chain |-> LeafHash(Content(chain[i]))]

\* One level up: pairs from the left, the last node of an odd level with itself.
NextLevel(level) ==
  [p \in 1..((Len(level) + 1) \div 2) |->
     NodeHash(level[2 * p - 1], level[IF 2 * p <= Len(level) THEN 2 * p ELSE 2 * p - 1])]

\* The levels of the tree, as the loop makes them one from the other.
Levels(chain) ==
  LET level[k \in 0..Len(chain)] ==
        IF k = 0 THEN Leaves(chain) ELSE NextLevel(level[k - 1])
  IN  level

\* The rounds of the loop: it stops at the first level of a single node.
Height(chain) ==
  CHOOSE h \in 0..Len(chain) :
    /\ Len(Levels(chain)[h]) = 1
    /\ \A k \in 0..(h - 1) : Len(Levels(chain)[k]) # 1

MerkleRoot(chain) == IF chain = <<>> THEN ZeroRoot ELSE Levels(chain)[Height(chain)][1]

\* Mutant: a node without a right neighbour is paired with its left one.
SiblingLeft(level, i) ==
  IF i % 2 = 1 /\ i < Len(level) THEN [hash |-> level[i + 1], right |-> TRUE]
  ELSE [hash |-> level[i - 1], right |-> FALSE]
\* What a proof says of the i-th node of a level with several.
Sibling(level, i) ==
  IF i % 2 = 1 THEN [hash |-> level[IF i < Len(level) THEN i + 1 ELSE i], right |-> TRUE]
  ELSE [hash |-> level[i - 1], right |-> FALSE]

\* Where the branch of the i-th leaf meets each level.
Places(chain, i) ==
  LET at[k \in 0..Len(chain)] == IF k = 0 THEN i ELSE (at[k - 1] + 1) \div 2
  IN  at

MerkleProof(chain, i) ==
  [k \in 1..Height(chain) |-> Sibling(Levels(chain)[k - 1], Places(chain, i)[k - 1])]

Climbed(acc, step) ==
  IF step.right THEN NodeHash(acc, step.hash) ELSE NodeHash(step.hash, acc)

VerifyInclusion(content, proof, root) ==
  LET acc[k \in 0..Len(proof)] ==
        IF k = 0 THEN LeafHash(content) ELSE Climbed(acc[k - 1], proof[k])
  IN  root = acc[Len(proof)]

\* The document of the i-th decision: everything in it is read back from the
\* chain, and the proof is checked against the root of the chain as it stands.
LedgerDecision(chain, i) ==
  LET root  == MerkleRoot(chain)
      proof == MerkleProof(chain, i)
  IN  [record |-> chain[i], of |-> Len(chain), root |-> root, proof |-> proof,
       included |-> VerifyInclusion(Content(chain[i]), proof, root)]
=============================================================================
