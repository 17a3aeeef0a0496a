---------------------------- MODULE DecisionBook ------------------------------
(***************************************************************************)
(* What a tenant's pipeline looks like to those who ask it for decisions:  *)
(* the verdicts on record, the escalations that wait for a human, and the  *)
(* answers given.  A decision id is the place of its record.               *)
(***************************************************************************)
EXTENDS Naturals, Sequences

CONSTANTS
  None,
  MaxRecords    \* bound: records in a book

ASSUME MaxRecordsNat == MaxRecords \in Nat

Rulings == {"allow", "deny", "require-approval", "ungoverned"}
HumanAnswers == {"approved", "rejected"}
BookIds == 1..MaxRecords

Book == [records : Seq(Rulings \cup HumanAnswers), waiting : SUBSET BookIds,
         answer : [BookIds -> HumanAnswers \cup {None}]]

EmptyBook == [records |-> <<>>, waiting |-> {}, answer |-> [id \in BookIds |-> None]]

NextId(b) == Len(b.records) + 1
HasRoom(b) == Len(b.records) < MaxRecords

\* Every ruling is recorded; an escalation also waits for a human.
WithRuling(b, verdict) ==
  [records |-> Append(b.records, verdict),
   waiting |-> IF verdict = "require-approval" THEN b.waiting \cup {NextId(b)} ELSE b.waiting,
   answer |-> b.answer]

\* A human's answer takes the question out of the queue, stands against the
\* decision, and is a record of its own.
WithAnswer(b, id, answer) ==
  [records |-> Append(b.records, answer), waiting |-> b.waiting \ {id},
   answer |-> [b.answer EXCEPT ![id] = answer]]

MayApprove(b, id) == HasRoom(b) /\ id \in b.waiting
MayReject(b, id)  == HasRoom(b) /\ id \in DOMAIN b.records

\* A human acting directly (a grant issued or revoked) leaves a record only.
WithNote(b) ==
  [records |-> Append(b.records, "approved"), waiting |-> b.waiting, answer |-> b.answer]

\* Mutant: a decision that was an escalation is still taken to wait.
StatusByVerdict(b, id) ==
  IF id \in DOMAIN b.records
  THEN IF b.records[id] # "require-approval" /\ b.answer[id] # None
       THEN b.answer[id] ELSE "pending"
  ELSE "unknown"
\* What an agent polling on a decision is told.
StatusOf(b, id) ==
  IF id \in b.waiting THEN "pending"
  ELSE IF id \in BookIds /\ b.answer[id] # None THEN b.answer[id]
  ELSE IF id \in DOMAIN b.records THEN "pending"
  ELSE "unknown"
=============================================================================
