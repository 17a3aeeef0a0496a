----------------------- MODULE GovernedActionsProofs ------------------------
(***************************************************************************)
(* Theorems about GovernedActions, for every choice of its constants; the  *)
(* last four, of the refinement among them, for runs without faults.       *)
(***************************************************************************)
EXTENDS GovernedActions, SequenceTheorems, WellFoundedInduction, TLAPS

\* A write of file f is still to be made.
Owed(f) == \E i \in DOMAIN op.todo : op.todo[i] = f

\* The record goes last but one, just before the count.
PlanShape == \A i \in DOMAIN op.todo :
  /\ op.todo[i] = "chain" => i = Len(op.todo) - 1
  /\ op.todo[i] = "count" => i = Len(op.todo)

\* The log is never longer than the chain in memory, nor than the bound.
Lengths ==
  /\ Len(mem.chain) <= MaxChain
  /\ Len(op.new.chain) <= MaxChain
  /\ Len(disk.chain) <= MaxChain
  /\ Owed("chain") => Len(disk.chain) < Len(op.new.chain)
  /\ scope /\ ~degraded /\ ~Owed("chain") => Len(disk.chain) <= Len(mem.chain)

TypeInv == TypeOK /\ PlanShape /\ Lengths
-----------------------------------------------------------------------------
(* The helpers keep their types. *)

LEMMA TargetType ==
  ASSUME NEW g \in Seq(Grant), NEW c \in [Ids -> Charge \cup {None}],
         NEW p \in SUBSET Ids, NEW r \in [Ids -> Answers \cup {None}],
         NEW h \in Seq(Record)
  PROVE  Target(g, c, p, r, h) \in MemType
BY DEF Target, MemType, StoreType

LEMMA FieldTypes ==
  ASSUME NEW lines, NEW m \in StoreType(lines)
  PROVE  /\ m.grants \in Seq(Grant) /\ m.charges \in [Ids -> Charge \cup {None}]
         /\ m.pending \in SUBSET Ids /\ m.resolved \in [Ids -> Answers \cup {None}]
         /\ m.chain \in Seq(lines)
BY DEF StoreType

LEMMA EmptyType == Empty \in MemType /\ Empty \in DiskType
BY DEF Empty, MemType, DiskType, StoreType

LEMMA ConsumeType ==
  ASSUME NEW g \in Grant, NEW n \in Nat
  PROVE  Consume(g, n) \in Grant
BY DEF Consume, Grant

LEMMA RefundType ==
  ASSUME NEW g \in Grant, NEW n \in Nat
  PROVE  Refund(g, n) \in Grant
BY DEF Refund, Grant, Monus

LEMMA RevokeType ==
  ASSUME NEW g \in Grant
  PROVE  Revoke(g) \in Grant
BY DEF Revoke, Grant

LEMMA RefundedType ==
  ASSUME NEW grants \in Seq(Grant), NEW charge \in Charge
  PROVE  Refunded(grants, charge) \in Seq(Grant)
BY RefundType DEF Refunded, Charge

LEMMA RevokedType ==
  ASSUME NEW grants \in Seq(Grant), NEW gid
  PROVE  Revoked(grants, gid) \in Seq(Grant)
BY RevokeType DEF Revoked

LEMMA AskedType ==
  ASSUME NEW req \in Request
  PROVE  Asked(req).cost \in Nat
BY DEF Asked, Request, ChargeFor

LEMMA InstallType ==
  ASSUME mem \in MemType, op.new \in MemType, NEW f \in Files, Install(f)
  PROVE  mem' \in MemType
BY DEF MemType, StoreType, Install, Touched, Files
-----------------------------------------------------------------------------
(* Every operation starts from a typed plan. *)

OpType == [todo : Seq(Steps), new : MemType, about : SUBSET (Ids \X Answers)]

LEMMA OpRecord ==
  ASSUME NEW t \in Seq(Steps), NEW n \in MemType, NEW a \in SUBSET (Ids \X Answers)
  PROVE  [todo |-> t, new |-> n, about |-> a] \in OpType
BY DEF OpType

LEMMA TargetChain ==
  ASSUME NEW g, NEW c, NEW p, NEW r, NEW h
  PROVE  Target(g, c, p, r, h).chain = h
BY DEF Target

\* What Begin needs to establish the invariant: the plan has the right shape,
\* and if it records something the chain grows by that one record.
LEMMA BeginType ==
  ASSUME TypeInv, Ready, op' \in OpType, mem' \in MemType,
         UNCHANGED << up, scope, degraded, store, history, faults >>,
         Len(mem'.chain) <= MaxChain, Len(op'.new.chain) <= MaxChain,
         PlanShape',
         Owed("chain")' => ~degraded /\ Len(op'.new.chain) = Len(mem.chain) + 1,
         Len(mem.chain) <= Len(mem'.chain)
  PROVE  TypeInv'
<1>1. TypeOK'
  BY DEF TypeInv, TypeOK, OpType, store, history, faults
<1>2. Lengths'
  <2>1. ~Owed("chain")
    BY DEF Ready, Free, Owed
  <2>2. /\ Len(disk.chain) \in Nat /\ Len(mem.chain) \in Nat /\ Len(mem'.chain) \in Nat
    BY FieldTypes DEF TypeInv, TypeOK, MemType, DiskType
  <2>3. disk' = disk /\ scope' = scope /\ degraded' = degraded
    BY DEF store
  <2>4. ~degraded => Len(disk.chain) <= Len(mem.chain)
    BY <2>1 DEF TypeInv, Lengths, Ready
  <2> QED BY <2>2, <2>3, <2>4, BoundsTyped DEF TypeInv, Lengths
<1> QED BY <1>1, <1>2 DEF TypeInv

LEMMA DecisionRecordType ==
  ASSUME NEW req \in Request, NEW p \in Humans \cup {None}, NEW g \in GrantIds \cup {None},
         NEW v \in Verdicts, NEW h \in HicLevels
  PROVE  DecisionRecord(req, p, g, v, h) \in Record
BY DEF DecisionRecord, Record, Request

LEMMA UngovernedType ==
  ASSUME TypeInv, NEW req \in Requests, NEW now \in Instants, EvaluateUngoverned(req, now)
  PROVE  TypeInv'
<1> DEFINE rec == DecisionRecord(req, None, None, "ungoverned", "ungoverned")
           chain == Append(mem.chain, rec)
<1>1. rec \in Record
  BY DecisionRecordType, InputsTyped DEF Verdicts, HicLevels
<1>2. mem \in MemType /\ mem.chain \in Seq(Record)
  BY FieldTypes DEF TypeInv, TypeOK, MemType
<1>3. chain \in Seq(Record) /\ Len(chain) = Len(mem.chain) + 1 /\ Len(chain) <= MaxChain
  BY <1>1, <1>2, BoundsTyped DEF EvaluateUngoverned, CanRecord
<1> HIDE DEF rec
<1>4. mem' = [mem EXCEPT !.chain = chain] /\ mem' \in MemType /\ mem'.chain = chain
  BY <1>2, <1>3 DEF EvaluateUngoverned, MemType, StoreType, rec
<1>5. op' = [todo |-> <<"chain", "count">>,
             new |-> Target(mem.grants, mem.charges, mem.pending, mem.resolved, chain),
             about |-> {}]
  BY DEF EvaluateUngoverned, Begin, rec
<1>6. Target(mem.grants, mem.charges, mem.pending, mem.resolved, chain) \in MemType
  BY <1>2, <1>3, TargetType, FieldTypes DEF MemType
<1>7. op' \in OpType /\ op'.new.chain = chain
  BY <1>5, <1>6 DEF OpType, Steps, Files, Target
<1>8. PlanShape'
  BY <1>5 DEF PlanShape
<1>9. Ready /\ ~degraded /\ UNCHANGED << up, scope, degraded, store, history, faults >>
  BY DEF EvaluateUngoverned, Begin, CheckNotDegraded
<1> HIDE DEF chain
<1> QED BY <1>2, <1>3, <1>4, <1>7, <1>8, <1>9, BeginType

LEMMA GovernedType ==
  ASSUME TypeInv, NEW req \in Requests, NEW now \in Instants, EvaluateGoverned(req, now)
  PROVE  TypeInv'
<1>1. PICK i \in FirstCovering(mem.grants, req.agent, Asked(req), now) :
        EvaluateGoverned(req, now)!(i)
  BY DEF EvaluateGoverned
<1> DEFINE g       == mem.grants[i]
           cost    == Asked(req).cost
           permit  == Permits(Controlled, Allow, req.label, req.model, Unnamed)
           verdict == VerdictUnder(g, Asked(req), permit)
           rec     == DecisionRecord(req, g.principal, g.id, verdict, HicUnder(g, verdict))
           chain   == Append(mem.chain, rec)
           id      == Len(chain)
           charge  == [agent |-> req.agent, grant |-> g.id, units |-> cost]
           grants  == [mem.grants EXCEPT ![i] = Consume(g, cost)]
           charges == [mem.charges EXCEPT ![id] = charge]
           asks    == verdict = "require-approval"
           pending == IF asks THEN mem.pending \cup {id} ELSE mem.pending
<1>2. mem \in MemType /\ mem.chain \in Seq(Record) /\ mem.grants \in Seq(Grant)
  BY FieldTypes DEF TypeInv, TypeOK, MemType
<1>3. i \in DOMAIN mem.grants /\ g \in Grant
  BY <1>1, <1>2 DEF FirstCovering
<1>4. req \in Request /\ cost \in Nat
  BY InputsTyped, AskedType
<1>5. rec \in Record
  <2>1. g.principal \in Humans /\ g.id \in GrantIds /\ g.hic \in GrantHics
    BY <1>3 DEF Grant
  <2>2. verdict \in {"deny", "require-approval", "allow"}
    BY DEF VerdictUnder
  <2>3. HicUnder(g, verdict) \in HicLevels
    BY <2>1 DEF HicUnder, HicLevels, GrantHics
  <2> HIDE DEF g, verdict
  <2> QED BY <1>4, <2>1, <2>2, <2>3, DecisionRecordType DEF Verdicts
<1>6. Ready /\ ~degraded /\ CanRecord /\ UNCHANGED << up, scope, degraded, store, history, faults >>
  BY <1>1 DEF Begin, CheckNotDegraded
<1>7. mem' = [mem EXCEPT !.chain = chain]
  BY <1>1
<1>8. op' = [todo |-> IF asks THEN <<"grants", "charges", "pending", "chain", "count">>
                              ELSE <<"grants", "charges", "chain", "count">>,
             new |-> Target(grants, charges, pending, mem.resolved, chain),
             about |-> {}]
  BY <1>1 DEF Begin
<1>9. charge \in Charge
  BY <1>3, <1>4 DEF Charge, Request, Grant
<1>10. grants \in Seq(Grant)
  BY <1>2, <1>3, <1>4, ConsumeType
<1> HIDE DEF rec, charge, grants
<1>11. chain \in Seq(Record) /\ id = Len(mem.chain) + 1 /\ id \in Ids /\ Len(mem.chain) \in Nat
  BY <1>2, <1>5, <1>6, BoundsTyped DEF CanRecord, Ids
<1> HIDE DEF id, asks
<1>12. charges \in [Ids -> Charge \cup {None}] /\ pending \in SUBSET Ids
  BY <1>9, <1>11, FieldTypes, <1>2 DEF MemType
<1>13. mem' \in MemType /\ mem'.chain = chain
  BY <1>2, <1>7, <1>11 DEF MemType, StoreType
<1> HIDE DEF charges, pending
<1>14. Target(grants, charges, pending, mem.resolved, chain) \in MemType
  BY <1>2, <1>10, <1>11, <1>12, TargetType, FieldTypes DEF MemType
<1>15. op' \in OpType /\ op'.new.chain = chain
  <2>1. <<"grants", "charges", "pending", "chain", "count">> \in Seq(Steps)
    BY DEF Steps, Files
  <2>2. <<"grants", "charges", "chain", "count">> \in Seq(Steps)
    BY DEF Steps, Files
  <2> DEFINE plan == IF asks THEN <<"grants", "charges", "pending", "chain", "count">>
                             ELSE <<"grants", "charges", "chain", "count">>
  <2>3. plan \in Seq(Steps)
    BY <2>1, <2>2
  <2> DEFINE new == Target(grants, charges, pending, mem.resolved, chain)
  <2>4. new \in MemType /\ new.chain = chain
    <3> HIDE DEF chain
    <3> QED BY <1>14, TargetChain
  <2>5. op' = [todo |-> plan, new |-> new, about |-> {}]
    BY <1>8
  <2> HIDE DEF plan, new
  <2>6. op' \in OpType
    BY <2>3, <2>4, <2>5, OpRecord
  <2> QED BY <2>4, <2>5, <2>6
<1>16. PlanShape'
  BY <1>8 DEF PlanShape
<1>17. Len(chain) = Len(mem.chain) + 1 /\ Len(chain) <= MaxChain
  BY <1>11, BoundsTyped DEF id, Ids
<1> HIDE DEF chain
<1> QED BY <1>6, <1>11, <1>13, <1>15, <1>16, <1>17, BeginType

LEMMA AnswerRecordType ==
  ASSUME mem.chain \in Seq(Record), NEW id \in DOMAIN mem.chain,
         NEW p \in Humans \cup {None}, NEW v \in Verdicts
  PROVE  AnswerRecord(id, p, v) \in Record
<1>1. mem.chain[id] \in Record
  OBVIOUS
<1> QED BY <1>1 DEF AnswerRecord, Record, HicLevels

LEMMA ApproveType ==
  ASSUME TypeInv, NEW id \in Ids, NEW who \in Humans, Approve(id, who)
  PROVE  TypeInv'
<1> DEFINE known == id \in DOMAIN mem.chain
           rec   == AnswerRecord(id, who, "approved")
           chain == IF known THEN Append(mem.chain, rec) ELSE mem.chain
           resolved == [mem.resolved EXCEPT ![id] = "approved"]
<1>1. mem \in MemType /\ mem.chain \in Seq(Record) /\ id \in Ids
  BY FieldTypes DEF TypeInv, TypeOK, MemType
<1>2. known => rec \in Record
  BY <1>1, AnswerRecordType DEF Verdicts
<1>3. Ready /\ ~degraded /\ CanRecord /\ mem' = mem
      /\ UNCHANGED << up, scope, degraded, store, history, faults >>
  BY DEF Approve, Begin, CheckNotDegraded
<1>4. op' = [todo |-> IF known THEN <<"pending", "resolved", "chain", "count">>
                               ELSE <<"pending", "resolved">>,
             new |-> Target(mem.grants, mem.charges, mem.pending \ {id}, resolved, chain),
             about |-> IF known THEN {<<id, "approved">>} ELSE {}]
  BY DEF Approve, Begin
<1> HIDE DEF rec
<1>5. /\ chain \in Seq(Record) /\ Len(chain) <= MaxChain
      /\ known => Len(chain) = Len(mem.chain) + 1
  BY <1>1, <1>2, <1>3, BoundsTyped DEF CanRecord
<1> HIDE DEF known, chain
<1>6. resolved \in [Ids -> Answers \cup {None}] /\ mem.pending \ {id} \in SUBSET Ids
  BY <1>1, FieldTypes DEF MemType, Answers
<1>7. Target(mem.grants, mem.charges, mem.pending \ {id}, resolved, chain) \in MemType
  BY <1>1, <1>5, <1>6, TargetType, FieldTypes DEF MemType
<1>8. op' \in OpType /\ op'.new.chain = chain /\ (Owed("chain")' => known)
  <2>1. <<"pending", "resolved", "chain", "count">> \in Seq(Steps)
    BY DEF Steps, Files
  <2>2. <<"pending", "resolved">> \in Seq(Steps)
    BY DEF Steps, Files
  <2>3. {<<id, "approved">>} \in SUBSET (Ids \X Answers)
    BY <1>1 DEF Answers
  <2> DEFINE plan  == IF known THEN <<"pending", "resolved", "chain", "count">>
                              ELSE <<"pending", "resolved">>
             new   == Target(mem.grants, mem.charges, mem.pending \ {id}, resolved, chain)
             about == IF known THEN {<<id, "approved">>} ELSE {}
  <2>6. plan \in Seq(Steps) /\ about \in SUBSET (Ids \X Answers)
    BY <2>1, <2>2, <2>3
  <2>7. new \in MemType /\ new.chain = chain
    BY <1>7, TargetChain
  <2>8. op' = [todo |-> plan, new |-> new, about |-> about]
    BY <1>4
  <2>4. op' \in OpType /\ op'.new.chain = chain
    <3> HIDE DEF plan, new, about
    <3>1. op' \in OpType
      BY <2>6, <2>7, <2>8, OpRecord
    <3> QED BY <2>7, <2>8, <3>1
  <2>5. ~known => ~Owed("chain")'
    BY <1>4 DEF Owed
  <2> QED BY <2>4, <2>5
<1>9. PlanShape'
  BY <1>4 DEF PlanShape
<1>10. Len(mem.chain) \in Nat /\ Len(mem.chain) <= MaxChain
  BY <1>1 DEF TypeInv, Lengths
<1> QED BY <1>1, <1>3, <1>5, <1>8, <1>9, <1>10, BeginType

LEMMA RejectType ==
  ASSUME TypeInv, NEW id \in DOMAIN mem.chain, Reject(id)
  PROVE  TypeInv'
<1> DEFINE asked   == id \in mem.pending
           charged == mem.charges[id] # None
           rec     == AnswerRecord(id, mem.chain[id].principal, "rejected")
           chain   == Append(mem.chain, rec)
           grants  == IF charged THEN Refunded(mem.grants, mem.charges[id]) ELSE mem.grants
           charges == [mem.charges EXCEPT ![id] = None]
           resolved == [mem.resolved EXCEPT ![id] = "rejected"]
<1>1. mem \in MemType /\ mem.chain \in Seq(Record) /\ mem.charges \in [Ids -> Charge \cup {None}]
      /\ mem.grants \in Seq(Grant)
  BY FieldTypes DEF TypeInv, TypeOK, MemType
<1>2. id \in Ids
  BY <1>1, BoundsTyped DEF TypeInv, Lengths, Ids
<1>3. rec \in Record
  <2>2. mem.chain[id] \in Record
    BY <1>1
  <2>1. mem.chain[id].principal \in Humans \cup {None}
    BY <2>2 DEF Record
  <2> QED BY <1>1, <2>1, AnswerRecordType DEF Verdicts
<1>4. Ready /\ ~degraded /\ CanRecord /\ mem' = mem
      /\ UNCHANGED << up, scope, degraded, store, history, faults >>
  BY DEF Reject, Begin, CheckNotDegraded
<1>5. op' = [todo |-> RejectPlan(asked, charged),
             new |-> Target(grants, charges, mem.pending \ {id}, resolved, chain),
             about |-> {<<id, "rejected">>}]
  BY DEF Reject, Begin
<1> HIDE DEF rec
<1>6. chain \in Seq(Record) /\ Len(chain) <= MaxChain /\ Len(chain) = Len(mem.chain) + 1
  BY <1>1, <1>3, <1>4, BoundsTyped DEF CanRecord
<1>7. grants \in Seq(Grant)
  BY <1>1, <1>2, RefundedType
<1>8. charges \in [Ids -> Charge \cup {None}] /\ resolved \in [Ids -> Answers \cup {None}]
      /\ mem.pending \ {id} \in SUBSET Ids
  BY <1>1, FieldTypes DEF MemType, Answers
<1> HIDE DEF chain, grants, charges, resolved, asked, charged
<1>9. Target(grants, charges, mem.pending \ {id}, resolved, chain) \in MemType
  BY <1>6, <1>7, <1>8, TargetType
<1>10. RejectPlan(asked, charged) \in Seq(Steps)
  <2>1. <<"pending", "resolved", "grants", "charges", "chain", "count">> \in Seq(Steps)
    BY DEF Steps, Files
  <2>2. <<"pending", "resolved", "chain", "count">> \in Seq(Steps)
    BY DEF Steps, Files
  <2>3. <<"resolved", "grants", "charges", "chain", "count">> \in Seq(Steps)
    BY DEF Steps, Files
  <2>4. <<"resolved", "chain", "count">> \in Seq(Steps)
    BY DEF Steps, Files
  <2> QED BY <2>1, <2>2, <2>3, <2>4 DEF RejectPlan
<1>11. op' \in OpType /\ op'.new.chain = chain
  BY <1>2, <1>5, <1>9, <1>10, OpRecord, TargetChain DEF Answers
<1>12. PlanShape'
  BY <1>5 DEF PlanShape, RejectPlan
<1>13. Len(mem.chain) \in Nat /\ Len(mem.chain) <= MaxChain
  BY <1>1 DEF TypeInv, Lengths
<1> QED BY <1>1, <1>4, <1>6, <1>11, <1>12, <1>13, BeginType

LEMMA ActRecordType ==
  ASSUME NEW who \in Humans, NEW class \in {"grant.issue", "grant.revoke"}, NEW ref \in GrantIds
  PROVE  ActRecord(who, class, ref) \in Record
BY DEF ActRecord, Record, Verdicts, HicLevels

\* Issuing and revoking share their plan: the grants, then a record if there
\* is one to make.
LEMMA GrantPlanType ==
  ASSUME TypeInv, Ready, CanRecord, NEW recorded \in BOOLEAN, recorded => ~degraded,
         NEW grants \in Seq(Grant), NEW rec \in Record, mem' = mem,
         Begin(GrantPlan(recorded),
               Target(grants, mem.charges, mem.pending, mem.resolved,
                      IF recorded THEN Append(mem.chain, rec) ELSE mem.chain), {})
  PROVE  TypeInv'
<1> DEFINE chain == IF recorded THEN Append(mem.chain, rec) ELSE mem.chain
           new   == Target(grants, mem.charges, mem.pending, mem.resolved, chain)
           plan  == GrantPlan(recorded)
<1>1. mem \in MemType /\ mem.chain \in Seq(Record)
  BY FieldTypes DEF TypeInv, TypeOK, MemType
<1>2. /\ chain \in Seq(Record) /\ Len(chain) <= MaxChain
      /\ recorded => Len(chain) = Len(mem.chain) + 1
      /\ Len(mem.chain) \in Nat /\ Len(mem.chain) <= MaxChain
  BY <1>1, BoundsTyped DEF CanRecord, TypeInv, Lengths
<1>3. plan \in Seq(Steps)
  <2>1. <<"grants", "chain", "count">> \in Seq(Steps)
    BY DEF Steps, Files
  <2>2. <<"grants">> \in Seq(Steps)
    BY DEF Steps, Files
  <2> QED BY <2>1, <2>2 DEF GrantPlan
<1>4. op' = [todo |-> plan, new |-> new, about |-> {}]
      /\ UNCHANGED << up, scope, degraded, store, history, faults >>
  BY DEF Begin
<1>5. PlanShape' /\ (Owed("chain")' => recorded)
  BY <1>4 DEF PlanShape, Owed, GrantPlan
<1> HIDE DEF chain
<1>6. new \in MemType /\ new.chain = chain
  BY <1>1, <1>2, TargetType, TargetChain, FieldTypes DEF MemType
<1> HIDE DEF new, plan
<1>7. op' \in OpType /\ op'.new.chain = chain
  <2>1. op' \in OpType
    BY <1>3, <1>4, <1>6, OpRecord
  <2> QED BY <1>4, <1>6, <2>1
<1> QED BY <1>1, <1>2, <1>4, <1>5, <1>7, BeginType

LEMMA IssueType ==
  ASSUME TypeInv, NEW g \in NewGrants, NEW issuer \in Issuers, IssueGrant(g, issuer)
  PROVE  TypeInv'
<1> DEFINE recorded == ~degraded /\ issuer # Blank
           rec      == ActRecord(issuer, "grant.issue", g.id)
<1>1. g \in Grant /\ g.id \in GrantIds
  BY InputsTyped DEF Grant
<1>2. Append(mem.grants, g) \in Seq(Grant)
  BY <1>1, FieldTypes DEF TypeInv, TypeOK, MemType
<1>3. CASE recorded
  <2>1. rec \in Record
    BY <1>1, <1>3, InputsTyped, ActRecordType
  <2> QED BY <1>2, <1>3, <2>1, GrantPlanType DEF IssueGrant
<1>4. CASE ~recorded
  <2>1. PICK r \in Record : TRUE
    <3> PICK w \in Humans : TRUE
      BY <1>1 DEF Grant
    <3> QED BY <1>1, ActRecordType
  <2>2. Begin(GrantPlan(FALSE),
              Target(Append(mem.grants, g), mem.charges, mem.pending, mem.resolved,
                     IF FALSE THEN Append(mem.chain, r) ELSE mem.chain), {})
    BY <1>4 DEF IssueGrant, CheckNotDegraded
  <2>3. Ready /\ CanRecord /\ mem' = mem
    BY DEF IssueGrant
  <2> QED BY <1>2, <2>1, <2>2, <2>3, GrantPlanType
<1> QED BY <1>3, <1>4

LEMMA RevokeGrantType ==
  ASSUME TypeInv, NEW gid \in GrantIds, NEW who \in Humans, RevokeGrant(gid, who)
  PROVE  TypeInv'
<1> DEFINE recorded == ~degraded
           rec      == ActRecord(who, "grant.revoke", gid)
<1>1. Revoked(mem.grants, gid) \in Seq(Grant)
  BY FieldTypes, RevokedType DEF TypeInv, TypeOK, MemType
<1>2. rec \in Record
  BY ActRecordType
<1>3. Ready /\ CanRecord /\ mem' = mem
  BY DEF RevokeGrant
<1>4. Begin(GrantPlan(recorded),
            Target(Revoked(mem.grants, gid), mem.charges, mem.pending, mem.resolved,
                   IF recorded THEN Append(mem.chain, rec) ELSE mem.chain), {})
  BY DEF RevokeGrant, CheckNotDegraded
<1> HIDE DEF rec
<1> QED BY <1>1, <1>2, <1>3, <1>4, GrantPlanType
-----------------------------------------------------------------------------
(* The durable writes, the faults and the restarts. *)

\* Making the first write of a plan leaves a plan, shorter by that write.
LEMMA DoneType ==
  ASSUME op \in OpType, PlanShape, op.todo # <<>>, op' = [op EXCEPT !.todo = Tail(@)]
  PROVE  /\ op' \in OpType /\ op'.new = op.new /\ op'.about = op.about
         /\ PlanShape'
         /\ \A f : Owed(f)' => Owed(f)
         /\ Head(op.todo) = "chain" => ~Owed("chain")'
<1>1. op.todo \in Seq(Steps) /\ Tail(op.todo) \in Seq(Steps)
  BY DEF OpType
<1>2. op' \in OpType /\ op'.todo = Tail(op.todo) /\ op'.new = op.new /\ op'.about = op.about
  BY <1>1 DEF OpType
<1>3. /\ Len(op'.todo) = Len(op.todo) - 1
      /\ \A i \in DOMAIN op'.todo : i + 1 \in DOMAIN op.todo /\ op'.todo[i] = op.todo[i + 1]
      /\ op.todo[1] = Head(op.todo) /\ 1 \in DOMAIN op.todo
      /\ DOMAIN op.todo = 1..Len(op.todo) /\ DOMAIN op'.todo = 1..Len(op'.todo)
  BY <1>1, <1>2
<1>7. Len(op.todo) \in Nat \ {0} /\ Len(op'.todo) \in Nat
  BY <1>1, <1>2
<1>4. PlanShape'
  <2> SUFFICES ASSUME NEW i \in DOMAIN op'.todo
               PROVE  /\ op'.todo[i] = "chain" => i = Len(op'.todo) - 1
                      /\ op'.todo[i] = "count" => i = Len(op'.todo)
    BY DEF PlanShape
  <2>1. /\ op'.todo[i] = "chain" => i + 1 = Len(op.todo) - 1
        /\ op'.todo[i] = "count" => i + 1 = Len(op.todo)
        /\ i \in Nat
    BY <1>3, <1>7 DEF PlanShape
  <2> QED BY <1>3, <1>7, <2>1
<1>5. \A f : Owed(f)' => Owed(f)
  BY <1>3 DEF Owed
<1>6. Head(op.todo) = "chain" => ~Owed("chain")'
  <2> SUFFICES ASSUME op.todo[1] = "chain", NEW i \in DOMAIN op'.todo, op'.todo[i] = "chain"
               PROVE  FALSE
    BY <1>3 DEF Owed
  <2>1. op.todo[i + 1] = "chain" /\ i + 1 \in DOMAIN op.todo /\ 1 \in DOMAIN op.todo
        /\ i \in Nat \ {0}
    BY <1>3, <1>7
  <2>2. 1 = Len(op.todo) - 1 /\ i + 1 = Len(op.todo) - 1
    BY <2>1 DEF PlanShape
  <2> DEFINE n == Len(op.todo)
  <2>3. n \in Int /\ i \in Int /\ 1 <= i /\ 1 = n - 1 /\ i + 1 = n - 1
    BY <1>7, <2>1, <2>2
  <2> HIDE DEF n
  <2> QED BY <2>3
<1> QED BY <1>2, <1>4, <1>5, <1>6

LEMMA HeadOwed ==
  ASSUME op \in OpType, NEW f, Writing(f)
  PROVE  Owed(f)
<1>1. op.todo \in Seq(Steps) /\ op.todo # <<>>
  BY DEF OpType, Writing
<1>2. 1 \in DOMAIN op.todo /\ op.todo[1] = f
  BY <1>1 DEF Writing
<1> QED BY <1>2 DEF Owed

LEMMA WriteSetType ==
  ASSUME TypeInv, WriteSet
  PROVE  TypeInv'
<1>1. PICK f \in Files \ {"chain"} : WriteSet!(f)
  BY DEF WriteSet
<1>2. op \in OpType /\ mem \in MemType /\ disk \in DiskType /\ op.new \in MemType
  BY DEF TypeInv, TypeOK, OpType
<1>3. /\ op' \in OpType /\ op'.new = op.new /\ op'.about = op.about
      /\ PlanShape' /\ \A x : Owed(x)' => Owed(x)
  BY <1>1, <1>2, DoneType DEF Writing, Done, TypeInv
<1>4. mem' \in MemType
  BY <1>1, <1>2, InstallType
<1>5. mem'.chain = mem.chain
  BY <1>1, <1>2 DEF Install, Touched, Files, MemType, StoreType
<1>6. disk' \in DiskType /\ disk'.chain = disk.chain
  BY <1>1, <1>2 DEF DiskType, MemType, StoreType, Files
<1>7. TypeOK'
  BY <1>1, <1>3, <1>4, <1>6 DEF TypeInv, TypeOK, OpType, history, faults
<1>8. Owed("chain")' <=> Owed("chain")
  <2>1. op.todo \in Seq(Steps) /\ op.todo # <<>> /\ op'.todo = Tail(op.todo)
        /\ Head(op.todo) # "chain"
    BY <1>1, <1>2 DEF OpType, Writing, Done
  <2>2. ASSUME NEW i \in DOMAIN op.todo, op.todo[i] = "chain"
        PROVE  Owed("chain")'
    <3>1. i - 1 \in DOMAIN op'.todo /\ op'.todo[i - 1] = op.todo[i]
      BY <2>1, <2>2
    <3> QED BY <2>2, <3>1 DEF Owed
  <2> QED BY <2>2, <1>3 DEF Owed
<1>9. Lengths'
  BY <1>1, <1>3, <1>5, <1>6, <1>8 DEF TypeInv, Lengths
<1> QED BY <1>3, <1>7, <1>9 DEF TypeInv

LEMMA ExceptLast ==
  ASSUME NEW S, NEW s \in Seq(S), NEW x \in S
  PROVE  [s EXCEPT ![Len(s)] = x] \in Seq(S) /\ Len([s EXCEPT ![Len(s)] = x]) = Len(s)
<1>1. CASE s = <<>>
  <2>1. [s EXCEPT ![Len(s)] = x] = s
    BY <1>1
  <2> QED BY <2>1
<1>2. CASE s # <<>>
  <2>1. Len(s) \in 1..Len(s)
    BY <1>2
  <2> QED BY <2>1, ExceptSeq
<1> QED BY <1>1, <1>2

LEMMA AppendedType ==
  ASSUME disk \in DiskType, NEW line \in Record \cup {Garbage}
  PROVE  /\ Appended(line) \in Seq(Record \cup {Garbage})
         /\ Len(Appended(line)) <= Len(disk.chain) + 1
         /\ eol => Appended(line) = Append(disk.chain, line)
         /\ [disk EXCEPT !.chain = Appended(line)] \in DiskType
         /\ [disk EXCEPT !.chain = Appended(line)].chain = Appended(line)
<1>1. disk.chain \in Seq(Record \cup {Garbage})
  BY FieldTypes DEF DiskType
<1>2. CASE eol
  <2>1. Appended(line) = Append(disk.chain, line)
    BY <1>2 DEF Appended
  <2>2. Append(disk.chain, line) \in Seq(Record \cup {Garbage})
        /\ Len(Append(disk.chain, line)) = Len(disk.chain) + 1 /\ Len(disk.chain) \in Nat
    BY <1>1
  <2>3. Appended(line) \in Seq(Record \cup {Garbage}) /\ Len(Appended(line)) <= Len(disk.chain) + 1
    BY <2>1, <2>2
  <2> HIDE DEF Appended
  <2> QED BY <2>1, <2>3 DEF DiskType, StoreType
<1>3. CASE ~eol
  <2>1. Appended(line) = [disk.chain EXCEPT ![Len(disk.chain)] = Garbage]
    BY <1>3 DEF Appended
  <2> HIDE DEF Appended
  <2>2. /\ [disk.chain EXCEPT ![Len(disk.chain)] = Garbage] \in Seq(Record \cup {Garbage})
        /\ Len([disk.chain EXCEPT ![Len(disk.chain)] = Garbage]) = Len(disk.chain)
        /\ Len(disk.chain) \in Nat
    BY <1>1, ExceptLast
  <2>3. Appended(line) \in Seq(Record \cup {Garbage}) /\ Len(Appended(line)) <= Len(disk.chain) + 1
    BY <2>1, <2>2
  <2> QED BY <1>3, <2>3 DEF DiskType, StoreType
<1> QED BY <1>2, <1>3

\* The record of the plan is a record, since the chain grew by it.
LEMMA LineType ==
  ASSUME TypeInv, Writing("chain")
  PROVE  Last(op.new.chain) \in Record /\ Len(disk.chain) < Len(op.new.chain)
         /\ Len(disk.chain) \in Nat /\ Len(op.new.chain) \in Nat
<1>1. op \in OpType /\ op.new.chain \in Seq(Record) /\ disk.chain \in Seq(Record \cup {Garbage})
  BY FieldTypes DEF TypeInv, TypeOK, OpType, MemType, DiskType
<1>2. Len(disk.chain) < Len(op.new.chain)
  BY <1>1, HeadOwed DEF TypeInv, Lengths
<1> QED BY <1>1, <1>2 DEF Last

LEMMA WriteRecordType ==
  ASSUME TypeInv, WriteRecord
  PROVE  TypeInv'
<1>1. op \in OpType /\ mem \in MemType /\ disk \in DiskType /\ op.new \in MemType
  BY DEF TypeInv, TypeOK, OpType
<1>2. /\ op' \in OpType /\ op'.new = op.new /\ op'.about = op.about
      /\ PlanShape' /\ ~Owed("chain")'
  BY <1>1, DoneType DEF WriteRecord, Writing, Done, TypeInv
<1>3. mem' \in MemType
  BY <1>1, InstallType DEF WriteRecord, Files
<1>4. mem'.chain = op.new.chain
  BY <1>1 DEF WriteRecord, Install, Touched, Files, MemType, StoreType
<1>5. Last(op.new.chain) \in Record /\ Len(disk.chain) < Len(op.new.chain)
      /\ Len(disk.chain) \in Nat /\ Len(op.new.chain) \in Nat
  BY LineType DEF WriteRecord
<1>6. disk' \in DiskType /\ Len(disk'.chain) <= Len(disk.chain) + 1
  BY <1>1, <1>5, AppendedType DEF WriteRecord, LogGains
<1>7. answered' \subseteq Ids \X Answers
  BY <1>1 DEF WriteRecord, LogGains, OpType, TypeInv, TypeOK
<1>8. TypeOK'
  BY <1>2, <1>3, <1>6, <1>7 DEF WriteRecord, TypeInv, TypeOK, OpType, faults
<1>9. Len(disk'.chain) \in Nat
  BY <1>6, FieldTypes DEF DiskType
<1>10. Lengths'
  BY <1>2, <1>4, <1>5, <1>6, <1>9, BoundsTyped DEF WriteRecord, TypeInv, Lengths
<1> QED BY <1>2, <1>8, <1>10 DEF TypeInv

LEMMA WriteCountType ==
  ASSUME TypeInv, WriteCount
  PROVE  TypeInv'
<1>1. op \in OpType /\ mem \in MemType
  BY DEF TypeInv, TypeOK, OpType
<1>2. /\ op' \in OpType /\ op'.new = op.new
      /\ PlanShape' /\ \A x : Owed(x)' => Owed(x)
  BY <1>1, DoneType DEF WriteCount, Writing, Done, TypeInv
<1>3. acked' \in Seq(Record)
  BY <1>1, FieldTypes DEF WriteCount, MemType
<1>4. TypeOK'
  BY <1>2, <1>3 DEF WriteCount, TypeInv, TypeOK, OpType, faults
<1>5. ~Owed("chain")
  <2>1. op.todo \in Seq(Steps) /\ op.todo # <<>> /\ op.todo[1] = "count"
    BY <1>1 DEF OpType, WriteCount, Writing
  <2>2. ASSUME NEW i \in DOMAIN op.todo, op.todo[i] = "chain"
        PROVE  FALSE
    <3> QED BY <2>1, <2>2 DEF PlanShape, TypeInv
  <2> QED BY <2>2 DEF Owed
<1>6. Lengths'
  BY <1>2, <1>5 DEF WriteCount, TypeInv, Lengths
<1> QED BY <1>2, <1>4, <1>6 DEF TypeInv

\* Whatever an interrupted write left behind, the log is a sequence of lines
\* no longer than the bound, and history only gains answers of the plan.
LEMMA InterruptedType ==
  ASSUME TypeInv, Interrupted, op.todo # <<>>, up
  PROVE  disk' \in DiskType /\ eol' \in BOOLEAN /\ answered' \subseteq Ids \X Answers
         /\ Len(disk'.chain) <= MaxChain
<1>1. op \in OpType /\ disk \in DiskType /\ op.new \in MemType /\ eol \in BOOLEAN
      /\ answered \subseteq Ids \X Answers /\ op.about \subseteq Ids \X Answers
  BY DEF TypeInv, TypeOK, OpType
<1>2. CASE UNCHANGED << disk, eol, answered >>
  BY <1>1, <1>2 DEF TypeInv, Lengths
<1>3. CASE ~UNCHANGED << disk, eol, answered >>
  <2>1. Writing("chain")
    BY <1>3 DEF Interrupted, Writing
  <2>2. Last(op.new.chain) \in Record /\ Len(disk.chain) + 1 <= MaxChain /\ Len(disk.chain) \in Nat
    BY <2>1, LineType, BoundsTyped DEF TypeInv, Lengths
  <2>3. PICK line \in Record \cup {Garbage} : disk' = [disk EXCEPT !.chain = Appended(line)]
    BY <1>3, <2>2 DEF Interrupted, LogGains
  <2>4. eol' \in BOOLEAN /\ answered' \subseteq Ids \X Answers
    BY <1>1, <1>3 DEF Interrupted, LogGains
  <2>5. disk' \in DiskType /\ Len(disk'.chain) <= Len(disk.chain) + 1
    BY <1>1, <2>3, AppendedType
  <2>6. Len(disk'.chain) \in Nat
    BY <2>5, FieldTypes DEF DiskType
  <2> QED BY <2>2, <2>4, <2>5, <2>6, BoundsTyped
<1> QED BY <1>2, <1>3

LEMMA NoOpType ==
  ASSUME op' = NoOp
  PROVE  op' \in OpType /\ op'.new = Empty /\ PlanShape' /\ \A f : ~Owed(f)'
<1>1. op'.todo = <<>> /\ op'.new = Empty
  BY DEF NoOp
<1>2. <<>> \in Seq(Steps) /\ {} \in SUBSET (Ids \X Answers)
  OBVIOUS
<1>3. op' \in OpType
  BY <1>2, EmptyType DEF NoOp, OpType
<1>4. DOMAIN op'.todo = {}
  BY <1>1
<1> QED BY <1>1, <1>3, <1>4 DEF PlanShape, Owed

LEMMA EmptyChain == Len(Empty.chain) = 0
BY DEF Empty

LEMMA WriteFailsType ==
  ASSUME TypeInv, WriteFails
  PROVE  TypeInv'
<1>1. PICK f \in Steps : Writing(f) /\ IF f = "count" THEN UNCHANGED mem ELSE Install(f)
  BY DEF WriteFails
<1>2. op \in OpType /\ mem \in MemType /\ op.new \in MemType /\ failures \in 0..MaxFailures
  BY DEF TypeInv, TypeOK, OpType
<1>3. disk' \in DiskType /\ eol' \in BOOLEAN /\ answered' \subseteq Ids \X Answers
      /\ Len(disk'.chain) <= MaxChain
  BY <1>1, InterruptedType DEF WriteFails, Writing
<1>4. mem' \in MemType
  BY <1>1, <1>2, InstallType DEF Steps
<1>5. mem'.chain \in {mem.chain, op.new.chain}
  BY <1>1, <1>2 DEF Install, Touched, Steps, Files, MemType, StoreType
<1>6. failures' \in 0..MaxFailures
  BY <1>2, BoundsTyped DEF WriteFails
<1>7. op' \in OpType /\ op'.new = Empty /\ PlanShape' /\ \A x : ~Owed(x)'
  BY NoOpType DEF WriteFails
<1>8. TypeOK'
  BY <1>3, <1>4, <1>6, <1>7 DEF WriteFails, TypeInv, TypeOK, OpType
<1>9. Lengths'
  BY <1>3, <1>5, <1>7, EmptyChain, BoundsTyped DEF WriteFails, TypeInv, Lengths
<1> QED BY <1>7, <1>8, <1>9 DEF TypeInv

\* What a restart loads is typed: a readable log holds records only.
LEMMA LoadType ==
  ASSUME TypeInv, Readable
  PROVE  disk \in MemType /\ Len(disk.chain) <= MaxChain
<1>1. disk \in DiskType /\ disk.chain \in Seq(Record \cup {Garbage})
  BY FieldTypes DEF TypeInv, TypeOK, DiskType
<1>2. \A i \in DOMAIN disk.chain : disk.chain[i] \in Record
  BY <1>1 DEF Readable
<1>3. disk.chain \in Seq(Record)
  <2>1. Len(disk.chain) \in Nat /\ disk.chain = [i \in 1..Len(disk.chain) |-> disk.chain[i]]
        /\ DOMAIN disk.chain = 1..Len(disk.chain)
    BY <1>1
  <2> QED BY <1>2, <2>1
<1> QED BY <1>1, <1>3 DEF DiskType, MemType, StoreType, TypeInv, Lengths

LEMMA EstablishType ==
  ASSUME TypeInv, Readable, NEW saved \in BOOLEAN, Establish(saved)
  PROVE  mem' \in MemType /\ mem'.chain = disk.chain /\ Len(mem'.chain) <= MaxChain
         /\ dScope' \in BOOLEAN /\ failures' \in 0..MaxFailures
<1>1. failures \in 0..MaxFailures /\ dScope \in BOOLEAN
  BY DEF TypeInv, TypeOK
<1> QED BY <1>1, LoadType, BoundsTyped DEF Establish, Loaded

LEMMA SetActiveTenantType ==
  ASSUME TypeInv, SetActiveTenant
  PROVE  TypeInv'
<1>1. PICK saved \in BOOLEAN : Establish(saved) /\ scope' = (scope \/ saved)
  BY DEF SetActiveTenant
<1>2. mem' \in MemType /\ mem'.chain = disk.chain /\ Len(mem'.chain) <= MaxChain
      /\ dScope' \in BOOLEAN /\ failures' \in 0..MaxFailures
  BY <1>1, EstablishType DEF SetActiveTenant
<1>3. TypeOK'
  BY <1>1, <1>2 DEF SetActiveTenant, TypeInv, TypeOK, history
<1>4. PlanShape' /\ (Owed("chain")' <=> Owed("chain"))
  BY DEF SetActiveTenant, TypeInv, PlanShape, Owed
<1>5. Len(disk.chain) \in Nat
  BY FieldTypes DEF TypeInv, TypeOK, DiskType
<1>6. Lengths'
  BY <1>2, <1>4, <1>5 DEF SetActiveTenant, TypeInv, Lengths
<1> QED BY <1>3, <1>4, <1>6 DEF TypeInv

LEMMA EndsType ==
  ASSUME TypeInv, Ends, disk' \in DiskType, Len(disk'.chain) <= MaxChain,
         eol' \in BOOLEAN, answered' \subseteq Ids \X Answers, crashes' \in 0..MaxCrashes,
         UNCHANGED << count, dScope, acked, failures >>
  PROVE  TypeInv'
<1>1. op' \in OpType /\ op'.new = Empty /\ PlanShape' /\ \A f : ~Owed(f)'
  BY NoOpType DEF Ends
<1>2. TypeOK'
  BY <1>1, EmptyType DEF Ends, TypeInv, TypeOK, OpType
<1>3. Lengths'
  BY <1>1, EmptyChain, BoundsTyped DEF Ends, TypeInv, Lengths
<1> QED BY <1>1, <1>2, <1>3 DEF TypeInv

LEMMA ExitType ==
  ASSUME TypeInv, Exit
  PROVE  TypeInv'
BY EndsType DEF Exit, TypeInv, TypeOK, Lengths, store, history, faults

LEMMA CrashType ==
  ASSUME TypeInv, Crash
  PROVE  TypeInv'
<1>1. crashes' \in 0..MaxCrashes
  BY BoundsTyped DEF Crash, TypeInv, TypeOK
<1> QED BY <1>1, InterruptedType, EndsType DEF Crash

LEMMA RestartType ==
  ASSUME TypeInv, Restart
  PROVE  TypeInv'
<1>1. PlanShape' /\ (Owed("chain")' <=> Owed("chain")) /\ UNCHANGED << degraded, op, disk >>
  BY DEF Restart, TypeInv, PlanShape, Owed
<1>2. CASE dScope /\ Readable
  <2>1. PICK saved \in BOOLEAN : Establish(saved) /\ scope' = saved
    BY <1>2 DEF Restart
  <2>2. mem' \in MemType /\ mem'.chain = disk.chain /\ Len(mem'.chain) <= MaxChain
        /\ dScope' \in BOOLEAN /\ failures' \in 0..MaxFailures
    BY <1>2, <2>1, EstablishType
  <2>3. TypeOK'
    BY <2>1, <2>2 DEF Restart, TypeInv, TypeOK, history
  <2>4. Len(disk.chain) \in Nat
    BY FieldTypes DEF TypeInv, TypeOK, DiskType
  <2>5. Lengths'
    BY <1>1, <2>2, <2>4 DEF TypeInv, Lengths
  <2> QED BY <1>1, <2>3, <2>5 DEF TypeInv
<1>3. CASE ~(dScope /\ Readable)
  <2>1. TypeOK'
    BY <1>3 DEF Restart, TypeInv, TypeOK, history
  <2>2. Lengths'
    BY <1>1, <1>3 DEF Restart, TypeInv, Lengths
  <2> QED BY <1>1, <2>1, <2>2 DEF TypeInv
<1> QED BY <1>2, <1>3
-----------------------------------------------------------------------------
LEMMA InitType == Init => TypeInv
<1> SUFFICES ASSUME Init PROVE TypeInv
  OBVIOUS
<1>1. op.todo = <<>> /\ op.new = Empty /\ op.about = {} /\ DOMAIN op.todo = {}
  BY DEF Init, NoOp
<1>2. op \in OpType
  <2>1. <<>> \in Seq(Steps) /\ {} \in SUBSET (Ids \X Answers)
    OBVIOUS
  <2> QED BY <2>1, EmptyType DEF Init, NoOp, OpType
<1>3. TypeOK
  <2>1. mem \in MemType /\ disk \in DiskType
    BY EmptyType DEF Init
  <2>2. acked \in Seq(Record) /\ answered \subseteq Ids \X Answers /\ count \in Nat
        /\ crashes \in 0..MaxCrashes /\ failures \in 0..MaxFailures
    BY BoundsTyped DEF Init
  <2>3. up \in BOOLEAN /\ scope \in BOOLEAN /\ degraded \in BOOLEAN /\ eol \in BOOLEAN
        /\ dScope \in BOOLEAN
    BY DEF Init
  <2> QED BY <1>2, <2>1, <2>2, <2>3 DEF TypeOK, OpType
<1>4. PlanShape /\ Lengths
  BY <1>1, EmptyChain, BoundsTyped DEF Init, PlanShape, Lengths, Owed
<1> QED BY <1>3, <1>4 DEF TypeInv

LEMMA TypeStep == TypeInv /\ [Next]_vars => TypeInv'
<1> SUFFICES ASSUME TypeInv, [Next]_vars PROVE TypeInv'
  OBVIOUS
<1>1. ASSUME NEW req \in Requests, NEW now \in Instants, EvaluateUngoverned(req, now)
      PROVE  TypeInv'
  BY <1>1, UngovernedType
<1>2. ASSUME NEW req \in Requests, NEW now \in Instants, EvaluateGoverned(req, now)
      PROVE  TypeInv'
  BY <1>2, GovernedType
<1>3. ASSUME NEW id \in Ids, NEW who \in Humans, Approve(id, who)
      PROVE  TypeInv'
  BY <1>3, ApproveType
<1>4. ASSUME NEW id \in DOMAIN mem.chain, Reject(id)
      PROVE  TypeInv'
  BY <1>4, RejectType
<1>5. ASSUME NEW g \in NewGrants, NEW issuer \in Issuers, IssueGrant(g, issuer)
      PROVE  TypeInv'
  BY <1>5, IssueType
<1>6. ASSUME NEW gid \in GrantIds, NEW who \in Humans, RevokeGrant(gid, who)
      PROVE  TypeInv'
  BY <1>6, RevokeGrantType
<1>7. CASE WriteSet
  BY <1>7, WriteSetType
<1>8. CASE WriteRecord
  BY <1>8, WriteRecordType
<1>9. CASE WriteCount
  BY <1>9, WriteCountType
<1>10. CASE WriteFails
  BY <1>10, WriteFailsType
<1>11. CASE SetActiveTenant
  BY <1>11, SetActiveTenantType
<1>12. CASE Exit
  BY <1>12, ExitType
<1>13. CASE Crash
  BY <1>13, CrashType
<1>14. CASE Restart
  BY <1>14, RestartType
<1>15. CASE UNCHANGED vars
  BY <1>15 DEF vars, store, history, faults, TypeInv, TypeOK, PlanShape, Lengths, Owed
<1> QED BY <1>1, <1>2, <1>3, <1>4, <1>5, <1>6, <1>7, <1>8, <1>9, <1>10, <1>11,
           <1>12, <1>13, <1>14, <1>15 DEF Next

\* Type correctness: whatever the faults, torn writes included, memory, files
\* and the operation under way keep their types.
THEOREM TypeCorrect == Spec => []TypeOK
<1>1. Init => TypeInv
  BY InitType
<1>2. TypeInv /\ [Next]_vars => TypeInv'
  BY TypeStep
<1>3. TypeInv => TypeOK
  BY DEF TypeInv
<1> QED BY <1>1, <1>2, <1>3, PTL DEF Spec
-----------------------------------------------------------------------------
(* CG-1.  The inductive invariant also bounds the grants an operation is   *)
(* about to write.                                                         *)

Sound(grants) == \A i \in DOMAIN grants : grants[i].consumed <= grants[i].budget

BudgetInv == Sound(mem.grants) /\ Sound(disk.grants) /\ Sound(op.new.grants)

\* A grant that covers an action can pay for it.
LEMMA ConsumeSound ==
  ASSUME NEW g \in Grant, NEW action, NEW now, action.cost \in Nat, Covers(g, action, now),
         g.consumed <= g.budget
  PROVE  Consume(g, action.cost).consumed <= Consume(g, action.cost).budget
<1>1. g.consumed \in Nat /\ g.budget \in Nat
  BY DEF Grant
<1>2. g.consumed + action.cost <= g.budget
  BY <1>1 DEF Covers, Remaining, Monus
<1>3. Consume(g, action.cost).consumed = g.consumed + action.cost
      /\ Consume(g, action.cost).budget = g.budget
  BY DEF Consume, Grant
<1> QED BY <1>2, <1>3

LEMMA RefundSound ==
  ASSUME NEW g \in Grant, NEW n \in Nat, g.consumed <= g.budget
  PROVE  Refund(g, n).consumed <= Refund(g, n).budget
<1>1. g.consumed \in Nat /\ g.budget \in Nat
  BY DEF Grant
<1>2. Refund(g, n).consumed = Monus(g.consumed, n) /\ Refund(g, n).budget = g.budget
  BY DEF Refund, Grant
<1> QED BY <1>1, <1>2 DEF Monus

LEMMA RevokeSound ==
  ASSUME NEW g \in Grant, g.consumed <= g.budget
  PROVE  Revoke(g).consumed <= Revoke(g).budget
BY DEF Revoke, Grant

LEMMA NewGrantSound ==
  ASSUME NEW g \in NewGrants
  PROVE  g \in Grant /\ g.consumed <= g.budget /\ ~g.revoked
BY InputsTyped DEF Grant

\* Memory and files take their grants from one another or from the operation.
LEMMA BudgetMoves ==
  ASSUME TypeInv, BudgetInv,
         \/ WriteSet \/ WriteRecord \/ WriteCount \/ WriteFails
         \/ SetActiveTenant \/ Exit \/ Crash \/ Restart \/ UNCHANGED vars
  PROVE  BudgetInv'
<1>1. op \in OpType /\ mem \in MemType /\ op.new \in MemType /\ disk \in DiskType
  BY DEF TypeInv, TypeOK, OpType
<1>2. op'.new \in {op.new, Empty}
  <2>1. ASSUME op' = [op EXCEPT !.todo = Tail(@)]
        PROVE  op'.new = op.new
    BY <1>1, <2>1 DEF OpType
  <2>2. ASSUME op' = NoOp
        PROVE  op'.new = Empty
    BY <2>2 DEF NoOp
  <2> QED BY <2>1, <2>2 DEF WriteSet, WriteRecord, WriteCount, WriteFails, SetActiveTenant,
                            Exit, Crash, Restart, Ends, Done, vars
<1>3. mem'.grants \in {mem.grants, op.new.grants, disk.grants, Empty.grants}
  <2>1. ASSUME NEW f \in Files, Install(f)
        PROVE  mem'.grants \in {mem.grants, op.new.grants}
    BY <1>1, <2>1 DEF Install, Touched, Files
  <2>2. "chain" \in Files
    BY DEF Files
  <2> QED BY <2>1, <2>2 DEF WriteSet, WriteRecord, WriteCount, WriteFails, SetActiveTenant, Steps,
                            Exit, Crash, Restart, Ends, Establish, Loaded, vars
<1>4. disk'.grants \in {disk.grants, op.new.grants}
  <2>1. ASSUME NEW f \in Files, disk' = [disk EXCEPT ![f] = op.new[f]]
        PROVE  disk'.grants \in {disk.grants, op.new.grants}
    BY <1>1, <2>1 DEF DiskType, MemType, StoreType, Files
  <2>2. ASSUME NEW h, disk' = [disk EXCEPT !.chain = h]
        PROVE  disk'.grants = disk.grants
    BY <1>1, <2>2 DEF DiskType, StoreType
  <2>3. ASSUME Interrupted
        PROVE  disk'.grants = disk.grants
    BY <2>2, <2>3 DEF Interrupted, LogGains
  <2>4. CASE WriteSet
    BY <2>1, <2>4 DEF WriteSet
  <2>5. CASE WriteRecord
    BY <2>2, <2>5 DEF WriteRecord, LogGains
  <2>6. CASE WriteFails \/ Crash
    BY <2>3, <2>6 DEF WriteFails, Crash
  <2> QED BY <2>4, <2>5, <2>6 DEF WriteCount, SetActiveTenant, Exit, Restart, store, vars
<1>5. Sound(Empty.grants)
  BY DEF Empty, Sound
<1> QED BY <1>2, <1>3, <1>4, <1>5 DEF BudgetInv

\* Each operation leaves sound grants for its plan to write.
LEMMA BudgetBegins ==
  ASSUME TypeInv, BudgetInv,
         \/ \E req \in Requests, now \in Instants : EvaluateUngoverned(req, now)
         \/ \E req \in Requests, now \in Instants : EvaluateGoverned(req, now)
         \/ \E id \in Ids, who \in Humans : Approve(id, who)
         \/ \E id \in DOMAIN mem.chain : Reject(id)
         \/ \E g \in NewGrants, issuer \in Issuers : IssueGrant(g, issuer)
         \/ \E gid \in GrantIds, who \in Humans : RevokeGrant(gid, who)
  PROVE  BudgetInv'
<1>1. mem \in MemType /\ mem.grants \in Seq(Grant) /\ mem.charges \in [Ids -> Charge \cup {None}]
      /\ mem.chain \in Seq(Record) /\ Sound(mem.grants) /\ Sound(disk.grants)
  BY FieldTypes DEF TypeInv, TypeOK, MemType, BudgetInv
<1>2. ASSUME NEW t, NEW g, NEW c, NEW p, NEW r, NEW h, NEW a, Begin(t, Target(g, c, p, r, h), a),
             Sound(g), mem'.grants = mem.grants
      PROVE  BudgetInv'
  BY <1>1, <1>2 DEF Begin, Target, BudgetInv, store
<1>3. ASSUME NEW req \in Requests, NEW now \in Instants, EvaluateUngoverned(req, now)
      PROVE  BudgetInv'
  <2>1. mem'.grants = mem.grants
    BY <1>1, <1>3 DEF EvaluateUngoverned, MemType, StoreType
  <2> QED BY <1>1, <1>2, <1>3, <2>1 DEF EvaluateUngoverned
<1>4. ASSUME NEW req \in Requests, NEW now \in Instants, EvaluateGoverned(req, now)
      PROVE  BudgetInv'
  <2>1. PICK i \in FirstCovering(mem.grants, req.agent, Asked(req), now) :
          EvaluateGoverned(req, now)!(i)
    BY <1>4 DEF EvaluateGoverned
  <2> DEFINE spent == [mem.grants EXCEPT ![i] = Consume(mem.grants[i], Asked(req).cost)]
  <2>2. i \in DOMAIN mem.grants /\ Covers(mem.grants[i], Asked(req), now) /\ mem.grants[i] \in Grant
    BY <1>1 DEF FirstCovering
  <2>3. Asked(req).cost \in Nat
    BY InputsTyped, AskedType
  <2>4. Sound(spent)
    BY <1>1, <2>2, <2>3, ConsumeSound DEF Sound
  <2>5. mem'.grants = mem.grants
    BY <1>1, <2>1 DEF MemType, StoreType
  <2> QED BY <1>2, <2>1, <2>4, <2>5
<1>5. ASSUME NEW id \in Ids, NEW who \in Humans, Approve(id, who)
      PROVE  BudgetInv'
  BY <1>1, <1>2, <1>5 DEF Approve
<1>6. ASSUME NEW id \in DOMAIN mem.chain, Reject(id)
      PROVE  BudgetInv'
  <2>1. id \in Ids
    BY <1>1, BoundsTyped DEF TypeInv, Lengths, Ids
  <2>2. ASSUME mem.charges[id] # None
        PROVE  Sound(Refunded(mem.grants, mem.charges[id]))
    <3>1. mem.charges[id].units \in Nat
      BY <1>1, <2>1, <2>2 DEF Charge
    <3> QED BY <1>1, <3>1, RefundSound DEF Refunded, Sound
  <2> QED BY <1>1, <1>2, <1>6, <2>2 DEF Reject
<1>7. ASSUME NEW g \in NewGrants, NEW issuer \in Issuers, IssueGrant(g, issuer)
      PROVE  BudgetInv'
  <2>1. Sound(Append(mem.grants, g))
    BY <1>1, NewGrantSound DEF Sound
  <2> QED BY <1>2, <1>7, <2>1 DEF IssueGrant
<1>8. ASSUME NEW gid \in GrantIds, NEW who \in Humans, RevokeGrant(gid, who)
      PROVE  BudgetInv'
  <2>1. Sound(Revoked(mem.grants, gid))
    BY <1>1, RevokeSound DEF Sound, Revoked
  <2> QED BY <1>2, <1>8, <2>1 DEF RevokeGrant
<1> QED BY <1>3, <1>4, <1>5, <1>6, <1>7, <1>8

\* CG-1: no grant, in memory or in grants.json, has consumed more than its
\* budget, whatever is asked, answered, refunded, lost or reloaded.
THEOREM BudgetRespected == Spec => []WithinBudget
<1>1. Init => TypeInv /\ BudgetInv
  BY InitType DEF Init, NoOp, Empty, BudgetInv, Sound
<1>2. TypeInv /\ BudgetInv /\ [Next]_vars => (TypeInv /\ BudgetInv)'
  BY TypeStep, BudgetMoves, BudgetBegins DEF Next
<1>3. BudgetInv => WithinBudget
  BY DEF BudgetInv, Sound, WithinBudget
<1> QED BY <1>1, <1>2, <1>3, PTL DEF Spec
-----------------------------------------------------------------------------
(* Write-through.  While a tenant is served, a file that the operation has *)
(* no write left for is equal in memory, on disk and in the operation; and *)
(* the record still to be appended extends the log.                        *)

Whole   == ~Spoiled
Serving == up /\ scope /\ ~degraded
\* A rewritten file says what was written; the log does while it is whole.
Kept(x) == x = "chain" => Whole

MirrorInv ==
  /\ ~up => op.todo = <<>> /\ ~scope
  /\ ~eol => disk.chain # <<>>
  /\ Owed("chain") \/ Owed("count") => Serving
  /\ Serving => \A x \in Files : Kept(x) /\ ~Owed(x) =>
                  mem[x] = disk[x] /\ (op.todo # <<>> => op.new[x] = disk[x])
  /\ Kept("chain") /\ Owed("chain") => op.new.chain = Append(disk.chain, Last(op.new.chain))

\* An operation starts: what it will not write it leaves as it is, and what it
\* records extends the chain in memory by one.
Starts ==
  /\ Ready
  /\ \A x \in Files : ~Owed(x)' => op'.new[x] = mem[x] /\ mem'[x] = mem[x]
  /\ Owed("chain")' => op'.new.chain = Append(mem.chain, Last(op'.new.chain))
  /\ Owed("chain")' => mem'.chain \in {mem.chain, op'.new.chain}
  /\ Owed("count")' => Owed("chain")'
  /\ Owed("chain")' => ~degraded
  /\ UNCHANGED << up, scope, degraded, store, history >>

LEMMA LastAppended ==
  ASSUME NEW S, NEW s \in Seq(S), NEW x
  PROVE  Last(Append(s, x)) = x
BY DEF Last

LEMMA UngovernedStarts ==
  ASSUME TypeInv, NEW req \in Requests, NEW now \in Instants, EvaluateUngoverned(req, now)
  PROVE  Starts
<1> DEFINE rec   == DecisionRecord(req, None, None, "ungoverned", "ungoverned")
           chain == Append(mem.chain, rec)
           new   == Target(mem.grants, mem.charges, mem.pending, mem.resolved, chain)
<1>1. mem \in MemType /\ mem.chain \in Seq(Record)
  BY FieldTypes DEF TypeInv, TypeOK, MemType
<1>2. Last(chain) = rec
  BY <1>1, LastAppended
<1>3. /\ op' = [todo |-> <<"chain", "count">>, new |-> new, about |-> {}]
      /\ mem' = [mem EXCEPT !.chain = chain]
      /\ Ready /\ ~degraded /\ UNCHANGED << up, scope, degraded, store, history >>
  BY DEF EvaluateUngoverned, Begin, CheckNotDegraded
<1> HIDE DEF rec
<1>4. \A x \in Files : x # "chain" => new[x] = mem[x] /\ mem'[x] = mem[x]
  BY <1>1, <1>3 DEF Target, Files, MemType, StoreType
<1>5. new.chain = chain /\ mem'.chain = chain
  BY <1>1, <1>3 DEF Target, MemType, StoreType
<1>6. Owed("chain")'
  BY <1>3 DEF Owed
<1>7. op'.new = new
  BY <1>3
<1> HIDE DEF new, chain
<1> QED BY <1>2, <1>3, <1>4, <1>5, <1>6, <1>7 DEF Starts, chain

\* While it starts.
LEMMA StartsMirror ==
  ASSUME TypeInv, MirrorInv, Starts
  PROVE  MirrorInv'
<1>1. up' /\ disk' = disk /\ eol' = eol /\ Serving' = Serving /\ Spoiled' = Spoiled
  BY DEF Starts, Ready, Free, store, Serving, Spoiled
<1>2. op.todo = <<>> /\ \A x : ~Owed(x)
  BY DEF Starts, Ready, Free, Owed
<1>3. Owed("chain")' \/ Owed("count")' => Serving
  BY DEF Starts, Serving, Ready, Free
<1>4. Whole' = Whole /\ \A x : Kept(x)' <=> Kept(x)
  BY <1>1 DEF Whole, Kept
<1>5. ASSUME Serving
      PROVE  /\ \A x \in Files : Kept(x) /\ ~Owed(x)' => mem'[x] = disk[x] /\ op'.new[x] = disk[x]
             /\ Kept("chain") /\ Owed("chain")' => op'.new.chain = Append(disk.chain, Last(op'.new.chain))
  <2>1. \A x \in Files : Kept(x) => mem[x] = disk[x]
    BY <1>2, <1>5 DEF MirrorInv
  <2>2. Kept("chain") => mem.chain = disk.chain
    BY <2>1 DEF Files
  <2> QED BY <2>1, <2>2 DEF Starts
<1> QED BY <1>1, <1>3, <1>4, <1>5 DEF MirrorInv

\* The plans are literal sequences; what each of them owes.
LEMMA GovernedStarts ==
  ASSUME TypeInv, NEW req \in Requests, NEW now \in Instants, EvaluateGoverned(req, now)
  PROVE  Starts
<1>1. PICK i \in FirstCovering(mem.grants, req.agent, Asked(req), now) :
        EvaluateGoverned(req, now)!(i)
  BY DEF EvaluateGoverned
<1> DEFINE g       == mem.grants[i]
           cost    == Asked(req).cost
           permit  == Permits(Controlled, Allow, req.label, req.model, Unnamed)
           verdict == VerdictUnder(g, Asked(req), permit)
           rec     == DecisionRecord(req, g.principal, g.id, verdict, HicUnder(g, verdict))
           chain   == Append(mem.chain, rec)
           id      == Len(chain)
           charge  == [agent |-> req.agent, grant |-> g.id, units |-> cost]
           grants  == [mem.grants EXCEPT ![i] = Consume(g, cost)]
           charges == [mem.charges EXCEPT ![id] = charge]
           asks    == verdict = "require-approval"
           pending == IF asks THEN mem.pending \cup {id} ELSE mem.pending
           plan    == IF asks THEN <<"grants", "charges", "pending", "chain", "count">>
                              ELSE <<"grants", "charges", "chain", "count">>
           new     == Target(grants, charges, pending, mem.resolved, chain)
<1>2. mem \in MemType /\ mem.chain \in Seq(Record)
  BY FieldTypes DEF TypeInv, TypeOK, MemType
<1>3. Last(chain) = rec
  BY <1>2, LastAppended
<1>4. /\ op' = [todo |-> plan, new |-> new, about |-> {}]
      /\ mem' = [mem EXCEPT !.chain = chain]
      /\ Ready /\ ~degraded /\ UNCHANGED << up, scope, degraded, store, history >>
  BY <1>1 DEF Begin, CheckNotDegraded
<1>5. ~asks => pending = mem.pending
  OBVIOUS
<1> HIDE DEF rec, charge, grants, charges, asks, pending
<1>6. /\ Owed("chain")' /\ Owed("grants")' /\ Owed("charges")'
      /\ asks => Owed("pending")'
  <2>1. CASE asks
    BY <1>4, <2>1 DEF Owed
  <2>2. CASE ~asks
    BY <1>4, <2>2 DEF Owed
  <2> QED BY <2>1, <2>2
<1>7. \A x \in Files : ~Owed(x)' => new[x] = mem[x] /\ mem'[x] = mem[x]
  BY <1>2, <1>4, <1>5, <1>6 DEF Target, Files, MemType, StoreType
<1>8. new.chain = chain /\ mem'.chain = chain /\ op'.new = new
  BY <1>2, <1>4 DEF Target, MemType, StoreType
<1> HIDE DEF new, chain
<1> QED BY <1>3, <1>4, <1>6, <1>7, <1>8 DEF Starts, chain

LEMMA ApproveStarts ==
  ASSUME TypeInv, NEW id \in Ids, NEW who \in Humans, Approve(id, who)
  PROVE  Starts
<1> DEFINE known == id \in DOMAIN mem.chain
           rec   == AnswerRecord(id, who, "approved")
           chain == IF known THEN Append(mem.chain, rec) ELSE mem.chain
           resolved == [mem.resolved EXCEPT ![id] = "approved"]
           plan  == IF known THEN <<"pending", "resolved", "chain", "count">>
                             ELSE <<"pending", "resolved">>
           new   == Target(mem.grants, mem.charges, mem.pending \ {id}, resolved, chain)
<1>1. mem \in MemType /\ mem.chain \in Seq(Record)
  BY FieldTypes DEF TypeInv, TypeOK, MemType
<1>2. known => Last(chain) = rec
  BY <1>1, LastAppended
<1>3. /\ Ready /\ ~degraded /\ mem' = mem /\ UNCHANGED << up, scope, degraded, store, history >>
      /\ op'.todo = plan /\ op'.new = new
  BY DEF Approve, Begin, CheckNotDegraded
<1> HIDE DEF rec, resolved, known
<1>4. /\ Owed("pending")' /\ Owed("resolved")'
      /\ Owed("chain")' <=> known
      /\ Owed("count")' <=> known
  <2>1. CASE known
    BY <1>3, <2>1 DEF Owed
  <2>2. CASE ~known
    BY <1>3, <2>2 DEF Owed
  <2> QED BY <2>1, <2>2
<1>5. \A x \in Files : ~Owed(x)' => new[x] = mem[x]
  BY <1>1, <1>4 DEF Target, Files
<1>6. new.chain = chain /\ (known => chain = Append(mem.chain, rec))
  BY DEF Target
<1> HIDE DEF new, chain
<1> QED BY <1>2, <1>3, <1>4, <1>5, <1>6 DEF Starts

LEMMA RejectStarts ==
  ASSUME TypeInv, NEW id \in DOMAIN mem.chain, Reject(id)
  PROVE  Starts
<1> DEFINE asked   == id \in mem.pending
           charged == mem.charges[id] # None
           rec     == AnswerRecord(id, mem.chain[id].principal, "rejected")
           chain   == Append(mem.chain, rec)
           grants  == IF charged THEN Refunded(mem.grants, mem.charges[id]) ELSE mem.grants
           charges == [mem.charges EXCEPT ![id] = None]
           resolved == [mem.resolved EXCEPT ![id] = "rejected"]
           pending == mem.pending \ {id}
           new     == Target(grants, charges, pending, resolved, chain)
<1>1. mem \in MemType /\ mem.chain \in Seq(Record) /\ mem.charges \in [Ids -> Charge \cup {None}]
      /\ mem.pending \in SUBSET Ids
  BY FieldTypes DEF TypeInv, TypeOK, MemType
<1>2. Last(chain) = rec
  BY <1>1, LastAppended
<1>3. /\ Ready /\ ~degraded /\ mem' = mem /\ UNCHANGED << up, scope, degraded, store, history >>
      /\ op'.todo = RejectPlan(asked, charged) /\ op'.new = new
  BY DEF Reject, Begin, CheckNotDegraded
<1>4. (~asked => pending = mem.pending) /\ (~charged => charges = mem.charges /\ grants = mem.grants)
  BY <1>1
<1> HIDE DEF rec, resolved, asked, charged, grants, charges, pending
<1>5. /\ Owed("resolved")' /\ Owed("chain")'
      /\ asked => Owed("pending")'
      /\ charged => Owed("grants")' /\ Owed("charges")'
  <2>1. CASE asked /\ charged
    BY <1>3, <2>1 DEF Owed, RejectPlan
  <2>2. CASE asked /\ ~charged
    BY <1>3, <2>2 DEF Owed, RejectPlan
  <2>3. CASE ~asked /\ charged
    BY <1>3, <2>3 DEF Owed, RejectPlan
  <2>4. CASE ~asked /\ ~charged
    BY <1>3, <2>4 DEF Owed, RejectPlan
  <2> QED BY <2>1, <2>2, <2>3, <2>4
<1>6. \A x \in Files : ~Owed(x)' => new[x] = mem[x]
  BY <1>1, <1>4, <1>5 DEF Target, Files
<1>7. new.chain = chain
  BY DEF Target
<1> HIDE DEF new, chain
<1> QED BY <1>2, <1>3, <1>5, <1>6, <1>7 DEF Starts, chain

\* Issuing and revoking a grant.
LEMMA GrantStarts ==
  ASSUME TypeInv, NEW recorded \in BOOLEAN, NEW grants, NEW rec, Ready, recorded => ~degraded,
         Begin(GrantPlan(recorded),
               Target(grants, mem.charges, mem.pending, mem.resolved,
                      IF recorded THEN Append(mem.chain, rec) ELSE mem.chain), {}),
         UNCHANGED mem
  PROVE  Starts
<1> DEFINE chain == IF recorded THEN Append(mem.chain, rec) ELSE mem.chain
           new   == Target(grants, mem.charges, mem.pending, mem.resolved, chain)
<1>1. mem \in MemType /\ mem.chain \in Seq(Record)
  BY FieldTypes DEF TypeInv, TypeOK, MemType
<1>2. recorded => Last(chain) = rec
  BY <1>1, LastAppended
<1>3. /\ mem' = mem /\ UNCHANGED << up, scope, degraded, store, history >>
      /\ op'.todo = GrantPlan(recorded) /\ op'.new = new
  BY DEF Begin
<1>4. /\ Owed("grants")' /\ (Owed("chain")' <=> recorded) /\ (Owed("count")' <=> recorded)
  <2>1. CASE recorded
    BY <1>3, <2>1 DEF Owed, GrantPlan
  <2>2. CASE ~recorded
    BY <1>3, <2>2 DEF Owed, GrantPlan
  <2> QED BY <2>1, <2>2
<1>5. \A x \in Files : ~Owed(x)' => new[x] = mem[x]
  BY <1>1, <1>4 DEF Target, Files
<1>6. new.chain = chain /\ (recorded => chain = Append(mem.chain, rec))
  BY DEF Target
<1> HIDE DEF new, chain
<1> QED BY <1>2, <1>3, <1>4, <1>5, <1>6 DEF Starts

LEMMA OperationStarts ==
  ASSUME TypeInv,
         \/ \E req \in Requests, now \in Instants : EvaluateUngoverned(req, now)
         \/ \E req \in Requests, now \in Instants : EvaluateGoverned(req, now)
         \/ \E id \in Ids, who \in Humans : Approve(id, who)
         \/ \E id \in DOMAIN mem.chain : Reject(id)
         \/ \E g \in NewGrants, issuer \in Issuers : IssueGrant(g, issuer)
         \/ \E gid \in GrantIds, who \in Humans : RevokeGrant(gid, who)
  PROVE  Starts
<1>1. ASSUME NEW g \in NewGrants, NEW issuer \in Issuers, IssueGrant(g, issuer)
      PROVE  Starts
  <2> DEFINE recorded == ~degraded /\ issuer # Blank
  <2>1. recorded \in BOOLEAN /\ (recorded => ~degraded)
    OBVIOUS
  <2>2. /\ Ready /\ UNCHANGED mem
        /\ Begin(GrantPlan(recorded),
                 Target(Append(mem.grants, g), mem.charges, mem.pending, mem.resolved,
                        IF recorded THEN Append(mem.chain, ActRecord(issuer, "grant.issue", g.id))
                                    ELSE mem.chain), {})
    BY <1>1 DEF IssueGrant, CheckNotDegraded
  <2> HIDE DEF recorded
  <2> QED BY <2>1, <2>2, GrantStarts
<1>2. ASSUME NEW gid \in GrantIds, NEW who \in Humans, RevokeGrant(gid, who)
      PROVE  Starts
  <2> DEFINE recorded == ~degraded
  <2>1. recorded \in BOOLEAN /\ (recorded => ~degraded)
    OBVIOUS
  <2>2. /\ Ready /\ UNCHANGED mem
        /\ Begin(GrantPlan(recorded),
                 Target(Revoked(mem.grants, gid), mem.charges, mem.pending, mem.resolved,
                        IF recorded THEN Append(mem.chain, ActRecord(who, "grant.revoke", gid))
                                    ELSE mem.chain), {})
    BY <1>2 DEF RevokeGrant, CheckNotDegraded
  <2> HIDE DEF recorded
  <2> QED BY <2>1, <2>2, GrantStarts
<1> QED BY <1>1, <1>2, UngovernedStarts, GovernedStarts, ApproveStarts, RejectStarts
-----------------------------------------------------------------------------
(* The writes. *)

LEMMA MirrorTypes ==
  ASSUME TypeInv
  PROVE  /\ op \in OpType /\ mem \in MemType /\ disk \in DiskType /\ op.new \in MemType
         /\ mem.chain \in Seq(Record) /\ op.new.chain \in Seq(Record)
         /\ disk.chain \in Seq(Record \cup {Garbage}) /\ acked \in Seq(Record)
         /\ count \in Nat /\ eol \in BOOLEAN
BY FieldTypes DEF TypeInv, TypeOK, OpType, MemType, DiskType

\* A line appended to the log spoils it, or follows a log that was whole.
LEMMA AppendedWhole ==
  ASSUME TypeInv, MirrorInv, NEW line \in Record \cup {Garbage},
         disk' = [disk EXCEPT !.chain = Appended(line)]
  PROVE  /\ disk'.chain # <<>>
         /\ \A x \in Files : x # "chain" => disk'[x] = disk[x]
         /\ Whole' => /\ Whole /\ line # Garbage
                      /\ disk'.chain = Append(disk.chain, line)
<1>1. disk \in DiskType /\ disk.chain \in Seq(Record \cup {Garbage})
  BY MirrorTypes
<1>2. /\ disk'.chain = Appended(line)
      /\ \A x \in Files : x # "chain" => disk'[x] = disk[x]
  BY <1>1 DEF DiskType, StoreType, Files
<1>3. CASE eol
  <2>1. disk'.chain = Append(disk.chain, line)
    BY <1>2, <1>3 DEF Appended
  <2>2. /\ \A i \in DOMAIN disk.chain : i \in DOMAIN disk'.chain /\ disk'.chain[i] = disk.chain[i]
        /\ Len(disk.chain) + 1 \in DOMAIN disk'.chain /\ disk'.chain[Len(disk.chain) + 1] = line
        /\ disk'.chain # <<>>
    BY <1>1, <2>1
  <2>3. Whole' => Whole /\ line # Garbage
    BY <2>2 DEF Whole, Spoiled
  <2> QED BY <1>2, <2>1, <2>2, <2>3
<1>4. CASE ~eol
  <2>1. disk'.chain = [disk.chain EXCEPT ![Len(disk.chain)] = Garbage]
    BY <1>2, <1>4 DEF Appended
  <2>2. disk.chain # <<>>
    BY <1>4 DEF MirrorInv
  <2>3. Len(disk.chain) \in DOMAIN disk'.chain /\ disk'.chain[Len(disk.chain)] = Garbage
    BY <1>1, <2>1, <2>2
  <2>4. disk'.chain # <<>>
    BY <2>3
  <2>5. ~Whole'
    BY <2>3 DEF Whole, Spoiled
  <2> QED BY <1>2, <2>4, <2>5
<1> QED BY <1>3, <1>4

\* What an interrupted write left: nothing, or one more line.
LEMMA InterruptedLine ==
  ASSUME TypeInv, MirrorInv, up, op.todo # <<>>, Interrupted
  PROVE  /\ ~eol' => disk'.chain # <<>>
         /\ \A x \in Files : x # "chain" => disk'[x] = disk[x]
         /\ Whole' => /\ Whole
                      /\ \/ disk'.chain = disk.chain
                         \/ Writing("chain") /\ disk'.chain = Append(disk.chain, Last(op.new.chain))
<1>1. CASE UNCHANGED << disk, eol, answered >>
  BY <1>1 DEF MirrorInv, Whole, Spoiled
<1>2. CASE ~UNCHANGED << disk, eol, answered >>
  <2>1. Writing("chain")
    BY <1>2 DEF Interrupted, Writing
  <2>2. Last(op.new.chain) \in Record
    BY <2>1, LineType
  <2>3. PICK line \in {Last(op.new.chain), Garbage} : disk' = [disk EXCEPT !.chain = Appended(line)]
    BY <1>2 DEF Interrupted, LogGains
  <2> QED BY <2>1, <2>2, <2>3, AppendedWhole
<1> QED BY <1>1, <1>2

\* A write made is no longer owed, and the others still are.
LEMMA DoneOwed ==
  ASSUME TypeInv, NEW f, Writing(f), Done(f)
  PROVE  /\ op'.new = op.new
         /\ \A x : Owed(x)' => Owed(x)
         /\ \A x : x # f /\ Owed(x) => Owed(x)'
<1>1. op \in OpType /\ op.todo \in Seq(Steps) /\ op.todo # <<>> /\ Head(op.todo) = f
  BY MirrorTypes DEF OpType, Writing
<1>2. op'.new = op.new /\ op'.todo = Tail(op.todo) /\ \A x : Owed(x)' => Owed(x)
  BY <1>1, DoneType DEF Done, TypeInv, OpType
<1>3. ASSUME NEW x, x # f, Owed(x)
      PROVE  Owed(x)'
  <2>1. PICK i \in DOMAIN op.todo : op.todo[i] = x
    BY <1>3 DEF Owed
  <2>2. i # 1
    BY <1>1, <1>3, <2>1
  <2>3. i - 1 \in DOMAIN op'.todo /\ op'.todo[i - 1] = x
    <3>1. op.todo \in Seq(Steps) /\ op'.todo = Tail(op.todo) /\ i \in DOMAIN op.todo
      BY <1>1, <1>2
    <3> HIDE DEF Steps
    <3>2. i \in 1..Len(op.todo) /\ Len(op.todo) \in Nat /\ Len(op'.todo) = Len(op.todo) - 1
      BY <1>1, <3>1
    <3>3. i - 1 \in 1..Len(op'.todo) /\ i - 1 \in DOMAIN op'.todo
      BY <1>1, <2>2, <3>1, <3>2
    <3>4. op'.todo[i - 1] = op.todo[(i - 1) + 1]
      BY <1>1, <3>1, <3>2, <3>3
    <3> QED BY <2>1, <3>2, <3>3, <3>4
  <2> QED BY <2>3 DEF Owed
<1> QED BY <1>2, <1>3

LEMMA WriteSetMirror ==
  ASSUME TypeInv, MirrorInv, WriteSet
  PROVE  MirrorInv'
<1>1. PICK f \in Files \ {"chain"} : WriteSet!(f)
  BY DEF WriteSet
<1>2. /\ op'.new = op.new
      /\ \A x : Owed(x)' => Owed(x)
      /\ \A x : x # f /\ Owed(x) => Owed(x)'
  BY <1>1, DoneOwed
<1>3. op \in OpType /\ mem \in MemType /\ disk \in DiskType /\ op.new \in MemType
  BY MirrorTypes
<1>4. /\ \A x \in Files : mem'[x] = IF x \in Touched(f) THEN op.new[x] ELSE mem[x]
      /\ \A x \in Files : disk'[x] = IF x = f THEN op.new[x] ELSE disk[x]
  BY <1>1, <1>3 DEF Install, Files, DiskType, StoreType
<1>5. f \in Touched(f) /\ disk'.chain = disk.chain
  BY <1>1, <1>4 DEF Touched, Files
<1>6. op.todo # <<>> /\ UNCHANGED << up, scope, degraded, eol >>
  BY <1>1 DEF Writing
<1>7. /\ Serving' = Serving /\ Whole' = Whole /\ \A x : Kept(x)' <=> Kept(x)
      /\ Kept("chain") /\ Owed("chain")' => op'.new.chain = Append(disk'.chain, Last(op'.new.chain))
  BY <1>2, <1>5, <1>6 DEF Whole, Spoiled, Serving, Kept, MirrorInv
<1>10. ASSUME Serving, NEW x \in Files, Kept(x), ~Owed(x)'
       PROVE  mem'[x] = disk'[x] /\ op'.new[x] = disk'[x]
  <2>1. CASE x = f
    BY <1>2, <1>4, <1>5, <2>1
  <2>2. CASE x # f
    <3>1. mem[x] = disk[x] /\ op.new[x] = disk[x]
      BY <1>2, <1>6, <1>10, <2>2 DEF MirrorInv
    <3> QED BY <1>2, <1>4, <2>2, <3>1
  <2> QED BY <2>1, <2>2
<1>8. (~up' => op'.todo = <<>> /\ ~scope') /\ (~eol' => disk'.chain # <<>>)
  BY <1>1, <1>5, <1>6 DEF MirrorInv, Writing
<1>9. Owed("chain")' \/ Owed("count")' => Serving'
  BY <1>2, <1>6 DEF MirrorInv, Serving
<1> QED BY <1>7, <1>8, <1>9, <1>10 DEF MirrorInv

LEMMA WriteRecordMirror ==
  ASSUME TypeInv, MirrorInv, WriteRecord
  PROVE  MirrorInv'
<1>1. /\ op'.new = op.new
      /\ \A x : Owed(x)' => Owed(x)
      /\ \A x : x # "chain" /\ Owed(x) => Owed(x)'
      /\ ~Owed("chain")'
  BY DoneOwed, DoneType, MirrorTypes DEF WriteRecord, TypeInv, Writing, Done
<1>2. op \in OpType /\ mem \in MemType /\ disk \in DiskType /\ op.new \in MemType
  BY MirrorTypes
<1>3. \A x \in Files : mem'[x] = IF x = "chain" THEN op.new[x] ELSE mem[x]
  BY <1>2 DEF WriteRecord, Install, Touched, Files
<1>4. Last(op.new.chain) \in Record
  BY LineType DEF WriteRecord
<1>5. /\ disk'.chain # <<>>
      /\ \A x \in Files : x # "chain" => disk'[x] = disk[x]
      /\ Whole' => Whole /\ disk'.chain = Append(disk.chain, Last(op.new.chain))
  BY <1>4, AppendedWhole DEF WriteRecord, LogGains
<1>6. op.todo # <<>> /\ Owed("chain") /\ UNCHANGED << up, scope, degraded >>
  BY <1>2, HeadOwed DEF WriteRecord, Writing
<1>7. ASSUME NEW x \in Files, Kept(x)', ~Owed(x)'
      PROVE  mem'[x] = disk'[x] /\ op'.new[x] = disk'[x]
  <2>1. CASE x = "chain"
    <3>1. Whole'
      BY <1>7, <2>1 DEF Kept
    <3>2. op.new.chain = disk'.chain
      BY <1>5, <1>6, <3>1 DEF MirrorInv, Kept
    <3> QED BY <1>1, <1>3, <2>1, <3>2
  <2>2. CASE x # "chain"
    <3>1. mem[x] = disk[x] /\ op.new[x] = disk[x]
      BY <1>1, <1>6, <1>7, <2>2 DEF MirrorInv, Kept
    <3> QED BY <1>1, <1>3, <1>5, <2>2, <3>1
  <2> QED BY <2>1, <2>2
<1>8. Owed("chain")' \/ Owed("count")' => Serving'
  BY <1>1, <1>6 DEF MirrorInv, Serving
<1>9. up'
  BY <1>6 DEF WriteRecord, Writing
<1> QED BY <1>1, <1>5, <1>7, <1>8, <1>9 DEF MirrorInv

LEMMA WriteCountMirror ==
  ASSUME TypeInv, MirrorInv, WriteCount
  PROVE  MirrorInv'
<1>1. /\ op'.new = op.new
      /\ \A x : Owed(x)' => Owed(x)
      /\ \A x : x # "count" /\ Owed(x) => Owed(x)'
  BY DoneOwed DEF WriteCount
<1>2. UNCHANGED << up, scope, degraded, mem, disk, eol >> /\ op.todo # <<>> /\ up
  BY DEF WriteCount, Writing
<1>3. Serving' = Serving /\ Whole' = Whole
  BY <1>2 DEF Serving, Whole, Spoiled
<1>4. \A x \in Files : (Owed(x)' <=> Owed(x)) /\ (Kept(x)' <=> Kept(x))
  BY <1>1, <1>3 DEF Files, Kept
<1>5. "chain" \in Files
  BY DEF Files
<1> QED BY <1>1, <1>2, <1>3, <1>4, <1>5 DEF MirrorInv
-----------------------------------------------------------------------------
(* The faults and the restarts. *)

LEMMA WriteFailsMirror ==
  ASSUME TypeInv, MirrorInv, WriteFails
  PROVE  MirrorInv'
<1>1. up /\ op.todo # <<>> /\ up' /\ degraded' /\ Interrupted /\ \A x : ~Owed(x)'
  BY NoOpType DEF WriteFails, Writing
<1>2. ~eol' => disk'.chain # <<>>
  BY <1>1, InterruptedLine
<1> QED BY <1>1, <1>2 DEF MirrorInv, Serving

LEMMA EndsMirror ==
  ASSUME Ends, ~eol' => disk'.chain # <<>>
  PROVE  MirrorInv'
<1>1. op'.todo = <<>> /\ ~up' /\ ~scope' /\ \A x : ~Owed(x)'
  BY NoOpType DEF Ends, NoOp
<1> QED BY <1>1 DEF MirrorInv, Serving

LEMMA LoadMirror ==
  ASSUME TypeInv, MirrorInv, op.todo = <<>>, up',
         UNCHANGED << op, disk, eol >>, mem' = disk \/ ~scope'
  PROVE  MirrorInv'
<1>1. \A x : ~Owed(x)'
  BY DEF Owed
<1> QED BY <1>1 DEF MirrorInv, Serving

LEMMA RestartMirror ==
  ASSUME TypeInv, MirrorInv, Restart
  PROVE  MirrorInv' /\ (mem' = disk \/ ~scope')
<1>1. op.todo = <<>> /\ ~scope /\ up' /\ UNCHANGED << op, disk, eol >>
  BY DEF Restart, MirrorInv
<1>2. mem' = disk \/ ~scope'
  BY <1>1 DEF Restart, Establish, Loaded
<1> QED BY <1>1, <1>2, LoadMirror

LEMMA MirrorStep ==
  ASSUME TypeInv, MirrorInv, [Next]_vars
  PROVE  MirrorInv'
<1>1. CASE Starts
  BY <1>1, StartsMirror
<1>2. CASE SetActiveTenant
  BY <1>2, LoadMirror DEF SetActiveTenant, Free, Establish, Loaded
<1>3. CASE Exit
  BY <1>3, EndsMirror DEF Exit, store, MirrorInv
<1>4. CASE Crash
  BY <1>4, EndsMirror, InterruptedLine DEF Crash
<1>5. CASE UNCHANGED vars
  BY <1>5 DEF vars, store, MirrorInv, Whole, Spoiled, Serving, Owed, Kept
<1> QED BY <1>1, <1>2, <1>3, <1>4, <1>5, OperationStarts, WriteSetMirror, WriteRecordMirror,
           WriteCountMirror, WriteFailsMirror, RestartMirror DEF Next

LEMMA InitMirror == Init => MirrorInv
BY DEF Init, NoOp, Empty, MirrorInv, Owed, Files, Serving

\* Write-through, for every number of faults: with no operation under way and no
\* write failed, memory is what a restart would load from a log that is whole,
\* and a record is only ever appended to the chain it was hashed onto.
THEOREM WriteThrough == Spec => []MemoryMirrorsDisk
<1>1. Init => TypeInv /\ MirrorInv
  BY InitType, InitMirror
<1>2. TypeInv /\ MirrorInv /\ [Next]_vars => (TypeInv /\ MirrorInv)'
  BY TypeStep, MirrorStep
<1>3. TypeInv /\ MirrorInv => MemoryMirrorsDisk
  <2> SUFFICES ASSUME TypeInv, MirrorInv, ~Spoiled
               PROVE  /\ Ready /\ ~degraded => mem = disk
                      /\ Writing("chain") => op.new.chain = Append(disk.chain, Last(op.new.chain))
    BY DEF MemoryMirrorsDisk
  <2>1. ASSUME Ready, ~degraded
        PROVE  mem = disk
    <3>1. Whole /\ Serving /\ \A x : ~Owed(x)
      BY <2>1 DEF Ready, Free, Whole, Serving, Owed
    <3>2. \A x \in Files : mem[x] = disk[x]
      BY <3>1 DEF MirrorInv, Kept
    <3>3. mem \in MemType /\ disk \in DiskType
      BY MirrorTypes
    <3> QED BY <3>2, <3>3 DEF MemType, DiskType, StoreType, Files
  <2>2. ASSUME Writing("chain")
        PROVE  op.new.chain = Append(disk.chain, Last(op.new.chain))
    <3>1. Owed("chain")
      BY <2>2, MirrorTypes, HeadOwed
    <3> QED BY <3>1 DEF MirrorInv, Kept, Whole
  <2> QED BY <2>1, <2>2
<1> QED BY <1>1, <1>2, <1>3, PTL DEF Spec
-----------------------------------------------------------------------------
(* Durable before success.  The log holds what was acknowledged and the    *)
(* record the count is still to be raised for.                             *)

AckInv ==
  /\ Whole => count <= Len(disk.chain) /\ Holds(disk.chain, acked)
  /\ Whole /\ Owed("count") /\ ~Owed("chain") => count + 1 <= Len(disk.chain)
  /\ Serving => Holds(mem.chain, acked)
  /\ Owed("chain") => Holds(op.new.chain, acked)

LEMMA HoldsAppend ==
  ASSUME NEW S, NEW T, NEW s \in Seq(S), NEW b \in Seq(T), NEW x, Holds(s, b)
  PROVE  Holds(Append(s, x), b)
<1>1. /\ Len(Append(s, x)) = Len(s) + 1 /\ Len(s) \in Nat /\ Len(b) \in Nat
      /\ \A i \in 1..Len(s) : Append(s, x)[i] = s[i]
      /\ DOMAIN b = 1..Len(b)
  OBVIOUS
<1> QED BY <1>1 DEF Holds

\* The count is written last, and alone.
LEMMA CountLast ==
  ASSUME TypeInv, Writing("count")
  PROVE  ~Owed("chain")
<1>1. op.todo \in Seq(Steps) /\ op.todo # <<>> /\ op.todo[1] = "count"
  BY MirrorTypes DEF OpType, Writing
<1>2. ASSUME NEW i \in DOMAIN op.todo, op.todo[i] = "chain"
      PROVE  FALSE
  BY <1>1, <1>2 DEF PlanShape, TypeInv
<1> QED BY <1>2 DEF Owed

LEMMA StartsAck ==
  ASSUME TypeInv, MirrorInv, AckInv, Starts
  PROVE  AckInv'
<1>1. UNCHANGED << disk, count, acked >> /\ Serving' = Serving /\ Whole' = Whole
  BY DEF Starts, store, history, Serving, Whole, Spoiled
<1>2. Owed("count")' => Owed("chain")'
  BY DEF Starts
<1>3. Owed("chain")' => Serving
  BY DEF Starts, Serving, Ready, Free
<1>4. ASSUME Owed("chain")'
      PROVE  Holds(op'.new.chain, acked)
  <2>1. Holds(Append(mem.chain, Last(op'.new.chain)), acked)
    BY <1>3, <1>4, MirrorTypes, HoldsAppend DEF AckInv
  <2> QED BY <1>4, <2>1 DEF Starts
<1>5. ASSUME Serving
      PROVE  Holds(mem'.chain, acked)
  <2>1. CASE Owed("chain")'
    BY <1>4, <1>5, <2>1 DEF Starts, AckInv
  <2>2. CASE ~Owed("chain")'
    BY <1>5, <2>2 DEF Starts, AckInv, Files
  <2> QED BY <2>1, <2>2
<1> QED BY <1>1, <1>2, <1>4, <1>5 DEF AckInv

LEMMA WriteSetAck ==
  ASSUME TypeInv, MirrorInv, AckInv, WriteSet
  PROVE  AckInv'
<1>1. PICK f \in Files \ {"chain"} : WriteSet!(f)
  BY DEF WriteSet
<1>2. /\ op'.new = op.new
      /\ \A x : Owed(x)' => Owed(x)
      /\ \A x : x # f /\ Owed(x) => Owed(x)'
  BY <1>1, DoneOwed
<1>3. disk'.chain = disk.chain /\ mem'.chain = mem.chain
  BY <1>1, MirrorTypes DEF Install, Touched, Files, DiskType, StoreType
<1>4. Serving' = Serving /\ Whole' = Whole /\ UNCHANGED << count, acked >>
  BY <1>1, <1>3 DEF Serving, Whole, Spoiled, history
<1> QED BY <1>1, <1>2, <1>3, <1>4 DEF AckInv

LEMMA WriteRecordAck ==
  ASSUME TypeInv, MirrorInv, AckInv, WriteRecord
  PROVE  AckInv'
<1>1. op'.new = op.new /\ ~Owed("chain")' /\ UNCHANGED << count, acked >> /\ Serving' = Serving
  BY DoneOwed, DoneType, MirrorTypes DEF WriteRecord, TypeInv, Writing, Done, Serving
<1>2. mem'.chain = op.new.chain
  BY MirrorTypes DEF WriteRecord, Install, Touched, Files
<1>3. Owed("chain") /\ Last(op.new.chain) \in Record
  BY MirrorTypes, HeadOwed, LineType DEF WriteRecord
<1>4. Whole' => Whole /\ disk'.chain = Append(disk.chain, Last(op.new.chain))
  BY <1>3, AppendedWhole DEF WriteRecord, LogGains
<1>5. ASSUME Whole'
      PROVE  count + 1 <= Len(disk'.chain) /\ Holds(disk'.chain, acked)
  <2>1. Holds(disk'.chain, acked)
    BY <1>4, <1>5, MirrorTypes, HoldsAppend DEF AckInv
  <2>2. Len(disk'.chain) = Len(disk.chain) + 1 /\ Len(disk.chain) \in Nat
    BY <1>4, <1>5, MirrorTypes
  <2> QED BY <1>4, <1>5, <2>1, <2>2, MirrorTypes DEF AckInv
<1>6. count <= count + 1 /\ \A n \in Nat : count + 1 <= n => count <= n
  BY MirrorTypes
<1>7. Whole' => count <= Len(disk'.chain)
  <2>1. Whole' => Len(disk'.chain) \in Nat
    BY <1>4, MirrorTypes
  <2> QED BY <1>5, <1>6, <2>1
<1> QED BY <1>1, <1>2, <1>3, <1>5, <1>7 DEF AckInv

LEMMA HoldsSelf ==
  ASSUME NEW S, NEW s \in Seq(S)
  PROVE  Holds(s, s)
BY DEF Holds

LEMMA WriteCountAck ==
  ASSUME TypeInv, MirrorInv, AckInv, WriteCount
  PROVE  AckInv'
<1>1. ~Owed("chain") /\ Owed("count") /\ op.todo # <<>> /\ UNCHANGED << mem, disk >>
      /\ acked' = mem.chain /\ count' = count + 1
  BY CountLast, MirrorTypes, HeadOwed DEF WriteCount, Writing
<1>2. Serving /\ Serving' /\ Whole' = Whole
  BY <1>1 DEF WriteCount, MirrorInv, Serving, Whole, Spoiled
<1>3. ~Owed("chain")' /\ ~Owed("count")'
  <2>1. \A x : Owed(x)' => Owed(x)
    BY DoneOwed DEF WriteCount
  <2>2. op.todo \in Seq(Steps) /\ op'.todo = Tail(op.todo) /\ Head(op.todo) = "count" /\ op.todo # <<>>
    BY MirrorTypes DEF WriteCount, Writing, Done, OpType
  <2>3. Len(op.todo) = 1
    <3>1. 1 \in DOMAIN op.todo /\ op.todo[1] = "count"
      BY <2>2
    <3> QED BY <3>1 DEF TypeInv, PlanShape
  <2>4. DOMAIN op'.todo = {}
    <3>1. Len(op'.todo) = 0 /\ op'.todo \in Seq(Steps)
      BY <2>2, <2>3
    <3> HIDE DEF Steps
    <3> QED BY <3>1
  <2> QED BY <1>1, <2>1, <2>4 DEF Owed
<1>4. Holds(mem.chain, mem.chain)
  BY MirrorTypes, HoldsSelf
<1>5. Whole => mem.chain = disk.chain /\ count + 1 <= Len(disk.chain)
  BY <1>1, <1>2 DEF MirrorInv, AckInv, Files, Kept
<1> QED BY <1>1, <1>2, <1>3, <1>4, <1>5 DEF AckInv

\* A write that ends the operation leaves what was acknowledged where it was.
LEMMA InterruptedAck ==
  ASSUME TypeInv, MirrorInv, AckInv, Interrupted, up, op.todo # <<>>,
         UNCHANGED << count, acked >>, op' = NoOp, ~Serving'
  PROVE  AckInv'
<1>1. \A x : ~Owed(x)'
  BY NoOpType
<1>2. ASSUME Whole'
      PROVE  count <= Len(disk'.chain) /\ Holds(disk'.chain, acked)
  <2>1. /\ Whole
        /\ disk'.chain = disk.chain \/ disk'.chain = Append(disk.chain, Last(op.new.chain))
    BY <1>2, InterruptedLine
  <2>2. Holds(disk'.chain, acked)
    BY <2>1, MirrorTypes, HoldsAppend DEF AckInv
  <2>3. Len(disk.chain) \in Nat /\ Len(disk'.chain) \in {Len(disk.chain), Len(disk.chain) + 1}
    BY <2>1, MirrorTypes
  <2> QED BY <2>1, <2>2, <2>3, MirrorTypes DEF AckInv
<1> QED BY <1>1, <1>2 DEF AckInv

\* What a start or a restart loads holds what was acknowledged: it is refused
\* unless every line is a record.
LEMMA LoadAck ==
  ASSUME TypeInv, AckInv, op.todo = <<>>, UNCHANGED << disk, count, acked, op >>,
         (mem' = disk /\ Readable) \/ ~Serving' \/ UNCHANGED << mem, scope, degraded, up >>
  PROVE  AckInv'
<1>1. (\A x : ~Owed(x)') /\ Whole' = Whole
  BY DEF Owed, Whole, Spoiled
<1>2. Readable => Whole
  BY DEF Readable, Whole, Spoiled
<1> QED BY <1>1, <1>2 DEF AckInv, Serving

LEMMA AckStep ==
  ASSUME TypeInv, MirrorInv, AckInv, [Next]_vars
  PROVE  AckInv'
<1>1. CASE Starts
  BY <1>1, StartsAck
<1>2. CASE WriteFails
  BY <1>2, InterruptedAck DEF WriteFails, Writing, Serving
<1>3. CASE SetActiveTenant
  BY <1>3, LoadAck DEF SetActiveTenant, Free, Establish, Loaded, history
<1>4. CASE Exit
  <2>1. UNCHANGED << disk, count, acked >> /\ ~Serving' /\ Whole' = Whole /\ \A x : ~Owed(x)'
    BY <1>4, NoOpType DEF Exit, Ends, store, history, Serving, Whole, Spoiled
  <2> QED BY <2>1 DEF AckInv
<1>5. CASE Crash
  BY <1>5, InterruptedAck DEF Crash, Ends, Serving
<1>6. CASE Restart
  <2>1. op.todo = <<>> /\ UNCHANGED << disk, count, acked, op >>
    BY <1>6 DEF Restart, MirrorInv, history
  <2>2. (mem' = disk /\ Readable) \/ ~scope'
    BY <1>6 DEF Restart, MirrorInv, Establish, Loaded
  <2> QED BY <2>1, <2>2, LoadAck DEF Serving
<1>7. CASE UNCHANGED vars
  BY <1>7 DEF vars, store, history, AckInv, Whole, Spoiled, Serving, Owed
<1> QED BY <1>1, <1>2, <1>3, <1>4, <1>5, <1>6, <1>7, OperationStarts, WriteSetAck, WriteRecordAck,
           WriteCountAck DEF Next

LEMMA InitAck == Init => AckInv
BY DEF Init, NoOp, Empty, AckInv, Owed, Serving, Holds

\* Durable before success: short of a spoiled log, whatever an operation
\* reported success for is in the log, a restart can read it, and no tenant is
\* served without it.
THEOREM DurableBeforeSuccess == Spec => []AckedSurvives
<1>1. Init => TypeInv /\ MirrorInv /\ AckInv
  BY InitType, InitMirror, InitAck
<1>2. TypeInv /\ MirrorInv /\ AckInv /\ [Next]_vars => (TypeInv /\ MirrorInv /\ AckInv)'
  BY TypeStep, MirrorStep, AckStep
<1>3. TypeInv /\ AckInv => AckedSurvives
  BY DEF AckInv, AckedSurvives, Whole, Serving, Spoiled, Readable, Ready, Free
<1> QED BY <1>1, <1>2, <1>3, PTL DEF Spec
-----------------------------------------------------------------------------
(* The Merkle tree of a chain: its levels, a branch of it, and a climb along *)
(* that branch, place by place.                                              *)

\* A set of numbers has a least one.
LEMMA LeastNumber ==
  ASSUME NEW T \in SUBSET Nat, T # {} PROVE \E m \in T : \A n \in T : m <= n
<1>1. PICK m \in T : \A n \in T : ~(<<n, m>> \in OpToRel(<, Nat))
  BY WFMin, NatLessThanWellFounded
<1>2. \A n \in T : ~(n < m)
  BY <1>1 DEF OpToRel
<1>3. \A n \in T : n \in Nat
  OBVIOUS
<1> QED
  BY <1>2, <1>3

Rises(chain, n, level) ==
  level = [k \in 0..n |-> IF k = 0 THEN Leaves(chain) ELSE NextLevel(level[k - 1])]
Branches(i, n, at) ==
  at = [k \in 0..n |-> IF k = 0 THEN i ELSE (at[k - 1] + 1) \div 2]
Climbs(content, proof, n, acc) ==
  acc = [k \in 0..n |-> IF k = 0 THEN LeafHash(content) ELSE Climbed(acc[k - 1], proof[k])]

LEMMA LevelsExist ==
  ASSUME NEW n \in Nat, NEW chain
  PROVE  \E level : Rises(chain, n, level)
<1> DEFINE Without == { m \in Nat : m <= n /\ ~\E level : Rises(chain, m, level) }
<1> SUFFICES ASSUME Without # {} PROVE FALSE
  OBVIOUS
<1>0. Without \subseteq Nat
  OBVIOUS
<1>1. PICK m \in Without : \A k \in Without : m <= k
  <2> HIDE DEF Without
  <2> QED
    BY <1>0, LeastNumber
<1>2. m # 0
  <2>1. Rises(chain, 0, [k \in 0..0 |-> Leaves(chain)])
    BY DEF Rises
  <2> QED
    BY <1>1, <2>1
<1>3. m - 1 \in Nat /\ m - 1 <= n /\ m - 1 \notin Without
  BY <1>1, <1>2
<1>4. PICK level : Rises(chain, m - 1, level)
  BY <1>3
<1>5. Rises(chain, m, [k \in 0..m |-> IF k = m THEN NextLevel(level[m - 1]) ELSE level[k]])
  BY <1>1, <1>2, <1>4 DEF Rises
<1> QED
  BY <1>1, <1>5

LEMMA BranchExists ==
  ASSUME NEW n \in Nat, NEW i
  PROVE  \E at : Branches(i, n, at)
<1> DEFINE Without == { m \in Nat : m <= n /\ ~\E at : Branches(i, m, at) }
<1> SUFFICES ASSUME Without # {} PROVE FALSE
  OBVIOUS
<1>0. Without \subseteq Nat
  OBVIOUS
<1>1. PICK m \in Without : \A k \in Without : m <= k
  <2> HIDE DEF Without
  <2> QED
    BY <1>0, LeastNumber
<1>2. m # 0
  <2>1. Branches(i, 0, [k \in 0..0 |-> i])
    BY DEF Branches
  <2> QED
    BY <1>1, <2>1
<1>3. m - 1 \in Nat /\ m - 1 <= n /\ m - 1 \notin Without
  BY <1>1, <1>2
<1>4. PICK at : Branches(i, m - 1, at)
  BY <1>3
<1>5. Branches(i, m, [k \in 0..m |-> IF k = m THEN (at[m - 1] + 1) \div 2 ELSE at[k]])
  BY <1>1, <1>2, <1>4 DEF Branches
<1> QED
  BY <1>1, <1>5

LEMMA ClimbExists ==
  ASSUME NEW n \in Nat, NEW content, NEW proof
  PROVE  \E acc : Climbs(content, proof, n, acc)
<1> DEFINE Without == { m \in Nat : m <= n /\ ~\E acc : Climbs(content, proof, m, acc) }
<1> SUFFICES ASSUME Without # {} PROVE FALSE
  OBVIOUS
<1>0. Without \subseteq Nat
  OBVIOUS
<1>1. PICK m \in Without : \A k \in Without : m <= k
  <2> HIDE DEF Without
  <2> QED
    BY <1>0, LeastNumber
<1>2. m # 0
  <2>1. Climbs(content, proof, 0, [k \in 0..0 |-> LeafHash(content)])
    BY DEF Climbs
  <2> QED
    BY <1>1, <2>1
<1>3. m - 1 \in Nat /\ m - 1 <= n /\ m - 1 \notin Without
  BY <1>1, <1>2
<1>4. PICK acc : Climbs(content, proof, m - 1, acc)
  BY <1>3
<1>5. Climbs(content, proof, m,
             [k \in 0..m |-> IF k = m THEN Climbed(acc[m - 1], proof[m]) ELSE acc[k]])
  BY <1>1, <1>2, <1>4 DEF Climbs
<1> QED
  BY <1>1, <1>5

LEMMA LevelsAre ==
  ASSUME NEW chain, NEW n \in Nat, n = Len(chain)
  PROVE  /\ Levels(chain)[0] = Leaves(chain)
         /\ \A k \in 1..n : Levels(chain)[k] = NextLevel(Levels(chain)[k - 1])
<1>1. PICK level : Rises(chain, n, level) /\ Levels(chain) = level
  <2>1. Levels(chain) = (CHOOSE level : Rises(chain, n, level))
    BY DEF Levels, Rises
  <2> QED
    BY <2>1, LevelsExist
<1> QED
  BY <1>1 DEF Rises

LEMMA PlacesAre ==
  ASSUME NEW chain, NEW n \in Nat, n = Len(chain), NEW i
  PROVE  /\ Places(chain, i)[0] = i
         /\ \A k \in 1..n : Places(chain, i)[k] = (Places(chain, i)[k - 1] + 1) \div 2
<1>1. PICK at : Branches(i, n, at) /\ Places(chain, i) = at
  <2>1. Places(chain, i) = (CHOOSE at : Branches(i, n, at))
    BY DEF Places, Branches
  <2> QED
    BY <2>1, BranchExists
<1> QED
  BY <1>1 DEF Branches

\* The climb of a verification: it starts at a leaf and takes the proof's steps.
Climb(content, proof, n, acc) ==
  /\ acc[0] = LeafHash(content)
  /\ \A k \in 1..n : acc[k] = Climbed(acc[k - 1], proof[k])

LEMMA VerifyClimbs ==
  ASSUME NEW content, NEW proof, NEW root, NEW n \in Nat, n = Len(proof)
  PROVE  \E acc : /\ Climb(content, proof, n, acc)
                  /\ VerifyInclusion(content, proof, root) <=> root = acc[n]
<1>1. PICK acc : /\ Climbs(content, proof, n, acc)
                 /\ VerifyInclusion(content, proof, root) <=> root = acc[n]
  <2>1. VerifyInclusion(content, proof, root)
          <=> root = (CHOOSE acc : Climbs(content, proof, n, acc))[n]
    BY DEF VerifyInclusion, Climbs
  <2> QED
    BY <2>1, ClimbExists
<1> QED
  BY <1>1 DEF Climbs, Climb

LEMMA LeavesAre ==
  ASSUME NEW chain, NEW n \in Nat, n = Len(chain), DOMAIN chain = 1..n
  PROVE  Len(Leaves(chain)) = n /\ \A i \in 1..n : Leaves(chain)[i] = LeafHash(Content(chain[i]))
BY DEF Leaves

LEMMA NextLevelIs ==
  ASSUME NEW level, NEW n \in Nat, n = Len(level), NEW m \in Nat, m = (n + 1) \div 2
  PROVE  /\ Len(NextLevel(level)) = m
         /\ \A p \in 1..m :
              NextLevel(level)[p] =
                NodeHash(level[2 * p - 1], level[IF 2 * p <= n THEN 2 * p ELSE 2 * p - 1])
BY DEF NextLevel

LEMMA Halves ==
  \A n \in Nat : \A m : m = (n + 1) \div 2 =>
         /\ m \in Nat /\ (n >= 1 => m >= 1) /\ (m = 1 \/ m <= n - 1 \/ n = 0)
         /\ (2 * m = n + 1 \/ 2 * m = n)
OBVIOUS

\* Every level above the leaves is shorter, until one has a single node: there
\* are no more rounds than records.
LEMMA LevelsShrink ==
  ASSUME NEW chain, NEW n \in Nat, n = Len(chain), n >= 1, DOMAIN chain = 1..n
  PROVE  \A k \in 0..n :
           LET l == Len(Levels(chain)[k]) IN l \in Nat /\ l >= 1 /\ (l = 1 \/ l + k <= n)
<1> DEFINE l(k)   == Len(Levels(chain)[k])
           Fit(k) == l(k) \in Nat /\ l(k) >= 1 /\ (l(k) = 1 \/ l(k) + k <= n)
           Odd    == { k \in Nat : k <= n /\ ~Fit(k) }
<1> SUFFICES ASSUME Odd # {} PROVE FALSE
  OBVIOUS
<1>0. Odd \subseteq Nat
  OBVIOUS
<1>1. PICK k \in Odd : \A j \in Odd : k <= j
  <2> HIDE DEF Odd
  <2> QED
    BY <1>0, LeastNumber
<1>2. k # 0
  BY <1>1, LevelsAre, LeavesAre
<1>3. k \in 1..n /\ k - 1 \in Nat /\ k - 1 <= n /\ k - 1 \notin Odd
  BY <1>1, <1>2
<1>4. Fit(k - 1)
  BY <1>3
<1>5. PICK a \in Nat : a = l(k - 1)
  BY <1>4
<1>6. PICK b : b = (a + 1) \div 2
  OBVIOUS
<1>7. b \in Nat /\ b >= 1 /\ (b = 1 \/ b <= a - 1)
  <2>1. a >= 1
    BY <1>4, <1>5
  <2>2. b \in Nat /\ (a >= 1 => b >= 1) /\ (b = 1 \/ b <= a - 1 \/ a = 0)
    <3> HIDE DEF l, Fit, Odd
    <3> QED
      BY <1>6, Halves
  <2> QED
    BY <2>1, <2>2
<1>8. l(k) = b
  <2>1. PICK low : low = Levels(chain)[k - 1]
    OBVIOUS
  <2>2. Levels(chain)[k] = NextLevel(low)
    BY <1>3, <2>1, LevelsAre
  <2>3. a = Len(low)
    BY <1>5, <2>1
  <2> QED
    BY <1>6, <1>7, <2>2, <2>3, NextLevelIs
<1>9. Fit(k)
  <2> HIDE DEF l
  <2> QED
    BY <1>3, <1>4, <1>5, <1>7, <1>8
<1> QED
  BY <1>1, <1>9

\* The loop ends: some level has a single node.
LEMMA TreeHasARoot ==
  ASSUME NEW chain, NEW n \in Nat, n = Len(chain), n >= 1, DOMAIN chain = 1..n
  PROVE  Height(chain) \in 0..n /\ Len(Levels(chain)[Height(chain)]) = 1
<1> DEFINE Single == { h \in Nat : h <= n /\ Len(Levels(chain)[h]) = 1 }
<1>1. n \in Single
  <2>1. PICK l : l = Len(Levels(chain)[n])
    OBVIOUS
  <2>2. l \in Nat /\ l >= 1 /\ (l = 1 \/ l + n <= n)
    BY <2>1, LevelsShrink
  <2> QED
    BY <2>1, <2>2
<1>2. Single \subseteq Nat
  OBVIOUS
<1>3. PICK h \in Single : \A k \in Single : h <= k
  <2> HIDE DEF Single
  <2> QED
    BY <1>1, <1>2, LeastNumber
<1>4. /\ h \in 0..n /\ Len(Levels(chain)[h]) = 1
      /\ \A k \in 0..(h - 1) : Len(Levels(chain)[k]) # 1
  BY <1>3
<1> QED
  BY <1>4 DEF Height

\* The branch of a leaf stays within the levels.
LEMMA BranchWithin ==
  ASSUME NEW chain, NEW n \in Nat, n = Len(chain), n >= 1, DOMAIN chain = 1..n,
         NEW i \in 1..n
  PROVE  \A k \in 0..n : Places(chain, i)[k] \in 1..Len(Levels(chain)[k])
<1> DEFINE l(k)  == Len(Levels(chain)[k])
           at(k) == Places(chain, i)[k]
           Odd   == { k \in Nat : k <= n /\ ~(at(k) \in 1..l(k)) }
<1> SUFFICES ASSUME Odd # {} PROVE FALSE
  OBVIOUS
<1>0. Odd \subseteq Nat
  OBVIOUS
<1>1. PICK k \in Odd : \A j \in Odd : k <= j
  <2> HIDE DEF Odd
  <2> QED
    BY <1>0, LeastNumber
<1>2. k # 0
  BY <1>1, LevelsAre, LeavesAre, PlacesAre
<1>3. k \in 1..n /\ k - 1 \in Nat /\ k - 1 <= n /\ k - 1 \notin Odd
  BY <1>1, <1>2
<1>4. PICK a \in Nat : a = l(k - 1)
  <2>1. k - 1 \in 0..n
    BY <1>3
  <2> QED
    BY <2>1, LevelsShrink
<1>5. PICK p \in 1..a : p = at(k - 1)
  BY <1>3, <1>4
<1>6. at(k) = (p + 1) \div 2
  BY <1>3, <1>5, PlacesAre
<1>7. l(k) = (a + 1) \div 2
  <2>1. PICK low : low = Levels(chain)[k - 1]
    OBVIOUS
  <2>2. Levels(chain)[k] = NextLevel(low)
    BY <1>3, <2>1, LevelsAre
  <2>3. a = Len(low)
    BY <1>4, <2>1
  <2>4. PICK b \in Nat : b = (a + 1) \div 2
    BY Halves
  <2> QED
    BY <2>2, <2>3, <2>4, NextLevelIs
<1>8. (p + 1) \div 2 \in 1..((a + 1) \div 2)
  <2>1. PICK q \in Nat : q = (p + 1) \div 2
    OBVIOUS
  <2>2. PICK m \in Nat : m = (a + 1) \div 2
    OBVIOUS
  <2>3. (2 * q = p + 1 \/ 2 * q = p) /\ (2 * m = a + 1 \/ 2 * m = a)
    <3>1. p \in Nat
      OBVIOUS
    <3> HIDE DEF l, at, Odd
    <3> QED
      BY <2>1, <2>2, <3>1, Halves
  <2>4. p >= 1 /\ p <= a
    OBVIOUS
  <2>5. q >= 1 /\ q <= m
    BY <2>3, <2>4
  <2> QED
    BY <2>1, <2>2, <2>5
<1> HIDE DEF at, l
<1>9. at(k) \in 1..l(k)
  BY <1>6, <1>7, <1>8
<1> QED
  BY <1>1, <1>9

\* A proof's step takes a node to the one above it, and no other node there.
LEMMA OneUp ==
  ASSUME NEW level, NEW n \in Nat, n = Len(level), n >= 1, NEW i \in 1..n,
         NEW p, p = (i + 1) \div 2
  PROVE  Climbed(level[i], Sibling(level, i)) = NextLevel(level)[p]
<1>1. PICK m \in Nat : m = (n + 1) \div 2 /\ (2 * m = n + 1 \/ 2 * m = n)
  BY Halves
<1>2. p \in Nat /\ (2 * p = i + 1 \/ 2 * p = i)
  BY Halves
<1>3. p \in 1..m
  BY <1>1, <1>2
<1>4. NextLevel(level)[p] = NodeHash(level[2 * p - 1], level[IF 2 * p <= n THEN 2 * p ELSE 2 * p - 1])
  BY <1>1, <1>3, NextLevelIs
<1>5. CASE 2 * p = i + 1
  <2>1. i % 2 = 1
    BY <1>2, <1>5
  <2>2. 2 * p - 1 = i /\ (IF 2 * p <= n THEN 2 * p ELSE 2 * p - 1) = (IF i < n THEN i + 1 ELSE i)
    BY <1>2, <1>5
  <2> QED
    BY <1>4, <2>1, <2>2 DEF Sibling, Climbed
<1>6. CASE 2 * p = i
  <2>1. i % 2 # 1
    BY <1>2, <1>6
  <2>2. 2 * p - 1 = i - 1 /\ (IF 2 * p <= n THEN 2 * p ELSE 2 * p - 1) = i
    BY <1>2, <1>6
  <2> QED
    BY <1>4, <2>1, <2>2 DEF Sibling, Climbed
<1> QED
  BY <1>2, <1>5, <1>6

LEMMA ClimbedApart ==
  ASSUME NEW a, NEW b, NEW step, a # b
  PROVE  Climbed(a, step) # Climbed(b, step)
BY DEF Climbed, NodeHash

LEMMA LeavesApart ==
  ASSUME NEW c, NEW d, c # d
  PROVE  LeafHash(c) # LeafHash(d)
BY DEF LeafHash

\* The proof of a record climbs from its leaf along its branch; from the leaf of
\* any other content it climbs beside it.
LEMMA ClimbFollowsBranch ==
  ASSUME NEW chain, NEW n \in Nat, n = Len(chain), n >= 1, DOMAIN chain = 1..n,
         NEW i \in 1..n, NEW h \in 0..n, h = Height(chain), NEW content,
         NEW acc, Climb(content, MerkleProof(chain, i), h, acc)
  PROVE  \A k \in 0..h :
           acc[k] = Levels(chain)[k][Places(chain, i)[k]] <=> content = Content(chain[i])
<1> DEFINE Node(k) == Levels(chain)[k][Places(chain, i)[k]]
           Fit(k)  == acc[k] = Node(k) <=> content = Content(chain[i])
           Odd     == { k \in Nat : k <= h /\ ~Fit(k) }
<1> SUFFICES ASSUME Odd # {} PROVE FALSE
  OBVIOUS
<1>0. Odd \subseteq Nat
  OBVIOUS
<1>1. PICK k \in Odd : \A j \in Odd : k <= j
  <2> HIDE DEF Odd
  <2> QED
    BY <1>0, LeastNumber
<1>2. k # 0
  <2>1. Node(0) = LeafHash(Content(chain[i]))
    BY LevelsAre, LeavesAre, PlacesAre
  <2>2. acc[0] = LeafHash(content)
    BY DEF Climb
  <2>3. Fit(0)
    BY <2>1, <2>2, LeavesApart
  <2> HIDE DEF Fit
  <2> QED
    BY <1>1, <2>3
<1>3. k \in 1..h /\ k \in 1..n /\ k - 1 \in 0..n /\ k - 1 \in Nat /\ k - 1 <= h /\ k - 1 \notin Odd
  BY <1>1, <1>2
<1>4. Fit(k - 1)
  BY <1>3
<1>5. PICK low : low = Levels(chain)[k - 1]
  OBVIOUS
<1>6. PICK l \in Nat : l = Len(low) /\ l >= 1
  BY <1>3, <1>5, LevelsShrink
<1>7. PICK place \in 1..l : place = Places(chain, i)[k - 1]
  BY <1>3, <1>5, <1>6, BranchWithin
<1>8. PICK p : p = (place + 1) \div 2
  OBVIOUS
<1>9. Node(k) = NextLevel(low)[p]
  <2>1. Levels(chain)[k] = NextLevel(low)
    BY <1>3, <1>5, LevelsAre
  <2>2. Places(chain, i)[k] = p
    BY <1>3, <1>7, <1>8, PlacesAre
  <2> QED
    BY <2>1, <2>2
<1>10. Node(k - 1) = low[place]
  BY <1>5, <1>7
<1>11. PICK step : step = Sibling(low, place)
  OBVIOUS
<1>12. MerkleProof(chain, i)[k] = step
  BY <1>3, <1>5, <1>7, <1>11 DEF MerkleProof
<1>13. acc[k] = Climbed(acc[k - 1], step)
  BY <1>3, <1>12 DEF Climb
<1>14. Climbed(low[place], step) = NextLevel(low)[p]
  BY <1>6, <1>8, <1>11, OneUp
<1> HIDE DEF Node
<1>15. Fit(k)
  <2>1. CASE content = Content(chain[i])
    BY <1>4, <1>9, <1>10, <1>13, <1>14, <2>1
  <2>2. CASE content # Content(chain[i])
    BY <1>4, <1>9, <1>10, <1>13, <1>14, <2>2, ClimbedApart
  <2> QED
    BY <2>1, <2>2
<1> QED
  BY <1>1, <1>15

\* A proof verifies the content it was made for, and no other.
LEMMA ProofIsOfItsRecord ==
  ASSUME NEW chain, NEW n \in Nat, n = Len(chain), DOMAIN chain = 1..n, NEW i \in 1..n, NEW content
  PROVE  VerifyInclusion(content, MerkleProof(chain, i), MerkleRoot(chain))
           <=> content = Content(chain[i])
<1>1. n >= 1 /\ chain # <<>>
  <2>1. n >= 1
    OBVIOUS
  <2>2. Len(<<>>) = 0
    OBVIOUS
  <2> QED
    BY <2>1, <2>2
<1>2. PICK h \in 0..n : h = Height(chain) /\ Len(Levels(chain)[h]) = 1
  BY <1>1, TreeHasARoot
<1>3. h \in Nat /\ h = Len(MerkleProof(chain, i))
  BY <1>2 DEF MerkleProof
<1>4. PICK proof : proof = MerkleProof(chain, i)
  OBVIOUS
<1>5. PICK root : root = MerkleRoot(chain)
  OBVIOUS
<1>6. PICK acc : Climb(content, proof, h, acc)
                 /\ (VerifyInclusion(content, proof, root) <=> root = acc[h])
  BY <1>3, <1>4, VerifyClimbs
<1>7. acc[h] = Levels(chain)[h][Places(chain, i)[h]] <=> content = Content(chain[i])
  BY <1>1, <1>2, <1>4, <1>6, ClimbFollowsBranch
<1>8. Places(chain, i)[h] = 1
  <2>1. Places(chain, i)[h] \in 1..1
    BY <1>1, <1>2, BranchWithin
  <2> QED
    BY <2>1
<1>9. root = Levels(chain)[h][1]
  BY <1>1, <1>2, <1>5 DEF MerkleRoot
<1> QED
  BY <1>4, <1>5, <1>6, <1>7, <1>8, <1>9

\* Every document shows its record to be in the log, and its proof cannot be lent
\* to a record of another content: for any chain, whatever the number of records
\* and the place, however many levels are odd.
THEOREM ProofsAreOfTheirRecords == Spec => []EveryDecisionProvable
<1>1. TypeOK => EveryDecisionProvable
  <2> SUFFICES ASSUME TypeOK, NEW i \in DOMAIN mem.chain, NEW j \in DOMAIN mem.chain
               PROVE  LET doc == LedgerDecision(mem.chain, i)
                      IN  /\ doc.included
                          /\ Content(mem.chain[j]) # Content(doc.record)
                               => ~VerifyInclusion(Content(mem.chain[j]), doc.proof, doc.root)
    BY DEF EveryDecisionProvable
  <2>1. mem.chain \in Seq(Record)
    BY FieldTypes DEF TypeOK, MemType
  <2>2. PICK chain : chain = mem.chain
    OBVIOUS
  <2>3. PICK n \in Nat : n = Len(chain) /\ DOMAIN chain = 1..n
    BY <2>1, <2>2
  <2>4. i \in 1..n
    BY <2>2, <2>3
  <2>5. PICK mine, theirs : mine = Content(chain[i]) /\ theirs = Content(chain[j])
    OBVIOUS
  <2>6. VerifyInclusion(mine, MerkleProof(chain, i), MerkleRoot(chain))
    BY <2>3, <2>4, <2>5, ProofIsOfItsRecord
  <2>7. theirs # mine => ~VerifyInclusion(theirs, MerkleProof(chain, i), MerkleRoot(chain))
    BY <2>3, <2>4, <2>5, ProofIsOfItsRecord
  <2> QED
    BY <2>2, <2>5, <2>6, <2>7 DEF LedgerDecision
<1> QED
  BY <1>1, TypeCorrect, PTL
-----------------------------------------------------------------------------
(* Revocation.  The grants are written before the record, so a revocation  *)
(* that any chain shows is in force in every copy of the grants that may   *)
(* come to stand beside that chain.                                        *)

\* The grants that a line, or a chain, shows revoked; an answer repeats what
\* it answers.
RevokedBy(r) == { gid \in GrantIds : r # Garbage /\ r.class = "grant.revoke" /\ r.ref = gid }
RevokedIn(chain) == UNION { RevokedBy(chain[n]) : n \in DOMAIN chain }

InForce(gid, grants) ==
  /\ \E i \in DOMAIN grants : grants[i].id = gid
  /\ \A i \in DOMAIN grants : grants[i].id = gid => grants[i].revoked

Settled(chain, grants) == \A gid \in RevokedIn(chain) : InForce(gid, grants)

NoneAfter(chain) ==
  \A m, n \in DOMAIN chain :
    m < n /\ Decides(chain[n]) => ~Revokes(chain[m], chain[n].grant)

GrantsFirst ==
  \A i, j \in DOMAIN op.todo : op.todo[i] = "chain" /\ op.todo[j] = "grants" => j < i

RevokeInv ==
  /\ GrantsFirst
  /\ Settled(disk.chain, disk.grants)
  /\ scope => Settled(mem.chain, mem.grants) /\ Settled(disk.chain, mem.grants)
  /\ op.todo # <<>> => /\ Settled(op.new.chain, op.new.grants)
                       /\ Settled(disk.chain, op.new.grants)
                       /\ Settled(mem.chain, op.new.grants)
  /\ Owed("chain") /\ ~Owed("grants") =>
       Settled(op.new.chain, disk.grants) /\ Settled(op.new.chain, mem.grants)
  /\ NoneAfter(mem.chain)
  /\ op.todo # <<>> => NoneAfter(op.new.chain)
  /\ Whole => NoneAfter(disk.chain)

LEMMA AppendRevoked ==
  ASSUME NEW S, NEW s \in Seq(S), NEW r
  PROVE  RevokedIn(Append(s, r)) = RevokedIn(s) \cup RevokedBy(r)
<1> DEFINE t == Append(s, r)
<1>1. /\ DOMAIN t = DOMAIN s \cup {Len(s) + 1} /\ t[Len(s) + 1] = r
      /\ \A i \in DOMAIN s : t[i] = s[i]
  OBVIOUS
<1> HIDE DEF t
<1>2. RevokedIn(t) = RevokedIn(s) \cup RevokedBy(r)
  <2> HIDE DEF RevokedBy
  <2> QED BY <1>1 DEF RevokedIn
<1> QED BY <1>2 DEF t

LEMMA LastRevoked ==
  ASSUME NEW S, NEW s \in Seq(S), s # <<>>
  PROVE  RevokedBy(Last(s)) \subseteq RevokedIn(s)
<1>1. Len(s) \in DOMAIN s
  OBVIOUS
<1> QED BY <1>1 DEF RevokedIn, Last

\* A line that reaches the log shows nothing but what the plan's chain shows.
LEMMA AppendedRevoked ==
  ASSUME TypeInv, MirrorInv, Writing("chain"), NEW line \in {Last(op.new.chain), Garbage},
         disk' = [disk EXCEPT !.chain = Appended(line)]
  PROVE  RevokedIn(disk'.chain) \subseteq RevokedIn(disk.chain) \cup RevokedIn(op.new.chain)
<1>1. RevokedBy(Garbage) = {}
  BY DEF RevokedBy
<1>2. op.new.chain # <<>>
  <2>1. Len(op.new.chain) > 0
    BY LineType
  <2> QED BY <2>1, MirrorTypes
<1>3. RevokedBy(line) \subseteq RevokedIn(op.new.chain)
  BY <1>1, <1>2, LastRevoked, MirrorTypes
<1>4. disk'.chain = Appended(line)
  BY MirrorTypes DEF DiskType, StoreType
<1>5. CASE eol
  BY <1>3, <1>4, <1>5, AppendRevoked, MirrorTypes DEF Appended
<1>6. CASE ~eol
  <2>1. disk'.chain = [disk.chain EXCEPT ![Len(disk.chain)] = Garbage]
    BY <1>4, <1>6 DEF Appended
  <2>2. DOMAIN disk'.chain = DOMAIN disk.chain
        /\ \A i \in DOMAIN disk.chain : disk'.chain[i] \in {disk.chain[i], Garbage}
    BY <2>1, MirrorTypes
  <2> HIDE DEF RevokedBy
  <2> QED BY <1>1, <2>2 DEF RevokedIn
<1> QED BY <1>5, <1>6

LEMMA InterruptedRevoked ==
  ASSUME TypeInv, MirrorInv, up, op.todo # <<>>, Interrupted
  PROVE  /\ disk'.grants = disk.grants
         /\ \/ disk'.chain = disk.chain
            \/ /\ Writing("chain")
               /\ RevokedIn(disk'.chain) \subseteq RevokedIn(disk.chain) \cup RevokedIn(op.new.chain)
<1>1. disk'.grants = disk.grants
  BY InterruptedLine DEF Files
<1>2. CASE UNCHANGED << disk, eol, answered >>
  BY <1>1, <1>2
<1>3. CASE ~UNCHANGED << disk, eol, answered >>
  <2>1. Writing("chain")
    BY <1>3 DEF Interrupted, Writing
  <2>2. PICK line \in {Last(op.new.chain), Garbage} : disk' = [disk EXCEPT !.chain = Appended(line)]
    BY <1>3 DEF Interrupted, LogGains
  <2> QED BY <1>1, <2>1, <2>2, AppendedRevoked
<1> QED BY <1>2, <1>3

\* When the record is to be written the grants have been.
LEMMA RecordAfterGrants ==
  ASSUME TypeInv, GrantsFirst, Writing("chain")
  PROVE  Owed("chain") /\ ~Owed("grants")
<1>1. op.todo \in Seq(Steps) /\ op.todo # <<>> /\ Head(op.todo) = "chain"
  BY MirrorTypes DEF OpType, Writing
<1>2. 1 \in DOMAIN op.todo /\ op.todo[1] = "chain" /\ \A j \in DOMAIN op.todo : ~(j < 1)
  BY <1>1
<1> QED BY <1>2 DEF GrantsFirst, Owed

LEMMA DoneGrantsFirst ==
  ASSUME TypeInv, GrantsFirst, NEW f, Writing(f), Done(f)
  PROVE  GrantsFirst'
<1>1. op \in OpType /\ op.todo \in Seq(Steps) /\ op.todo # <<>>
  BY MirrorTypes DEF OpType, Writing
<1>2. op'.todo = Tail(op.todo)
  BY <1>1 DEF Done, OpType
<1>3. \A i \in DOMAIN op'.todo : i \in Nat /\ i + 1 \in DOMAIN op.todo /\ op'.todo[i] = op.todo[i + 1]
  BY <1>1, <1>2
<1> SUFFICES ASSUME NEW i \in DOMAIN op'.todo, NEW j \in DOMAIN op'.todo,
                    op'.todo[i] = "chain", op'.todo[j] = "grants"
             PROVE  j < i
  BY DEF GrantsFirst
<1>4. j + 1 < i + 1
  BY <1>3 DEF GrantsFirst
<1> QED BY <1>3, <1>4

LEMMA WriteSetRevoke ==
  ASSUME TypeInv, MirrorInv, RevokeInv, WriteSet
  PROVE  RevokeInv'
<1>1. PICK f \in Files \ {"chain"} : WriteSet!(f)
  BY DEF WriteSet
<1>2. /\ op'.new = op.new
      /\ \A x : Owed(x)' => Owed(x)
      /\ \A x : x # f /\ Owed(x) => Owed(x)'
  BY <1>1, DoneOwed
<1>3. /\ disk'.chain = disk.chain /\ mem'.chain = mem.chain
      /\ IF f = "grants" THEN disk'.grants = op.new.grants /\ mem'.grants = op.new.grants
                         ELSE disk'.grants = disk.grants /\ mem'.grants = mem.grants
  BY <1>1, MirrorTypes DEF Install, Touched, Files, DiskType, StoreType
<1>4. op.todo # <<>> /\ UNCHANGED scope /\ Whole' = Whole
  BY <1>1, <1>3 DEF Writing, Whole, Spoiled
<1>5. GrantsFirst'
  BY <1>1, DoneGrantsFirst DEF RevokeInv
<1>6. CASE f = "grants"
  BY <1>2, <1>3, <1>4, <1>5, <1>6 DEF RevokeInv
<1>7. CASE f # "grants"
  BY <1>2, <1>3, <1>4, <1>5, <1>7 DEF RevokeInv
<1> QED BY <1>6, <1>7

\* Under an operation that records, a whole log takes the plan's chain.
LEMMA LogTakesPlan ==
  ASSUME TypeInv, MirrorInv, RevokeInv, Writing("chain"), Whole,
         disk'.chain = Append(disk.chain, Last(op.new.chain))
  PROVE  NoneAfter(disk'.chain)
<1>1. Owed("chain") /\ op.todo # <<>>
  BY MirrorTypes, HeadOwed DEF Writing
<1>2. disk'.chain = op.new.chain
  BY <1>1 DEF MirrorInv, Kept
<1> QED BY <1>1, <1>2 DEF RevokeInv

LEMMA WriteRecordRevoke ==
  ASSUME TypeInv, MirrorInv, RevokeInv, WriteRecord
  PROVE  RevokeInv'
<1>1. op'.new = op.new /\ ~Owed("chain")' /\ UNCHANGED scope
  BY DoneOwed, DoneType, MirrorTypes DEF WriteRecord, TypeInv, Writing, Done
<1>2. Owed("chain") /\ ~Owed("grants") /\ op.todo # <<>>
  BY RecordAfterGrants DEF WriteRecord, Writing, RevokeInv
<1>3. mem'.chain = op.new.chain /\ mem'.grants = mem.grants
  BY MirrorTypes DEF WriteRecord, Install, Touched, Files
<1>4. Last(op.new.chain) \in Record
  BY LineType DEF WriteRecord
<1>5. /\ disk'.grants = disk.grants
      /\ Whole' => Whole /\ disk'.chain = Append(disk.chain, Last(op.new.chain))
  BY <1>4, AppendedWhole DEF WriteRecord, LogGains, Files
<1>6. RevokedIn(disk'.chain) \subseteq RevokedIn(disk.chain) \cup RevokedIn(op.new.chain)
  BY AppendedRevoked DEF WriteRecord, LogGains
<1>7. GrantsFirst'
  BY DoneGrantsFirst DEF WriteRecord, RevokeInv
<1>8. Settled(disk'.chain, disk.grants) /\ Settled(disk'.chain, op.new.grants)
      /\ (scope => Settled(disk'.chain, mem.grants))
  BY <1>2, <1>6 DEF Settled, RevokeInv
<1>9. Whole' => NoneAfter(disk'.chain)
  BY <1>5, LogTakesPlan DEF WriteRecord
<1> QED BY <1>1, <1>2, <1>3, <1>5, <1>7, <1>8, <1>9 DEF RevokeInv

LEMMA WriteCountRevoke ==
  ASSUME TypeInv, RevokeInv, WriteCount
  PROVE  RevokeInv'
<1>1. /\ op'.new = op.new /\ op.todo # <<>>
      /\ \A x : Owed(x)' => Owed(x)
      /\ \A x : x # "count" /\ Owed(x) => Owed(x)'
  BY DoneOwed DEF WriteCount, Writing
<1>2. UNCHANGED << scope, mem, disk >> /\ Whole' = Whole /\ GrantsFirst'
  BY DoneGrantsFirst DEF WriteCount, Whole, Spoiled, RevokeInv
<1> QED BY <1>1, <1>2 DEF RevokeInv

LEMMA NoOpGrantsFirst ==
  ASSUME op' = NoOp
  PROVE  GrantsFirst' /\ op'.todo = <<>> /\ \A x : ~Owed(x)'
<1>1. op'.todo = <<>> /\ DOMAIN op'.todo = {}
  BY DEF NoOp
<1> QED BY <1>1 DEF GrantsFirst, Owed

\* What an interrupted write does to the log and the files.
LEMMA InterruptedRevoke ==
  ASSUME TypeInv, MirrorInv, RevokeInv, up, op.todo # <<>>, Interrupted
  PROVE  /\ Settled(disk'.chain, disk'.grants)
         /\ Whole' => NoneAfter(disk'.chain)
         /\ scope => Settled(disk'.chain, mem.grants)
         /\ Settled(disk'.chain, op.new.grants)
<1>1. /\ disk'.grants = disk.grants
      /\ \/ disk'.chain = disk.chain
         \/ /\ Writing("chain")
            /\ RevokedIn(disk'.chain) \subseteq RevokedIn(disk.chain) \cup RevokedIn(op.new.chain)
  BY InterruptedRevoked
<1>2. CASE disk'.chain = disk.chain
  <2>1. Whole' = Whole
    BY <1>2 DEF Whole, Spoiled
  <2> QED BY <1>1, <1>2, <2>1 DEF RevokeInv
<1>3. CASE disk'.chain # disk.chain
  <2>1. Owed("chain") /\ ~Owed("grants") /\ Writing("chain")
    BY <1>1, <1>3, RecordAfterGrants DEF RevokeInv
  <2>2. Whole' => NoneAfter(disk'.chain)
    BY <1>3, InterruptedLine, LogTakesPlan
  <2> QED BY <1>1, <1>3, <2>1, <2>2 DEF Settled, RevokeInv
<1> QED BY <1>2, <1>3

LEMMA WriteFailsRevoke ==
  ASSUME TypeInv, MirrorInv, RevokeInv, WriteFails
  PROVE  RevokeInv'
<1>1. PICK f \in Steps : Writing(f) /\ IF f = "count" THEN UNCHANGED mem ELSE Install(f)
  BY DEF WriteFails
<1>2. up /\ op.todo # <<>> /\ Interrupted /\ UNCHANGED scope
  BY <1>1 DEF WriteFails, Writing
<1>3. /\ Settled(disk'.chain, disk'.grants)
      /\ Whole' => NoneAfter(disk'.chain)
      /\ scope => Settled(disk'.chain, mem.grants)
      /\ Settled(disk'.chain, op.new.grants)
  BY <1>2, InterruptedRevoke
<1>4. GrantsFirst' /\ op'.todo = <<>> /\ \A x : ~Owed(x)'
  BY NoOpGrantsFirst DEF WriteFails
<1>5. /\ NoneAfter(mem'.chain)
      /\ scope => Settled(mem'.chain, mem'.grants) /\ Settled(disk'.chain, mem'.grants)
  <2>1. CASE f = "grants"
    <3>1. mem'.chain = mem.chain /\ mem'.grants = op.new.grants
      BY <1>1, <2>1, MirrorTypes DEF Install, Touched, Files
    <3> QED BY <1>2, <1>3, <3>1 DEF RevokeInv
  <2>2. CASE f = "chain"
    <3>1. mem'.chain = op.new.chain /\ mem'.grants = mem.grants
      BY <1>1, <2>2, MirrorTypes DEF Install, Touched, Files
    <3>2. Owed("chain") /\ ~Owed("grants")
      BY <1>1, <2>2, RecordAfterGrants DEF RevokeInv
    <3> QED BY <1>2, <1>3, <3>1, <3>2 DEF RevokeInv
  <2>3. CASE f \notin {"grants", "chain"}
    <3>1. mem'.chain = mem.chain /\ mem'.grants = mem.grants
      BY <1>1, <2>3, MirrorTypes DEF Install, Touched, Files, Steps
    <3> QED BY <1>2, <1>3, <3>1 DEF RevokeInv
  <2> QED BY <2>1, <2>2, <2>3
<1> QED BY <1>2, <1>3, <1>4, <1>5 DEF RevokeInv

LEMMA EmptyUnrevoked == NoneAfter(Empty.chain)
BY DEF Empty, NoneAfter

LEMMA CrashRevoke ==
  ASSUME TypeInv, MirrorInv, RevokeInv, Crash
  PROVE  RevokeInv'
BY InterruptedRevoke, NoOpGrantsFirst, EmptyUnrevoked DEF Crash, Ends, RevokeInv

LEMMA ExitRevoke ==
  ASSUME RevokeInv, Exit
  PROVE  RevokeInv'
BY NoOpGrantsFirst, EmptyUnrevoked DEF Exit, Ends, store, RevokeInv, Whole, Spoiled

LEMMA LoadRevoke ==
  ASSUME RevokeInv, op.todo = <<>>, UNCHANGED << op, disk >>,
         \/ mem' = disk /\ Readable
         \/ mem' = mem /\ (scope' => scope)
  PROVE  RevokeInv'
<1>1. (\A x : ~Owed(x)') /\ GrantsFirst' /\ Whole' = Whole
  BY DEF Owed, GrantsFirst, Whole, Spoiled
<1>2. Readable => Whole
  BY DEF Readable, Whole, Spoiled
<1> QED BY <1>1, <1>2 DEF RevokeInv
-----------------------------------------------------------------------------
\* An operation starts without undoing a revocation, recording only one that is
\* in force in what it will write, and deciding under no grant revoked before.
LEMMA StartsRevoke ==
  ASSUME TypeInv, MirrorInv, RevokeInv, Starts, GrantsFirst', mem'.grants = mem.grants,
         \A gid : InForce(gid, mem.grants) => InForce(gid, op'.new.grants),
         \A gid \in RevokedIn(op'.new.chain) :
           gid \in RevokedIn(mem.chain) \/ InForce(gid, op'.new.grants),
         mem'.chain # mem.chain => RevokedIn(op'.new.chain) = RevokedIn(mem.chain),
         NoneAfter(op'.new.chain)
  PROVE  RevokeInv'
<1>1. UNCHANGED << scope, disk >> /\ Whole' = Whole /\ scope
  BY DEF Starts, Ready, store, Whole, Spoiled
<1>2. /\ Settled(mem.chain, mem.grants) /\ Settled(disk.chain, mem.grants)
      /\ Settled(disk.chain, disk.grants)
  BY <1>1 DEF RevokeInv
<1>3. mem'.chain \in {mem.chain, op'.new.chain}
  BY DEF Starts, Files
<1>4. /\ Settled(op'.new.chain, op'.new.grants) /\ Settled(disk.chain, op'.new.grants)
      /\ Settled(mem.chain, op'.new.grants)
  BY <1>2 DEF Settled
<1>5. mem'.chain # mem.chain => Settled(op'.new.chain, mem.grants)
  BY <1>2 DEF Settled
<1>6. ASSUME Owed("chain")', ~Owed("grants")'
      PROVE  op'.new.grants = mem.grants /\ disk.grants = mem.grants
  <2>1. Serving /\ \A x : ~Owed(x)
    BY <1>6 DEF Starts, Serving, Ready, Free, Owed
  <2> QED BY <1>6, <2>1 DEF Starts, MirrorInv, Kept, Files
<1>7. Owed("chain")' /\ ~Owed("grants")' =>
        Settled(op'.new.chain, disk.grants) /\ Settled(op'.new.chain, mem.grants)
  BY <1>4, <1>6
<1>8. NoneAfter(mem'.chain)
  BY <1>3 DEF RevokeInv
<1>9. Settled(mem'.chain, op'.new.grants) /\ Settled(mem'.chain, mem.grants)
  BY <1>2, <1>3, <1>4, <1>5
<1>10. Whole => NoneAfter(disk.chain)
  BY DEF RevokeInv
<1> QED BY <1>1, <1>2, <1>4, <1>7, <1>8, <1>9, <1>10 DEF RevokeInv

LEMMA ForceKept ==
  ASSUME NEW a, NEW b, NEW gid, DOMAIN a = DOMAIN b,
         \A i \in DOMAIN a : b[i].id = a[i].id /\ (a[i].revoked => b[i].revoked),
         InForce(gid, a)
  PROVE  InForce(gid, b)
BY DEF InForce

LEMMA NoneAfterAppend ==
  ASSUME NEW S, NEW s \in Seq(S), NEW r, NoneAfter(s),
         Decides(r) => \A m \in DOMAIN s : ~Revokes(s[m], r.grant)
  PROVE  NoneAfter(Append(s, r))
<1> DEFINE t == Append(s, r)
<1>1. /\ DOMAIN t = 1..Len(s) + 1 /\ DOMAIN s = 1..Len(s) /\ Len(s) \in Nat
      /\ t[Len(s) + 1] = r
      /\ \A i \in DOMAIN s : t[i] = s[i]
  OBVIOUS
<1> HIDE DEF t
<1> SUFFICES ASSUME NEW m \in DOMAIN t, NEW n \in DOMAIN t, m < n, Decides(t[n])
             PROVE  ~Revokes(t[m], t[n].grant)
  BY DEF NoneAfter, t
<1>2. CASE n = Len(s) + 1
  <2>1. m \in DOMAIN s
    BY <1>1, <1>2
  <2> QED BY <1>1, <1>2, <2>1
<1>3. CASE n # Len(s) + 1
  <2>1. m \in DOMAIN s /\ n \in DOMAIN s
    BY <1>1, <1>3
  <2> QED BY <1>1, <2>1 DEF NoneAfter
<1> QED BY <1>2, <1>3

\* A decision names a request, an act of issuing another class.
LEMMA DecisionShowsNone ==
  ASSUME NEW req, NEW p, NEW g, NEW v, NEW h
  PROVE  RevokedBy(DecisionRecord(req, p, g, v, h)) = {}
BY NamesDistinct DEF RevokedBy, DecisionRecord

LEMMA UngovernedRevoke ==
  ASSUME TypeInv, MirrorInv, RevokeInv, NEW req \in Requests, NEW now \in Instants,
         EvaluateUngoverned(req, now)
  PROVE  RevokeInv'
<1> DEFINE rec   == DecisionRecord(req, None, None, "ungoverned", "ungoverned")
           chain == Append(mem.chain, rec)
<1>1. /\ op'.todo = <<"chain", "count">> /\ op'.new.chain = chain /\ op'.new.grants = mem.grants
      /\ mem'.grants = mem.grants
  BY MirrorTypes DEF EvaluateUngoverned, Begin, Target, MemType, StoreType
<1>2. ~Decides(rec) /\ RevokedBy(rec) = {}
  BY DecisionShowsNone DEF Decides, DecisionRecord
<1> HIDE DEF rec
<1>3. RevokedIn(chain) = RevokedIn(mem.chain) /\ NoneAfter(chain)
  BY <1>2, MirrorTypes, AppendRevoked, NoneAfterAppend DEF RevokeInv
<1>4. GrantsFirst'
  BY <1>1 DEF GrantsFirst
<1>5. Starts
  BY UngovernedStarts
<1> HIDE DEF chain
<1> QED BY <1>1, <1>3, <1>4, <1>5, StartsRevoke

LEMMA GovernedRevoke ==
  ASSUME TypeInv, MirrorInv, RevokeInv, NEW req \in Requests, NEW now \in Instants,
         EvaluateGoverned(req, now)
  PROVE  RevokeInv'
<1>1. PICK i \in FirstCovering(mem.grants, req.agent, Asked(req), now) :
        EvaluateGoverned(req, now)!(i)
  BY DEF EvaluateGoverned
<1> DEFINE g       == mem.grants[i]
           verdict == VerdictUnder(g, Asked(req), Permits(Controlled, Allow, req.label, req.model, Unnamed))
           rec     == DecisionRecord(req, g.principal, g.id, verdict, HicUnder(g, verdict))
           chain   == Append(mem.chain, rec)
           grants  == [mem.grants EXCEPT ![i] = Consume(g, Asked(req).cost)]
           asks    == verdict = "require-approval"
<1>2. mem.grants \in Seq(Grant) /\ i \in DOMAIN mem.grants /\ g \in Grant /\ ~g.revoked
  BY MirrorTypes, FieldTypes DEF FirstCovering, MemType, Covers, IsLive
<1>3. /\ op'.todo = IF asks THEN <<"grants", "charges", "pending", "chain", "count">>
                            ELSE <<"grants", "charges", "chain", "count">>
      /\ op'.new.chain = chain /\ op'.new.grants = grants
      /\ mem'.grants = mem.grants
  BY <1>1, MirrorTypes DEF Begin, Target, MemType, StoreType
<1>4. RevokedBy(rec) = {} /\ rec.grant = g.id
  BY DecisionShowsNone DEF DecisionRecord
<1>5. \A m \in DOMAIN mem.chain : ~Revokes(mem.chain[m], g.id)
  <2> SUFFICES ASSUME NEW m \in DOMAIN mem.chain, Revokes(mem.chain[m], g.id)
               PROVE  FALSE
    OBVIOUS
  <2>1. mem.chain[m] \in Record /\ g.id \in GrantIds
    <3>1. mem.chain \in Seq(Record)
      BY MirrorTypes
    <3>2. mem.chain[m] \in Record
      BY <3>1
    <3>3. g.id \in GrantIds
      <4> HIDE DEF g
      <4> QED
        BY <1>2 DEF Grant
    <3> QED
      BY <3>2, <3>3
  <2>2. Garbage \notin Record
    BY DEF Garbage, Record
  <2>3. g.id \in RevokedBy(mem.chain[m])
    BY <2>1, <2>2 DEF RevokedBy, Revokes
  <2>4. g.id \in RevokedIn(mem.chain)
    BY <2>3 DEF RevokedIn
  <2>5. scope
    BY <1>1 DEF Ready
  <2> QED BY <1>2, <2>4, <2>5 DEF RevokeInv, Settled, InForce
<1>6. ASSUME NEW gid, InForce(gid, mem.grants)
      PROVE  InForce(gid, grants)
  <2>1. Consume(g, Asked(req).cost).id = g.id /\ Consume(g, Asked(req).cost).revoked = g.revoked
    BY <1>2 DEF Consume, Grant
  <2>2. /\ DOMAIN grants = DOMAIN mem.grants
        /\ \A j \in DOMAIN mem.grants : grants[j] = IF j = i THEN Consume(g, Asked(req).cost)
                                                            ELSE mem.grants[j]
    BY <1>2
  <2> HIDE DEF grants
  <2> QED BY <1>6, <2>1, <2>2, ForceKept
<1> HIDE DEF rec, grants, asks
<1>7. RevokedIn(chain) = RevokedIn(mem.chain) /\ NoneAfter(chain)
  BY <1>4, <1>5, MirrorTypes, AppendRevoked, NoneAfterAppend DEF RevokeInv
<1>8. GrantsFirst'
  <2>1. CASE asks
    BY <1>3, <2>1 DEF GrantsFirst
  <2>2. CASE ~asks
    BY <1>3, <2>2 DEF GrantsFirst
  <2> QED BY <2>1, <2>2
<1>9. Starts
  BY GovernedStarts
<1> HIDE DEF chain
<1> QED BY <1>3, <1>6, <1>7, <1>8, <1>9, StartsRevoke

\* An answer shows revoked what the record it answers shows.
LEMMA AnswerShows ==
  ASSUME TypeInv, NEW id \in DOMAIN mem.chain, NEW p, NEW v
  PROVE  RevokedBy(AnswerRecord(id, p, v)) \subseteq RevokedIn(mem.chain)
<1>1. mem.chain[id] \in Record
  BY MirrorTypes
<1>2. mem.chain[id] # Garbage
  BY <1>1 DEF Garbage, Record
<1>3. RevokedBy(AnswerRecord(id, p, v)) \subseteq RevokedBy(mem.chain[id])
  BY <1>2 DEF RevokedBy, AnswerRecord
<1> HIDE DEF RevokedBy
<1> QED BY <1>3 DEF RevokedIn

LEMMA ApproveRevoke ==
  ASSUME TypeInv, MirrorInv, RevokeInv, NEW id \in Ids, NEW who \in Humans, Approve(id, who)
  PROVE  RevokeInv'
<1> DEFINE known == id \in DOMAIN mem.chain
           rec   == AnswerRecord(id, who, "approved")
           chain == IF known THEN Append(mem.chain, rec) ELSE mem.chain
<1>1. /\ op'.todo = IF known THEN <<"pending", "resolved", "chain", "count">>
                             ELSE <<"pending", "resolved">>
      /\ op'.new.chain = chain /\ op'.new.grants = mem.grants /\ mem' = mem
  BY DEF Approve, Begin, Target
<1>2. ~Decides(rec) /\ (known => RevokedBy(rec) \subseteq RevokedIn(mem.chain))
  BY AnswerShows DEF Decides, AnswerRecord
<1> HIDE DEF rec
<1>3. RevokedIn(chain) = RevokedIn(mem.chain) /\ NoneAfter(chain)
  BY <1>2, MirrorTypes, AppendRevoked, NoneAfterAppend DEF RevokeInv
<1>4. GrantsFirst'
  BY <1>1 DEF GrantsFirst
<1>5. Starts
  BY ApproveStarts
<1> HIDE DEF chain
<1> QED BY <1>1, <1>3, <1>4, <1>5, StartsRevoke

LEMMA RejectRevoke ==
  ASSUME TypeInv, MirrorInv, RevokeInv, NEW id \in DOMAIN mem.chain, Reject(id)
  PROVE  RevokeInv'
<1> DEFINE asked   == id \in mem.pending
           charged == mem.charges[id] # None
           rec     == AnswerRecord(id, mem.chain[id].principal, "rejected")
           chain   == Append(mem.chain, rec)
           grants  == IF charged THEN Refunded(mem.grants, mem.charges[id]) ELSE mem.grants
<1>1. /\ op'.todo = RejectPlan(asked, charged)
      /\ op'.new.chain = chain /\ op'.new.grants = grants /\ mem' = mem
  BY DEF Reject, Begin, Target
<1>2. ~Decides(rec) /\ RevokedBy(rec) \subseteq RevokedIn(mem.chain)
  BY AnswerShows DEF Decides, AnswerRecord
<1>3. ASSUME NEW gid, InForce(gid, mem.grants)
      PROVE  InForce(gid, grants)
  <2>1. CASE charged
    <3>1. mem.grants \in Seq(Grant)
      BY MirrorTypes, FieldTypes DEF MemType
    <3>2. \A h \in Grant : \A n : Refund(h, n).id = h.id /\ Refund(h, n).revoked = h.revoked
      BY DEF Refund, Grant
    <3>3. /\ DOMAIN grants = DOMAIN mem.grants
          /\ \A i \in DOMAIN mem.grants : grants[i].id = mem.grants[i].id
                                          /\ grants[i].revoked = mem.grants[i].revoked
      BY <2>1, <3>1, <3>2 DEF Refunded
    <3> HIDE DEF grants
    <3> QED BY <1>3, <3>3, ForceKept
  <2> QED BY <1>3, <2>1
<1> HIDE DEF rec, grants, asked, charged
<1>4. RevokedIn(chain) = RevokedIn(mem.chain) /\ NoneAfter(chain)
  BY <1>2, MirrorTypes, AppendRevoked, NoneAfterAppend DEF RevokeInv
<1>5. GrantsFirst'
  <2>1. CASE asked /\ charged
    BY <1>1, <2>1 DEF GrantsFirst, RejectPlan
  <2>2. CASE asked /\ ~charged
    BY <1>1, <2>2 DEF GrantsFirst, RejectPlan
  <2>3. CASE ~asked /\ charged
    BY <1>1, <2>3 DEF GrantsFirst, RejectPlan
  <2>4. CASE ~asked /\ ~charged
    BY <1>1, <2>4 DEF GrantsFirst, RejectPlan
  <2> QED BY <2>1, <2>2, <2>3, <2>4
<1>6. Starts
  BY RejectStarts
<1> HIDE DEF chain
<1> QED BY <1>1, <1>3, <1>4, <1>5, <1>6, StartsRevoke

LEMMA GrantPlanFirst ==
  ASSUME NEW recorded \in BOOLEAN, op'.todo = GrantPlan(recorded)
  PROVE  GrantsFirst'
<1>1. CASE recorded
  BY <1>1 DEF GrantsFirst, GrantPlan
<1>2. CASE ~recorded
  BY <1>2 DEF GrantsFirst, GrantPlan
<1> QED BY <1>1, <1>2

LEMMA IssueRevoke ==
  ASSUME TypeInv, MirrorInv, RevokeInv, NEW g \in NewGrants, NEW issuer \in Issuers,
         IssueGrant(g, issuer)
  PROVE  RevokeInv'
<1> DEFINE recorded == CheckNotDegraded /\ issuer # Blank
           rec      == ActRecord(issuer, "grant.issue", g.id)
           chain    == IF recorded THEN Append(mem.chain, rec) ELSE mem.chain
           grants   == Append(mem.grants, g)
<1>1. /\ op'.todo = GrantPlan(recorded)
      /\ op'.new.chain = chain /\ op'.new.grants = grants /\ mem' = mem
      /\ \A i \in DOMAIN mem.grants : mem.grants[i].id # g.id
  BY DEF IssueGrant, Begin, Target
<1>2. ~Decides(rec) /\ RevokedBy(rec) = {}
  BY DEF Decides, ActRecord, RevokedBy
<1>3. ASSUME NEW gid, InForce(gid, mem.grants)
      PROVE  InForce(gid, grants)
  <2>1. mem.grants \in Seq(Grant)
    BY MirrorTypes, FieldTypes DEF MemType
  <2>2. /\ DOMAIN grants = DOMAIN mem.grants \cup {Len(mem.grants) + 1}
        /\ grants[Len(mem.grants) + 1] = g
        /\ \A i \in DOMAIN mem.grants : grants[i] = mem.grants[i]
    BY <2>1
  <2> HIDE DEF grants
  <2> QED BY <1>1, <1>3, <2>2 DEF InForce
<1> HIDE DEF rec, grants, recorded
<1>4. RevokedIn(chain) = RevokedIn(mem.chain) /\ NoneAfter(chain)
  BY <1>2, MirrorTypes, AppendRevoked, NoneAfterAppend DEF RevokeInv
<1>5. GrantsFirst'
  <2>1. recorded \in BOOLEAN
    BY DEF recorded
  <2> QED BY <1>1, <2>1, GrantPlanFirst
<1>6. Starts
  BY OperationStarts
<1> HIDE DEF chain
<1> QED BY <1>1, <1>3, <1>4, <1>5, <1>6, StartsRevoke

LEMMA RevokeGrantRevoke ==
  ASSUME TypeInv, MirrorInv, RevokeInv, NEW gid \in GrantIds, NEW who \in Humans,
         RevokeGrant(gid, who)
  PROVE  RevokeInv'
<1> DEFINE recorded == CheckNotDegraded
           rec      == ActRecord(who, "grant.revoke", gid)
           chain    == IF recorded THEN Append(mem.chain, rec) ELSE mem.chain
           grants   == Revoked(mem.grants, gid)
<1>1. /\ op'.todo = GrantPlan(recorded)
      /\ op'.new.chain = chain /\ op'.new.grants = grants /\ mem' = mem
      /\ \E i \in DOMAIN mem.grants : mem.grants[i].id = gid
  BY DEF RevokeGrant, Begin, Target
<1>2. ~Decides(rec) /\ RevokedBy(rec) \subseteq {gid}
  BY DEF Decides, ActRecord, RevokedBy
<1>3. /\ DOMAIN grants = DOMAIN mem.grants
      /\ \A i \in DOMAIN mem.grants : /\ grants[i].id = mem.grants[i].id
                                      /\ mem.grants[i].revoked => grants[i].revoked
                                      /\ grants[i].id = gid => grants[i].revoked
  <2>1. mem.grants \in Seq(Grant)
    BY MirrorTypes, FieldTypes DEF MemType
  <2>2. \A h \in Grant : Revoke(h).id = h.id /\ Revoke(h).revoked
    BY DEF Revoke, Grant
  <2> QED BY <2>1, <2>2 DEF Revoked
<1> HIDE DEF grants
<1>4. InForce(gid, grants)
  BY <1>1, <1>3 DEF InForce
<1>5. ASSUME NEW other, InForce(other, mem.grants)
      PROVE  InForce(other, grants)
  BY <1>3, <1>5, ForceKept
<1> HIDE DEF rec, recorded
<1>6. /\ RevokedIn(chain) \subseteq RevokedIn(mem.chain) \cup {gid}
      /\ NoneAfter(chain)
  BY <1>2, MirrorTypes, AppendRevoked, NoneAfterAppend DEF RevokeInv
<1>7. GrantsFirst'
  <2>1. recorded \in BOOLEAN
    BY DEF recorded, CheckNotDegraded, TypeInv, TypeOK
  <2> QED BY <1>1, <2>1, GrantPlanFirst
<1>8. Starts
  BY OperationStarts
<1> HIDE DEF chain
<1> QED BY <1>1, <1>4, <1>5, <1>6, <1>7, <1>8, StartsRevoke
-----------------------------------------------------------------------------
LEMMA RevokeStep ==
  ASSUME TypeInv, MirrorInv, RevokeInv, [Next]_vars
  PROVE  RevokeInv'
<1>1. CASE SetActiveTenant
  BY <1>1, LoadRevoke DEF SetActiveTenant, Free, Establish, Loaded
<1>2. CASE Restart
  <2>1. op.todo = <<>> /\ UNCHANGED << op, disk >>
    BY <1>2 DEF Restart, MirrorInv
  <2>2. (mem' = disk /\ Readable) \/ (mem' = mem /\ (scope' => scope))
    BY <1>2 DEF Restart, Establish, Loaded
  <2> QED BY <2>1, <2>2, LoadRevoke
<1>3. CASE UNCHANGED vars
  BY <1>3 DEF vars, store, RevokeInv, GrantsFirst, Owed, Whole, Spoiled
<1> QED BY <1>1, <1>2, <1>3, UngovernedRevoke, GovernedRevoke, ApproveRevoke, RejectRevoke,
           IssueRevoke, RevokeGrantRevoke, WriteSetRevoke, WriteRecordRevoke, WriteCountRevoke,
           WriteFailsRevoke, ExitRevoke, CrashRevoke DEF Next

LEMMA InitRevoke == Init => RevokeInv
BY DEF Init, NoOp, Empty, RevokeInv, GrantsFirst, Owed, Settled, RevokedIn, NoneAfter

\* CG-2, whatever fails or restarts: a revocation the log records is in force in
\* grants.json, and the chain decides nothing under a grant after its revocation.
THEOREM RevocationIsFinal == Spec => []RevocationStands
<1>1. Init => TypeInv /\ MirrorInv /\ RevokeInv
  BY InitType, InitMirror, InitRevoke
<1>2. TypeInv /\ MirrorInv /\ RevokeInv /\ [Next]_vars => (TypeInv /\ MirrorInv /\ RevokeInv)'
  BY TypeStep, MirrorStep, RevokeStep
<1>3. TypeInv /\ RevokeInv => RevocationStands
  <2> SUFFICES ASSUME TypeInv, RevokeInv PROVE RevocationStands
    OBVIOUS
  <2>1. ASSUME NEW n \in DOMAIN disk.chain, NEW i \in DOMAIN disk.grants, disk.chain[n] # Garbage,
               Revokes(disk.chain[n], disk.grants[i].id)
        PROVE  disk.grants[i].revoked
    <3>1. disk.grants \in Seq(Grant)
      BY MirrorTypes, FieldTypes DEF DiskType
    <3>2. disk.grants[i] \in Grant
      BY <3>1
    <3>5. disk.grants[i].id \in GrantIds
      BY <3>2 DEF Grant
    <3>3. disk.grants[i].id \in RevokedBy(disk.chain[n])
      BY <2>1, <3>5 DEF RevokedBy, Revokes
    <3>4. disk.grants[i].id \in RevokedIn(disk.chain)
      BY <3>3 DEF RevokedIn
    <3> QED BY <3>4 DEF RevokeInv, Settled, InForce
  <2>2. NoneAfter(mem.chain)
    BY DEF RevokeInv
  <2> QED BY <2>1, <2>2 DEF RevocationStands, NoneAfter
<1> QED BY <1>1, <1>2, <1>3, PTL DEF Spec
-----------------------------------------------------------------------------
(* The refinement.  Without faults every operation is a step of the book   *)
(* when it starts, and everything else it does is a stutter.               *)

View(files) ==
  [records |-> [n \in DOMAIN files.chain |-> files.chain[n].verdict],
   waiting |-> files.pending, answer |-> files.resolved]

\* Whoever waits for a human is an escalation on record.
QueueAsked(b) ==
  \A id \in b.waiting : id \in DOMAIN b.records /\ b.records[id] = "require-approval"

\* Nothing went wrong.
CalmInv ==
  /\ failures = 0 /\ crashes = 0 /\ ~degraded /\ eol /\ Whole
  /\ op.todo # <<>> => up /\ scope
  /\ QueueAsked(BookView)

LEMMA ViewCases ==
  /\ op.todo # <<>> => BookView = View(op.new)
  /\ op.todo = <<>> => BookView = View(disk)
BY DEF BookView, View

LEMMA VerdictsAppend ==
  ASSUME NEW s \in Seq(Record), NEW r \in Record
  PROVE  [n \in DOMAIN Append(s, r) |-> Append(s, r)[n].verdict]
           = Append([n \in DOMAIN s |-> s[n].verdict], r.verdict)
<1> DEFINE t == Append(s, r)
           v == [n \in DOMAIN s |-> s[n].verdict]
           w == [n \in DOMAIN t |-> t[n].verdict]
<1>1. /\ t \in Seq(Record) /\ Len(t) = Len(s) + 1 /\ Len(s) \in Nat
      /\ DOMAIN t = 1..Len(s) + 1 /\ DOMAIN s = 1..Len(s)
      /\ t[Len(s) + 1] = r /\ \A n \in DOMAIN s : t[n] = s[n]
  OBVIOUS
<1>2. \A x \in Record : x.verdict \in Verdicts
  BY DEF Record
<1>3. v \in Seq(Verdicts) /\ Len(v) = Len(s) /\ DOMAIN v = 1..Len(s)
  <2>1. v \in [1..Len(s) -> Verdicts]
    BY <1>1, <1>2
  <2> QED BY <1>1, <2>1
<1>4. /\ DOMAIN Append(v, r.verdict) = 1..Len(s) + 1
      /\ Append(v, r.verdict)[Len(s) + 1] = r.verdict
      /\ \A n \in 1..Len(s) : Append(v, r.verdict)[n] = s[n].verdict
      /\ Append(v, r.verdict) = [n \in DOMAIN Append(v, r.verdict) |-> Append(v, r.verdict)[n]]
  <2>1. \A n \in 1..Len(s) : v[n] = s[n].verdict
    BY <1>1
  <2>2. r.verdict \in Verdicts
    BY <1>2
  <2> HIDE DEF v, Verdicts
  <2> QED BY <1>1, <1>3, <2>1, <2>2
<1>5. \A n \in 1..Len(s) + 1 : w[n] = Append(v, r.verdict)[n]
  <2> SUFFICES ASSUME NEW n \in 1..Len(s) + 1
               PROVE  w[n] = Append(v, r.verdict)[n]
    OBVIOUS
  <2>1. CASE n = Len(s) + 1
    BY <1>1, <1>4, <2>1
  <2>2. CASE n # Len(s) + 1
    <3>1. n \in 1..Len(s)
      BY <1>1, <2>2
    <3>2. w[n] = s[n].verdict
      BY <1>1, <3>1
    <3> HIDE DEF v, w
    <3> QED BY <1>4, <3>1, <3>2
  <2> QED BY <2>1, <2>2
<1>6. w = [n \in 1..Len(s) + 1 |-> w[n]]
  BY <1>1
<1> HIDE DEF v, w, t
<1>7. w = Append(v, r.verdict)
  BY <1>4, <1>5, <1>6
<1> QED BY <1>7 DEF w, v, t

\* Before an operation the book is what memory says, and after it what it plans.
LEMMA StartsView ==
  ASSUME TypeInv, MirrorInv, CalmInv, Starts, op'.todo # <<>>
  PROVE  BookView = View(mem) /\ BookView' = View(op'.new)
<1>1. op.todo = <<>> /\ Serving /\ \A x : ~Owed(x)
  BY DEF Starts, Ready, Free, Serving, CalmInv, Owed
<1>2. \A x \in Files : mem[x] = disk[x]
  BY <1>1 DEF MirrorInv, Kept, CalmInv
<1>3. mem.chain = disk.chain /\ mem.pending = disk.pending /\ mem.resolved = disk.resolved
  BY <1>2 DEF Files
<1>4. View(mem) = View(disk)
  BY <1>3 DEF View
<1> QED BY <1>1, <1>4, ViewCases DEF BookView, View

LEMMA ViewFields ==
  ASSUME NEW f
  PROVE  /\ View(f).records = [n \in DOMAIN f.chain |-> f.chain[n].verdict]
         /\ View(f).waiting = f.pending /\ View(f).answer = f.resolved
BY DEF View

\* Every operation finds room for its record.
LEMMA ViewRoom ==
  ASSUME TypeInv, CanRecord
  PROVE  /\ Len(View(mem).records) < MaxChain
         /\ Len(View(mem).records) = Len(mem.chain)
         /\ DOMAIN View(mem).records = DOMAIN mem.chain
<1>1. mem.chain \in Seq(Record) /\ Len(mem.chain) \in Nat /\ DOMAIN mem.chain = 1..Len(mem.chain)
  BY MirrorTypes
<1>2. View(mem).records = [n \in 1..Len(mem.chain) |-> mem.chain[n].verdict]
  BY <1>1, ViewFields
<1>3. Len(View(mem).records) = Len(mem.chain)
  BY <1>1, <1>2
<1> QED BY <1>1, <1>2, <1>3 DEF CanRecord

LEMMA UngovernedRules ==
  ASSUME TypeInv, MirrorInv, CalmInv, NEW req \in Requests, NEW now \in Instants,
         EvaluateUngoverned(req, now)
  PROVE  Promised!Next
<1> DEFINE rec   == DecisionRecord(req, None, None, "ungoverned", "ungoverned")
           chain == Append(mem.chain, rec)
           new   == Target(mem.grants, mem.charges, mem.pending, mem.resolved, chain)
<1>1. /\ op'.todo # <<>> /\ op'.new = new /\ CanRecord
      /\ new.chain = chain /\ new.pending = mem.pending /\ new.resolved = mem.resolved
  BY DEF EvaluateUngoverned, Begin, Target
<1>2. rec \in Record /\ rec.verdict = "ungoverned"
  <2>1. rec \in Record
    BY DecisionRecordType, InputsTyped DEF Verdicts, HicLevels
  <2> QED BY <2>1 DEF DecisionRecord
<1>3. BookView = View(mem) /\ BookView' = View(new)
  BY <1>1, StartsView, UngovernedStarts
<1> HIDE DEF rec, new
<1>4. View(new) = [records |-> Append(View(mem).records, "ungoverned"),
                   waiting |-> View(mem).waiting, answer |-> View(mem).answer]
  BY <1>1, <1>2, MirrorTypes, VerdictsAppend DEF View
<1>5. Promised!Rule
  BY <1>1, <1>3, <1>4, ViewRoom DEF Promised!Rule, Promised!Rulings, Promised!HasRoom, Promised!WithRuling
<1> QED BY <1>5 DEF Promised!Next

LEMMA GovernedRules ==
  ASSUME TypeInv, MirrorInv, CalmInv, NEW req \in Requests, NEW now \in Instants,
         EvaluateGoverned(req, now)
  PROVE  Promised!Next
<1>1. PICK i \in FirstCovering(mem.grants, req.agent, Asked(req), now) :
        EvaluateGoverned(req, now)!(i)
  BY DEF EvaluateGoverned
<1> DEFINE g       == mem.grants[i]
           verdict == VerdictUnder(g, Asked(req), Permits(Controlled, Allow, req.label, req.model, Unnamed))
           rec     == DecisionRecord(req, g.principal, g.id, verdict, HicUnder(g, verdict))
           chain   == Append(mem.chain, rec)
           asks    == verdict = "require-approval"
           pending == IF asks THEN mem.pending \cup {Len(chain)} ELSE mem.pending
           new     == op'.new
<1>2. /\ op'.todo # <<>> /\ CanRecord
      /\ new.chain = chain /\ new.pending = pending /\ new.resolved = mem.resolved
  BY <1>1 DEF Begin, Target
<1>3. verdict \in {"deny", "require-approval", "allow"}
  BY DEF VerdictUnder
<1>4. rec \in Record /\ rec.verdict = verdict
  <2>1. mem.grants \in Seq(Grant) /\ i \in DOMAIN mem.grants
    BY MirrorTypes, FieldTypes DEF FirstCovering, MemType
  <2>5. g \in Grant
    BY <2>1
  <2>2. g.principal \in Humans /\ g.id \in GrantIds /\ g.hic \in GrantHics
    BY <2>5 DEF Grant
  <2>3. HicUnder(g, verdict) \in HicLevels
    BY <2>2 DEF HicUnder, HicLevels, GrantHics
  <2> HIDE DEF g, verdict
  <2>4. rec \in Record
    BY <1>3, <2>2, <2>3, InputsTyped, DecisionRecordType DEF Verdicts
  <2> QED BY <2>4 DEF DecisionRecord
<1>5. BookView = View(mem) /\ BookView' = View(new)
  BY <1>2, StartsView, GovernedStarts
<1>6. Len(chain) = Len(mem.chain) + 1
  BY <1>4, MirrorTypes
<1> HIDE DEF rec, new, verdict
<1>7. View(new) = [records |-> Append(View(mem).records, verdict),
                   waiting |-> IF verdict = "require-approval"
                               THEN View(mem).waiting \cup {Len(mem.chain) + 1}
                               ELSE View(mem).waiting,
                   answer |-> View(mem).answer]
  BY <1>2, <1>4, <1>6, MirrorTypes, VerdictsAppend DEF View
<1>8. Promised!Rule
  BY <1>2, <1>3, <1>5, <1>7, ViewRoom
     DEF Promised!Rule, Promised!Rulings, Promised!HasRoom, Promised!WithRuling, Promised!NextId
<1> QED BY <1>8 DEF Promised!Next

LEMMA AnswerView ==
  ASSUME TypeInv, NEW new, NEW id \in Ids, NEW rec \in Record, NEW answer,
         rec.verdict = answer,
         new.chain = Append(mem.chain, rec), new.pending = mem.pending \ {id},
         new.resolved = [mem.resolved EXCEPT ![id] = answer]
  PROVE  View(new) = Promised!WithAnswer(View(mem), id, answer)
<1>1. [n \in DOMAIN new.chain |-> new.chain[n].verdict] = Append(View(mem).records, answer)
  <2>1. [n \in DOMAIN new.chain |-> new.chain[n].verdict]
          = Append([n \in DOMAIN mem.chain |-> mem.chain[n].verdict], rec.verdict)
    BY MirrorTypes, VerdictsAppend
  <2> QED BY <2>1, ViewFields
<1>2. View(mem).waiting = mem.pending /\ View(mem).answer = mem.resolved
  BY ViewFields
<1>3. View(new) = [records |-> Append(View(mem).records, answer), waiting |-> mem.pending \ {id},
                   answer |-> [mem.resolved EXCEPT ![id] = answer]]
  BY <1>1 DEF View
<1>4. Promised!WithAnswer(View(mem), id, answer)
        = [records |-> Append(View(mem).records, answer), waiting |-> View(mem).waiting \ {id},
           answer |-> [View(mem).answer EXCEPT ![id] = answer]]
  BY DEF Promised!WithAnswer
<1> HIDE DEF View
<1> QED BY <1>2, <1>3, <1>4

LEMMA ApproveAnswers ==
  ASSUME TypeInv, MirrorInv, CalmInv, NEW id \in Ids, NEW who \in Humans, Approve(id, who)
  PROVE  Promised!Next
<1> DEFINE rec == AnswerRecord(id, who, "approved")
           new == op'.new
<1>1. op'.todo # <<>> /\ CanRecord /\ id \in mem.pending
  BY DEF Approve, Begin, Awaited
<1>2. BookView = View(mem) /\ BookView' = View(new)
  BY <1>1, StartsView, ApproveStarts
<1>3. id \in DOMAIN mem.chain
  <2>1. id \in BookView.waiting
    BY <1>1, <1>2, ViewFields
  <2>2. id \in DOMAIN BookView.records
    BY <2>1 DEF CalmInv, QueueAsked
  <2> QED BY <1>1, <1>2, <2>2, ViewRoom
<1>4. /\ new.chain = Append(mem.chain, rec) /\ new.pending = mem.pending \ {id}
      /\ new.resolved = [mem.resolved EXCEPT ![id] = "approved"]
  BY <1>3 DEF Approve, Begin, Target
<1>5. rec \in Record /\ rec.verdict = "approved"
  <2>1. rec \in Record
    BY <1>3, MirrorTypes, AnswerRecordType DEF Verdicts
  <2> QED BY <2>1 DEF AnswerRecord
<1> HIDE DEF rec, new
<1>6. View(new) = Promised!WithAnswer(View(mem), id, "approved")
  BY <1>4, <1>5, AnswerView
<1>7. Promised!Approve
  BY <1>1, <1>2, <1>6, ViewRoom, ViewFields
     DEF Promised!Approve, Promised!MayApprove, Promised!HasRoom, Promised!BookIds, Ids
<1> QED BY <1>7 DEF Promised!Next

LEMMA RejectAnswers ==
  ASSUME TypeInv, MirrorInv, CalmInv, NEW id \in DOMAIN mem.chain, Reject(id)
  PROVE  Promised!Next
<1> DEFINE rec == AnswerRecord(id, mem.chain[id].principal, "rejected")
           new == op'.new
<1>1. CanRecord /\ id \in Ids
  BY MirrorTypes, BoundsTyped DEF Reject, TypeInv, Lengths, Ids
<1>2. op'.todo # <<>>
  BY DEF Reject, Begin, RejectPlan
<1>3. BookView = View(mem) /\ BookView' = View(new)
  BY <1>2, StartsView, RejectStarts
<1>4. /\ new.chain = Append(mem.chain, rec) /\ new.pending = mem.pending \ {id}
      /\ new.resolved = [mem.resolved EXCEPT ![id] = "rejected"]
  BY DEF Reject, Begin, Target
<1>5. rec \in Record /\ rec.verdict = "rejected"
  <2>1. mem.chain[id] \in Record
    BY MirrorTypes
  <2>2. mem.chain[id].principal \in Humans \cup {None}
    BY <2>1 DEF Record
  <2>3. rec \in Record
    BY <2>2, MirrorTypes, AnswerRecordType DEF Verdicts
  <2> QED BY <2>3 DEF AnswerRecord
<1> HIDE DEF rec, new
<1>6. View(new) = Promised!WithAnswer(View(mem), id, "rejected")
  BY <1>1, <1>4, <1>5, AnswerView
<1>7. Promised!Reject
  BY <1>1, <1>3, <1>6, ViewRoom
     DEF Promised!Reject, Promised!MayReject, Promised!HasRoom, Promised!BookIds, Ids
<1> QED BY <1>7 DEF Promised!Next

\* A grant issued or revoked leaves a note, or nothing the book shows.
LEMMA GrantNotes ==
  ASSUME TypeInv, MirrorInv, CalmInv, Starts, CanRecord, op'.todo # <<>>,
         op'.new.pending = mem.pending, op'.new.resolved = mem.resolved,
         NEW rec \in Record, rec.verdict = "approved",
         op'.new.chain \in {mem.chain, Append(mem.chain, rec)}
  PROVE  [Promised!Next]_BookView
<1> DEFINE new == op'.new
<1>1. BookView = View(mem) /\ BookView' = View(new)
  BY StartsView
<1>2. CASE new.chain = mem.chain
  <2>1. View(new) = View(mem)
    BY <1>2 DEF View
  <2> QED BY <1>1, <2>1
<1>3. CASE new.chain = Append(mem.chain, rec)
  <2> HIDE DEF new
  <2>1. View(new) = Promised!WithNote(View(mem))
    BY <1>3, MirrorTypes, VerdictsAppend DEF View, Promised!WithNote, new
  <2>2. Promised!Note
    BY <1>1, <2>1, ViewRoom DEF Promised!Note, Promised!HasRoom
  <2> QED BY <2>2 DEF Promised!Next
<1> QED BY <1>2, <1>3

LEMMA OperationPromised ==
  ASSUME TypeInv, MirrorInv, CalmInv,
         \/ \E req \in Requests, now \in Instants : EvaluateUngoverned(req, now)
         \/ \E req \in Requests, now \in Instants : EvaluateGoverned(req, now)
         \/ \E id \in Ids, who \in Humans : Approve(id, who)
         \/ \E id \in DOMAIN mem.chain : Reject(id)
         \/ \E g \in NewGrants, issuer \in Issuers : IssueGrant(g, issuer)
         \/ \E gid \in GrantIds, who \in Humans : RevokeGrant(gid, who)
  PROVE  [Promised!Next]_BookView
<1>1. ASSUME NEW g \in NewGrants, NEW issuer \in Issuers, IssueGrant(g, issuer)
      PROVE  [Promised!Next]_BookView
  <2> DEFINE rec == ActRecord(issuer, "grant.issue", g.id)
  <2>1. /\ CanRecord /\ op'.todo # <<>>
        /\ op'.new.pending = mem.pending /\ op'.new.resolved = mem.resolved
        /\ op'.new.chain = IF CheckNotDegraded /\ issuer # Blank THEN Append(mem.chain, rec) ELSE mem.chain
    BY <1>1 DEF IssueGrant, Begin, Target, GrantPlan
  <2>2. issuer # Blank => rec \in Record /\ rec.verdict = "approved"
    <3>1. issuer # Blank => issuer \in Humans
      BY InputsTyped
    <3>2. g.id \in GrantIds
      BY NewGrantSound DEF Grant
    <3> QED BY <3>1, <3>2 DEF ActRecord, Record, Verdicts, HicLevels
  <2>3. Starts
    BY <1>1, OperationStarts
  <2> HIDE DEF rec
  <2>4. CASE issuer # Blank
    BY <2>1, <2>2, <2>3, <2>4, GrantNotes
  <2>5. CASE issuer = Blank
    <3>1. BookView = View(mem) /\ BookView' = View(op'.new)
      BY <2>1, <2>3, StartsView
    <3> QED BY <2>1, <2>5, <3>1 DEF View
  <2> QED BY <2>4, <2>5
<1>2. ASSUME NEW gid \in GrantIds, NEW who \in Humans, RevokeGrant(gid, who)
      PROVE  [Promised!Next]_BookView
  <2> DEFINE rec == ActRecord(who, "grant.revoke", gid)
  <2>1. /\ CanRecord /\ op'.todo # <<>>
        /\ op'.new.pending = mem.pending /\ op'.new.resolved = mem.resolved
        /\ op'.new.chain \in {mem.chain, Append(mem.chain, rec)}
    BY <1>2 DEF RevokeGrant, Begin, Target, GrantPlan
  <2>2. rec \in Record /\ rec.verdict = "approved"
    BY DEF ActRecord, Record, Verdicts, HicLevels
  <2>3. Starts
    BY <1>2, OperationStarts
  <2> HIDE DEF rec
  <2> QED BY <2>1, <2>2, <2>3, GrantNotes
<1> QED BY <1>1, <1>2, UngovernedRules, GovernedRules, ApproveAnswers, RejectAnswers

\* The last write leaves on disk exactly what the operation promised.
LEMMA WritesStutter ==
  ASSUME TypeInv, MirrorInv, CalmInv, NEW f, Writing(f), Done(f), disk'.chain = disk.chain \/ f = "chain",
         f = "chain" => disk'.chain = Append(disk.chain, Last(op.new.chain)),
         \A x \in Files \ {"chain"} : disk'[x] = IF x = f THEN op.new[x] ELSE disk[x]
  PROVE  /\ UNCHANGED BookView /\ op'.new = op.new
         /\ op'.todo = <<>> => \A x \in Files : disk'[x] = op.new[x]
<1>1. /\ op'.new = op.new /\ op.todo # <<>> /\ Serving
      /\ \A x : x # f /\ Owed(x) => Owed(x)'
  BY DoneOwed DEF Writing, Serving, CalmInv
<1>2. BookView = View(op.new)
  BY <1>1, ViewCases
<1>3. op'.todo # <<>> => UNCHANGED BookView
  BY <1>1, <1>2 DEF BookView, View
<1>4. ASSUME op'.todo = <<>>
      PROVE  UNCHANGED BookView /\ \A x \in Files : disk'[x] = op.new[x]
  <2>1. \A x : ~Owed(x)'
    BY <1>4 DEF Owed
  <2>2. ASSUME NEW x \in Files
        PROVE  disk'[x] = op.new[x]
    <3>1. CASE x = f
      <4>1. CASE f = "chain"
        <5>1. Owed("chain")
          BY <4>1, MirrorTypes, HeadOwed
        <5> QED BY <3>1, <4>1, <5>1 DEF MirrorInv, Kept, CalmInv
      <4>2. CASE f # "chain"
        BY <3>1, <4>2
      <4> QED BY <4>1, <4>2
    <3>2. CASE x # f
      <4>1. op.new[x] = disk[x]
        BY <1>1, <2>1, <3>2 DEF MirrorInv, Kept, CalmInv
      <4>2. disk'[x] = disk[x]
        BY <3>2
      <4> QED BY <4>1, <4>2
    <3> QED BY <3>1, <3>2
  <2>3. disk'.chain = op.new.chain /\ disk'.pending = op.new.pending /\ disk'.resolved = op.new.resolved
    BY <2>2 DEF Files
  <2>4. BookView' = View(disk')
    BY <1>4 DEF BookView, View
  <2> QED BY <1>2, <2>2, <2>3, <2>4 DEF View
<1> QED BY <1>1, <1>3, <1>4

LEMMA WriteKeepsBook ==
  ASSUME TypeInv, MirrorInv, CalmInv, WriteSet \/ WriteRecord \/ WriteCount
  PROVE  /\ UNCHANGED << BookView, up, scope, degraded, faults >> /\ eol' /\ Whole'
         /\ op.todo # <<>> /\ op'.new = op.new
         /\ op'.todo = <<>> => \A x \in Files : disk'[x] = op.new[x]
<1> DEFINE Promise == op'.new = op.new /\ (op'.todo = <<>> => \A x \in Files : disk'[x] = op.new[x])
<1>1. CASE WriteSet
  <2>1. PICK f \in Files \ {"chain"} : WriteSet!(f)
    BY <1>1 DEF WriteSet
  <2>2. \A x \in Files : disk'[x] = IF x = f THEN op.new[x] ELSE disk[x]
    BY <2>1, MirrorTypes DEF DiskType, StoreType, Files
  <2>3. disk'.chain = disk.chain
    BY <2>1, <2>2 DEF Files
  <2>4. UNCHANGED BookView /\ Promise
    BY <2>1, <2>2, <2>3, WritesStutter
  <2>5. Whole'
    BY <2>3 DEF CalmInv, Whole, Spoiled
  <2> QED BY <2>1, <2>4, <2>5 DEF CalmInv, Writing
<1>2. CASE WriteRecord
  <2>1. Last(op.new.chain) \in Record
    BY <1>2, LineType DEF WriteRecord
  <2>2. /\ disk'.chain = Append(disk.chain, Last(op.new.chain))
        /\ \A x \in Files \ {"chain"} : disk'[x] = disk[x]
    BY <1>2, MirrorTypes DEF WriteRecord, LogGains, Appended, CalmInv, DiskType, StoreType, Files
  <2>3. UNCHANGED BookView /\ Promise
    BY <1>2, <2>2, WritesStutter DEF WriteRecord
  <2>4. Garbage \notin Record
    BY DEF Garbage, Record
  <2>5. Whole'
    <3>1. \A i \in DOMAIN disk'.chain : disk'.chain[i] = Last(op.new.chain) \/
            (i \in DOMAIN disk.chain /\ disk'.chain[i] = disk.chain[i])
      BY <2>2, MirrorTypes
    <3> QED BY <2>1, <2>4, <3>1 DEF CalmInv, Whole, Spoiled
  <2> QED BY <1>2, <2>3, <2>5 DEF WriteRecord, Writing
<1>3. CASE WriteCount
  <2>1. UNCHANGED BookView /\ Promise
    BY <1>3, WritesStutter DEF WriteCount, Files
  <2> QED BY <1>3, <2>1 DEF WriteCount, Writing, CalmInv, Whole, Spoiled
<1> QED BY <1>1, <1>2, <1>3

\* A queue that holds only escalations on record stays one.
LEMMA BookQueue ==
  ASSUME TypeInv, CalmInv, [Promised!Next]_BookView
  PROVE  QueueAsked(BookView)'
<1> DEFINE b == BookView
           S == Verdicts \cup {"garbage"}
<1>1. b.records \in Seq(S)
  <2>1. PICK files \in {op.new, disk} : b = View(files)
    BY ViewCases
  <2>2. files.chain \in Seq(Record \cup {Garbage})
    BY <2>1, MirrorTypes
  <2>3. \A r \in Record \cup {Garbage} : r.verdict \in S
    BY DEF Record, Garbage
  <2>4. b.records = [n \in 1..Len(files.chain) |-> files.chain[n].verdict]
    BY <2>1, <2>2, ViewFields
  <2>5. b.records \in [1..Len(files.chain) -> S]
    BY <2>2, <2>3, <2>4
  <2> QED BY <2>2, <2>5
<1> HIDE DEF S
<1>3. ASSUME NEW v
      PROVE  /\ Len(b.records) + 1 \in DOMAIN Append(b.records, v)
             /\ Append(b.records, v)[Len(b.records) + 1] = v
             /\ \A id \in DOMAIN b.records : id \in DOMAIN Append(b.records, v)
                                              /\ Append(b.records, v)[id] = b.records[id]
  BY <1>1
<1>2. QueueAsked(b)
  BY DEF CalmInv
<1> HIDE DEF b
<1>4. CASE b' = b
  BY <1>2, <1>4 DEF QueueAsked, b
<1>5. CASE Promised!Rule
  <2>1. PICK v : b' = Promised!WithRuling(b, v)
    BY <1>5 DEF Promised!Rule, b
  <2>2. /\ b'.records = Append(b.records, v)
        /\ \A id \in b'.waiting : id \in b.waiting \/ (id = Len(b.records) + 1 /\ v = "require-approval")
    BY <2>1 DEF Promised!WithRuling, Promised!NextId
  <2>3. QueueAsked(b)'
    BY <1>2, <1>3, <2>2 DEF QueueAsked
  <2> QED BY <2>3 DEF b
<1>6. CASE Promised!Approve \/ Promised!Reject
  <2>1. PICK id, a : b' = Promised!WithAnswer(b, id, a)
    BY <1>6 DEF Promised!Approve, Promised!Reject, b
  <2>2. b'.records = Append(b.records, a) /\ b'.waiting \subseteq b.waiting
    BY <2>1 DEF Promised!WithAnswer
  <2>3. QueueAsked(b)'
    BY <1>2, <1>3, <2>2 DEF QueueAsked
  <2> QED BY <2>3 DEF b
<1>7. CASE Promised!Note
  <2>1. b'.records = Append(b.records, "approved") /\ b'.waiting = b.waiting
    BY <1>7 DEF Promised!Note, Promised!WithNote, b
  <2>2. QueueAsked(b)'
    BY <1>2, <1>3, <2>1 DEF QueueAsked
  <2> QED BY <2>2 DEF b
<1> QED BY <1>4, <1>5, <1>6, <1>7 DEF Promised!Next, b

LEMMA BookStep ==
  ASSUME MaxCrashes = 0, MaxFailures = 0, TypeInv, MirrorInv, CalmInv, [Next]_vars
  PROVE  CalmInv' /\ [Promised!Next]_BookView
<1> SUFFICES /\ [Promised!Next]_BookView
             /\ failures' = 0 /\ crashes' = 0 /\ ~degraded' /\ eol' /\ Whole'
             /\ op'.todo # <<>> => up' /\ scope'
  BY BookQueue DEF CalmInv
<1>1. ASSUME \/ \E req \in Requests, now \in Instants : EvaluateUngoverned(req, now)
             \/ \E req \in Requests, now \in Instants : EvaluateGoverned(req, now)
             \/ \E id \in Ids, who \in Humans : Approve(id, who)
             \/ \E id \in DOMAIN mem.chain : Reject(id)
             \/ \E g \in NewGrants, issuer \in Issuers : IssueGrant(g, issuer)
             \/ \E gid \in GrantIds, who \in Humans : RevokeGrant(gid, who)
      PROVE  /\ [Promised!Next]_BookView
             /\ failures' = 0 /\ crashes' = 0 /\ ~degraded' /\ eol' /\ Whole'
             /\ op'.todo # <<>> => up' /\ scope'
  <2>1. [Promised!Next]_BookView
    BY <1>1, OperationPromised
  <2>2. Starts
    BY <1>1, OperationStarts
  <2>3. UNCHANGED faults
    BY <1>1 DEF EvaluateUngoverned, EvaluateGoverned, Approve, Reject, IssueGrant, RevokeGrant, Begin
  <2> QED BY <2>1, <2>2, <2>3 DEF Starts, Ready, Free, store, faults, CalmInv, Whole, Spoiled
<1>2. CASE WriteSet \/ WriteRecord \/ WriteCount
  BY <1>2, WriteKeepsBook DEF CalmInv, faults
<1>3. CASE SetActiveTenant \/ Restart
  <2>1. UNCHANGED << op, disk, eol, degraded, crashes >> /\ op.todo = <<>>
    BY <1>3 DEF SetActiveTenant, Restart, Free, MirrorInv
  <2>2. UNCHANGED failures
    <3>1. ASSUME NEW saved \in BOOLEAN, Establish(saved)
          PROVE  UNCHANGED failures
      BY <3>1 DEF Establish, CalmInv
    <3> QED BY <1>3, <3>1 DEF SetActiveTenant, Restart
  <2>3. UNCHANGED BookView
    BY <2>1 DEF BookView
  <2> QED BY <2>1, <2>2, <2>3 DEF CalmInv, Whole, Spoiled
<1>4. CASE Exit
  <2>1. op.todo = <<>> /\ op'.todo = <<>> /\ UNCHANGED << disk, eol, faults >> /\ ~degraded'
    BY <1>4 DEF Exit, Free, Ends, NoOp, store
  <2>2. UNCHANGED BookView
    BY <2>1 DEF BookView
  <2> QED BY <2>1, <2>2 DEF faults, CalmInv, Whole, Spoiled
<1>5. CASE UNCHANGED vars
  BY <1>5 DEF vars, store, faults, CalmInv, Whole, Spoiled, BookView
<1>6. ~WriteFails /\ ~Crash
  BY DEF WriteFails, Crash, CalmInv
<1> QED BY <1>1, <1>2, <1>3, <1>4, <1>5, <1>6 DEF Next

LEMMA InitBook == Init => CalmInv /\ Promised!Init
<1> SUFFICES ASSUME Init PROVE CalmInv /\ Promised!Init
  OBVIOUS
<1>1. op.todo = <<>> /\ disk = Empty
  BY DEF Init, NoOp
<1>2. View(Empty) = [records |-> <<>>, waiting |-> {}, answer |-> [id \in Ids |-> None]]
  <2>1. [n \in DOMAIN <<>> |-> <<>>[n].verdict] = <<>>
    OBVIOUS
  <2> QED BY <2>1 DEF View, Empty
<1>3. BookView = View(Empty)
  BY <1>1, ViewCases
<1>4. Promised!Init
  BY <1>2, <1>3 DEF Promised!Init, Promised!EmptyBook, Promised!BookIds, Ids
<1>5. Whole
  BY DEF Init, Empty, Whole, Spoiled
<1>6. BookView.waiting = {}
  BY <1>2, <1>3
<1> QED BY <1>1, <1>4, <1>5, <1>6 DEF Init, CalmInv, QueueAsked

\* The refinement: where nothing fails, the pipeline with its five files, its
\* write order, its exits and its restarts is an atomic book of decisions.
THEOREM ImplementsDecisionBook ==
  ASSUME MaxCrashes = 0, MaxFailures = 0
  PROVE  Spec => KeepsDecisionBook
<1>1. Init => TypeInv /\ MirrorInv /\ CalmInv /\ Promised!Init
  BY InitType, InitMirror, InitBook
<1>2. TypeInv /\ MirrorInv /\ CalmInv /\ [Next]_vars =>
        (TypeInv /\ MirrorInv /\ CalmInv)' /\ [Promised!Next]_BookView
  BY TypeStep, MirrorStep, BookStep
<1> QED BY <1>1, <1>2, PTL DEF Spec, KeepsDecisionBook, Promised!Spec
-----------------------------------------------------------------------------
(* What agents are told of the answers, where nothing fails.               *)

\* An answer shown is on record, or is the one the operation is recording; and
\* only an escalation is ever approved.
AnswerInv ==
  /\ \A id \in Ids : BookView.answer[id] # None =>
                      <<id, BookView.answer[id]>> \in answered \cup op.about
  /\ ~Owed("chain") => op.about \subseteq answered
  /\ \A id \in Ids : <<id, "approved">> \in answered \cup op.about =>
       id \in DOMAIN disk.chain /\ disk.chain[id].verdict = "require-approval"

\* Before an operation memory is what the files say.
LEMMA CalmMemory ==
  ASSUME TypeInv, MirrorInv, CalmInv, Ready
  PROVE  /\ mem.chain = disk.chain /\ BookView.answer = mem.resolved
         /\ BookView.waiting = mem.pending /\ ~Owed("chain")
         /\ BookView.records = [n \in DOMAIN mem.chain |-> mem.chain[n].verdict]
<1>1. op.todo = <<>> /\ Serving /\ \A x : ~Owed(x)
  BY DEF Ready, Free, Serving, CalmInv, Owed
<1>2. mem.chain = disk.chain /\ mem.pending = disk.pending /\ mem.resolved = disk.resolved
  BY <1>1 DEF MirrorInv, Kept, CalmInv, Files
<1> QED BY <1>1, <1>2, ViewCases, ViewFields

LEMMA NothingAnswered ==
  ASSUME TypeInv, MirrorInv, CalmInv, AnswerInv, Ready, op'.todo # <<>>,
         op'.new.resolved = mem.resolved, op'.about = {},
         UNCHANGED << disk, answered >>
  PROVE  AnswerInv'
<1>1. BookView'.answer = mem.resolved
  BY DEF BookView
<1> QED BY <1>1, CalmMemory DEF AnswerInv

LEMMA OneAnswered ==
  ASSUME TypeInv, MirrorInv, CalmInv, AnswerInv, Ready, op'.todo # <<>>,
         NEW who \in Ids, NEW answer, answer = "approved" => who \in mem.pending,
         op'.new.resolved = [mem.resolved EXCEPT ![who] = answer],
         op'.about = {<<who, answer>>}, Owed("chain")',
         UNCHANGED << disk, answered >>
  PROVE  AnswerInv'
<1>1. BookView'.answer = [mem.resolved EXCEPT ![who] = answer]
  BY DEF BookView
<1>2. mem.resolved \in [Ids -> Answers \cup {None}]
  BY MirrorTypes, FieldTypes DEF MemType
<1>3. answer = "approved" => who \in DOMAIN disk.chain /\ disk.chain[who].verdict = "require-approval"
  BY CalmMemory DEF CalmInv, QueueAsked
<1>4. op.about \subseteq answered
  BY CalmMemory DEF AnswerInv
<1> QED BY <1>1, <1>2, <1>3, <1>4, CalmMemory DEF AnswerInv

LEMMA AnswerStep ==
  ASSUME MaxCrashes = 0, MaxFailures = 0, TypeInv, MirrorInv, CalmInv, AnswerInv, [Next]_vars
  PROVE  AnswerInv'
<1>1. ASSUME NEW req \in Requests, NEW now \in Instants, EvaluateUngoverned(req, now)
      PROVE  AnswerInv'
  BY <1>1, NothingAnswered DEF EvaluateUngoverned, Begin, Target, store, history
<1>2. ASSUME NEW req \in Requests, NEW now \in Instants, EvaluateGoverned(req, now)
      PROVE  AnswerInv'
  BY <1>2, NothingAnswered DEF EvaluateGoverned, Begin, Target, store, history
<1>3. ASSUME NEW id \in Ids, NEW who \in Humans, Approve(id, who)
      PROVE  AnswerInv'
  <2>1. Ready /\ id \in mem.pending /\ UNCHANGED << disk, answered >>
    BY <1>3 DEF Approve, Awaited, Begin, store, history
  <2>2. id \in DOMAIN mem.chain
    BY <2>1, CalmMemory DEF CalmInv, QueueAsked
  <2>3. /\ op'.todo = <<"pending", "resolved", "chain", "count">>
        /\ op'.new.resolved = [mem.resolved EXCEPT ![id] = "approved"]
        /\ op'.about = {<<id, "approved">>}
    BY <1>3, <2>2 DEF Approve, Begin, Target
  <2>4. Owed("chain")'
    BY <2>3 DEF Owed
  <2> QED BY <2>1, <2>3, <2>4, OneAnswered
<1>4. ASSUME NEW id \in DOMAIN mem.chain, Reject(id)
      PROVE  AnswerInv'
  <2>1. Ready /\ UNCHANGED << disk, answered >> /\ op'.todo # <<>>
        /\ op'.new.resolved = [mem.resolved EXCEPT ![id] = "rejected"]
        /\ op'.about = {<<id, "rejected">>}
    BY <1>4 DEF Reject, Begin, Target, RejectPlan, store, history
  <2>2. id \in Ids
    BY MirrorTypes, BoundsTyped DEF TypeInv, Lengths, Ids
  <2>3. Owed("chain")'
    <3>1. op'.todo = RejectPlan(id \in mem.pending, mem.charges[id] # None)
      BY <1>4 DEF Reject, Begin
    <3>2. ASSUME NEW a \in BOOLEAN, NEW c \in BOOLEAN, op'.todo = RejectPlan(a, c)
          PROVE  Owed("chain")'
      <4>1. CASE a /\ c
        BY <3>2, <4>1 DEF RejectPlan, Owed
      <4>2. CASE a /\ ~c
        BY <3>2, <4>2 DEF RejectPlan, Owed
      <4>3. CASE ~a /\ c
        BY <3>2, <4>3 DEF RejectPlan, Owed
      <4>4. CASE ~a /\ ~c
        BY <3>2, <4>4 DEF RejectPlan, Owed
      <4> QED BY <4>1, <4>2, <4>3, <4>4
    <3>3. (id \in mem.pending) \in BOOLEAN /\ (mem.charges[id] # None) \in BOOLEAN
      OBVIOUS
    <3> QED BY <3>1, <3>2, <3>3
  <2> QED BY <2>1, <2>2, <2>3, OneAnswered
<1>5. ASSUME NEW g \in NewGrants, NEW issuer \in Issuers, IssueGrant(g, issuer)
      PROVE  AnswerInv'
  BY <1>5, NothingAnswered DEF IssueGrant, Begin, Target, GrantPlan, store, history
<1>6. ASSUME NEW gid \in GrantIds, NEW who \in Humans, RevokeGrant(gid, who)
      PROVE  AnswerInv'
  BY <1>6, NothingAnswered DEF RevokeGrant, Begin, Target, GrantPlan, store, history
<1>7. CASE WriteSet \/ WriteCount
  <2>1. PICK f : Writing(f) /\ f # "chain" /\ Done(f) /\ disk'.chain = disk.chain
    <3>1. ASSUME NEW f \in Files \ {"chain"}, disk' = [disk EXCEPT ![f] = op.new[f]]
          PROVE  disk'.chain = disk.chain
      BY <3>1, MirrorTypes DEF DiskType, StoreType, Files
    <3> QED BY <1>7, <3>1 DEF WriteSet, WriteCount
  <2>2. Owed("chain")' = Owed("chain")
    BY <2>1, DoneOwed DEF Owed
  <2>3. op'.about = op.about /\ UNCHANGED answered
    BY <1>7, <2>1, MirrorTypes DEF Done, OpType, WriteSet, WriteCount, history
  <2>4. UNCHANGED BookView
    BY <1>7, WriteKeepsBook
  <2> QED BY <2>1, <2>2, <2>3, <2>4 DEF AnswerInv
<1>8. CASE WriteRecord
  <2>1. op'.about = op.about /\ answered' = answered \cup op.about
    BY <1>8, MirrorTypes DEF WriteRecord, LogGains, Done, OpType
  <2>2. UNCHANGED BookView
    BY <1>8, WriteKeepsBook
  <2>3. disk'.chain = Append(disk.chain, Last(op.new.chain))
    BY <1>8, MirrorTypes DEF WriteRecord, LogGains, Appended, CalmInv, DiskType, StoreType
  <2>4. \A id \in DOMAIN disk.chain : id \in DOMAIN disk'.chain /\ disk'.chain[id] = disk.chain[id]
    BY <2>3, MirrorTypes
  <2> QED BY <2>1, <2>2, <2>4 DEF AnswerInv
<1>9. CASE SetActiveTenant \/ Restart
  <2>1. UNCHANGED << op, disk, answered, BookView >>
    BY <1>9 DEF SetActiveTenant, Restart, BookView, history
  <2> QED BY <2>1 DEF AnswerInv, Owed
<1>10. CASE Exit
  <2>1. op.todo = <<>> /\ op'.todo = <<>> /\ op'.about = {} /\ UNCHANGED << disk, answered >>
    BY <1>10 DEF Exit, Free, Ends, NoOp, store, history
  <2>2. UNCHANGED BookView /\ ~Owed("chain")
    BY <2>1 DEF BookView, Owed
  <2> QED BY <2>1, <2>2 DEF AnswerInv
<1>11. CASE UNCHANGED vars
  <2>1. UNCHANGED << op, disk, answered, BookView >>
    BY <1>11 DEF vars, store, history, BookView
  <2> QED BY <2>1 DEF AnswerInv, Owed
<1>12. ~WriteFails /\ ~Crash
  BY DEF WriteFails, Crash, CalmInv
<1> QED BY <1>1, <1>2, <1>3, <1>4, <1>5, <1>6, <1>7, <1>8, <1>9, <1>10, <1>11, <1>12 DEF Next

LEMMA InitAnswer == Init => AnswerInv
<1> SUFFICES ASSUME Init PROVE AnswerInv
  OBVIOUS
<1>1. BookView.answer = [id \in Ids |-> None] /\ op.about = {} /\ answered = {}
  BY DEF Init, BookView, NoOp, Empty
<1> QED BY <1>1 DEF AnswerInv

LEMMA AnswersKept ==
  ASSUME MaxCrashes = 0, MaxFailures = 0
  PROVE  Spec => [](TypeInv /\ MirrorInv /\ CalmInv /\ AnswerInv)
<1>1. Init => TypeInv /\ MirrorInv /\ CalmInv /\ AnswerInv
  BY InitType, InitMirror, InitBook, InitAnswer
<1>2. TypeInv /\ MirrorInv /\ CalmInv /\ AnswerInv /\ [Next]_vars =>
        (TypeInv /\ MirrorInv /\ CalmInv /\ AnswerInv)'
  BY TypeStep, MirrorStep, BookStep, AnswerStep
<1> QED BY <1>1, <1>2, PTL DEF Spec

\* Where nothing fails, an agent that asks about its decision is told of an
\* answer only if that very answer to that decision is on record.
THEOREM AgentsAreToldTheTruth ==
  ASSUME MaxCrashes = 0, MaxFailures = 0
  PROVE  Spec => []StatusHonest
<1>1. TypeInv /\ MirrorInv /\ CalmInv /\ AnswerInv => StatusHonest
  <2> SUFFICES ASSUME TypeInv, MirrorInv, CalmInv, AnswerInv, Ready, NEW id \in Ids,
                      DecisionStatus(id) \in Answers
               PROVE  <<id, DecisionStatus(id)>> \in answered
    BY DEF StatusHonest
  <2>1. mem.resolved[id] # None /\ DecisionStatus(id) = mem.resolved[id]
    BY DEF DecisionStatus, Answers
  <2> QED BY <2>1, CalmMemory DEF AnswerInv
<1> QED BY <1>1, AnswersKept, PTL

\* Where nothing fails, what a human approved was an escalation on record.
THEOREM OnlyEscalationsApproved ==
  ASSUME MaxCrashes = 0, MaxFailures = 0
  PROVE  Spec => []ApprovedWasAsked
<1>1. AnswerInv => ApprovedWasAsked
  BY DEF AnswerInv, ApprovedWasAsked
<1> QED BY <1>1, AnswersKept, PTL
-----------------------------------------------------------------------------
(* The books: what a grant has consumed and what its decisions charged.    *)

Countable(parts, n) == \A k \in 1..n : parts[k] \in Nat

\* A list of the sums of the first parts, as the definition of Total has it, and
\* place by place.
Partial(parts, n, sum) ==
  sum = [k \in 0..n |-> IF k = 0 THEN 0 ELSE sum[k - 1] + parts[k]]
Sums(parts, n, sum) ==
  sum[0] = 0 /\ \A k \in 1..n : sum[k] \in Nat /\ sum[k] = sum[k - 1] + parts[k]

LEMMA PartialExists ==
  ASSUME NEW n \in Nat, NEW parts
  PROVE  \E sum : Partial(parts, n, sum)
<1> DEFINE Without == { m \in Nat : m <= n /\ ~\E sum : Partial(parts, m, sum) }
<1> SUFFICES ASSUME Without # {} PROVE FALSE
  OBVIOUS
<1>0. Without \subseteq Nat
  OBVIOUS
<1>1. PICK m \in Without : \A k \in Without : m <= k
  <2> HIDE DEF Without
  <2> QED
    BY <1>0, LeastNumber
<1>2. m # 0
  <2>1. Partial(parts, 0, [k \in 0..0 |-> 0])
    BY DEF Partial
  <2> QED
    BY <1>1, <2>1
<1>3. m - 1 \in Nat /\ m - 1 <= n /\ m - 1 \notin Without
  BY <1>1, <1>2
<1>4. PICK sum : Partial(parts, m - 1, sum)
  BY <1>3
<1>5. Partial(parts, m, [k \in 0..m |-> IF k = m THEN sum[m - 1] + parts[m] ELSE sum[k]])
  BY <1>1, <1>2, <1>4 DEF Partial
<1> QED
  BY <1>1, <1>5

LEMMA TotalSums ==
  ASSUME NEW n \in Nat, NEW parts, Countable(parts, n)
  PROVE  \E sum : Sums(parts, n, sum) /\ Total(parts, n) = sum[n] /\ sum[n] \in Nat
<1>1. PICK sum : Partial(parts, n, sum) /\ Total(parts, n) = sum[n]
  <2>1. Total(parts, n) = (CHOOSE sum : Partial(parts, n, sum))[n]
    BY DEF Total, Partial
  <2> QED
    BY <2>1, PartialExists
<1>2. sum[0] = 0 /\ \A k \in 1..n : sum[k] = sum[k - 1] + parts[k]
  BY <1>1 DEF Partial
<1> DEFINE Odd == { m \in Nat : m <= n /\ sum[m] \notin Nat }
<1>3. Odd = {}
  <2> SUFFICES ASSUME Odd # {} PROVE FALSE
    OBVIOUS
  <2>0. Odd \subseteq Nat
    OBVIOUS
  <2>1. PICK m \in Odd : \A k \in Odd : m <= k
    <3> HIDE DEF Odd
    <3> QED
      BY <2>0, LeastNumber
  <2>2. m # 0
    BY <1>2, <2>1
  <2>3. sum[m - 1] \in Nat /\ m \in 1..n
    BY <2>1, <2>2
  <2>4. parts[m] \in Nat /\ sum[m] = sum[m - 1] + parts[m]
    BY <1>2, <2>3 DEF Countable
  <2> QED
    BY <2>1, <2>3, <2>4
<1>4. \A k \in 0..n : sum[k] \in Nat
  BY <1>3
<1> QED
  BY <1>1, <1>2, <1>4 DEF Sums

\* Sums of parts that differ in one place at most differ by as much from there on.
LEMMA SumsDiffer ==
  ASSUME NEW n \in Nat, NEW p, NEW q, Countable(p, n), Countable(q, n),
         NEW f, NEW g, Sums(p, n, f), Sums(q, n, g),
         NEW place \in Nat, \A k \in 1..n : k # place => p[k] = q[k],
         NEW m \in 0..n
  PROVE  IF 1 <= place /\ place <= m THEN f[m] + q[place] = g[m] + p[place] ELSE f[m] = g[m]
<1> DEFINE Fits(k) == IF 1 <= place /\ place <= k
                      THEN f[k] + q[place] = g[k] + p[place] ELSE f[k] = g[k]
           Odd == { k \in Nat : k <= n /\ ~Fits(k) }
<1> SUFFICES ASSUME Odd # {} PROVE FALSE
  OBVIOUS
<1>0. Odd \subseteq Nat
  OBVIOUS
<1>1. PICK k \in Odd : \A j \in Odd : k <= j
  <2> HIDE DEF Odd
  <2> QED
    BY <1>0, LeastNumber
<1>2. k # 0
  BY <1>1 DEF Sums
<1>3. k \in 1..n /\ k - 1 \in Nat /\ k - 1 <= n /\ k - 1 \notin Odd
  BY <1>1, <1>2
<1>4. Fits(k - 1)
  BY <1>3
<1>5. /\ f[k] \in Nat /\ f[k] = f[k - 1] + p[k]
      /\ g[k] \in Nat /\ g[k] = g[k - 1] + q[k]
      /\ p[k] \in Nat /\ q[k] \in Nat
  BY <1>3 DEF Sums, Countable
<1>6. f[k - 1] \in Nat /\ g[k - 1] \in Nat
  <2>1. CASE k = 1
    BY <2>1 DEF Sums
  <2>2. CASE k # 1
    <3>1. k - 1 \in 1..n
      BY <1>3, <2>2
    <3> QED
      BY <3>1 DEF Sums
  <2> QED
    BY <2>1, <2>2
<1>7. Fits(k)
  <2>1. CASE place = k
    BY <1>3, <1>4, <1>5, <1>6, <2>1
  <2>2. CASE place # k /\ 1 <= place /\ place <= k
    <3>1. p[place] \in Nat /\ q[place] \in Nat /\ p[k] = q[k] /\ place <= k - 1
      BY <1>3, <2>2 DEF Countable
    <3>2. f[k - 1] + q[place] = g[k - 1] + p[place]
      BY <1>4, <2>2, <3>1
    <3> QED
      BY <1>5, <1>6, <2>2, <3>1, <3>2
  <2>3. CASE ~(1 <= place /\ place <= k)
    <3>1. p[k] = q[k] /\ f[k - 1] = g[k - 1]
      BY <1>3, <1>4, <2>3
    <3> QED
      BY <1>5, <2>3, <3>1
  <2> QED
    BY <1>3, <2>1, <2>2, <2>3
<1> QED
  BY <1>1, <1>7

\* A part that is another one, and no parts at all.
LEMMA TotalChanges ==
  ASSUME NEW n \in Nat, NEW p, NEW q, Countable(p, n), Countable(q, n),
         NEW place \in 1..n, \A k \in 1..n : k # place => p[k] = q[k]
  PROVE  Total(p, n) + q[place] = Total(q, n) + p[place]
<1>1. PICK f : Sums(p, n, f) /\ Total(p, n) = f[n]
  BY TotalSums
<1>2. PICK g : Sums(q, n, g) /\ Total(q, n) = g[n]
  BY TotalSums
<1>3. place \in Nat /\ 1 <= place /\ place <= n /\ n \in 0..n
  OBVIOUS
<1> QED
  BY <1>1, <1>2, <1>3, SumsDiffer

LEMMA TotalOfNothing ==
  ASSUME NEW n \in Nat, NEW p, \A k \in 1..n : p[k] = 0
  PROVE  Total(p, n) = 0
<1>1. Countable(p, n)
  BY DEF Countable
<1>2. PICK f : Sums(p, n, f) /\ Total(p, n) = f[n]
  BY <1>1, TotalSums
<1> DEFINE Odd == { k \in Nat : k <= n /\ f[k] # 0 }
<1>3. Odd = {}
  <2> SUFFICES ASSUME Odd # {} PROVE FALSE
    OBVIOUS
  <2>0. Odd \subseteq Nat
    OBVIOUS
  <2>1. PICK k \in Odd : \A j \in Odd : k <= j
    <3> HIDE DEF Odd
    <3> QED
      BY <2>0, LeastNumber
  <2>2. k # 0
    BY <1>2, <2>1 DEF Sums
  <2>3. k \in 1..n /\ k - 1 \in Nat /\ k - 1 <= n /\ k - 1 \notin Odd
    BY <2>1, <2>2
  <2>4. f[k] = f[k - 1] + p[k] /\ p[k] = 0 /\ f[k - 1] = 0
    BY <1>2, <2>3 DEF Sums
  <2> QED
    BY <2>1, <2>4
<1> QED
  BY <1>2, <1>3

\* What a charge adds to what a grant owes.
Units(c, gid) == IF c # None /\ c.grant = gid THEN c.units ELSE 0
Charges == [Ids -> Charge \cup {None}]

LEMMA UnitsAreNat ==
  ASSUME NEW c \in Charge \cup {None}, NEW gid PROVE Units(c, gid) \in Nat
BY DEF Units, Charge

LEMMA OutstandingIsNat ==
  ASSUME NEW charges \in Charges, NEW gid
  PROVE  /\ Outstanding(charges, gid) \in Nat
         /\ Outstanding(charges, gid) = Total([n \in Ids |-> Units(charges[n], gid)], MaxChain)
<1> DEFINE parts == [n \in Ids |-> Units(charges[n], gid)]
<1>1. Outstanding(charges, gid) = Total(parts, MaxChain)
  BY DEF Outstanding, Units
<1>2. Countable(parts, MaxChain)
  BY UnitsAreNat DEF Countable, Ids, Charges
<1> HIDE DEF parts
<1>3. Total(parts, MaxChain) \in Nat
  BY <1>2, TotalSums, BoundsTyped
<1> QED
  BY <1>1, <1>3 DEF parts

\* One charge is put in the place of another, or of none.
Replaced(next, charges, id, c) == next = [charges EXCEPT ![id] = c]

LEMMA OutstandingChanges ==
  ASSUME NEW charges \in Charges, NEW id \in Ids, NEW c \in Charge \cup {None}, NEW gid,
         NEW next, Replaced(next, charges, id, c)
  PROVE  /\ next \in Charges
         /\ Outstanding(next, gid) + Units(charges[id], gid)
              = Outstanding(charges, gid) + Units(c, gid)
<1> DEFINE p == [n \in Ids |-> Units(next[n], gid)]
           q == [n \in Ids |-> Units(charges[n], gid)]
<1>1. /\ next \in Charges /\ next[id] = c
      /\ \A k \in Ids : k # id => next[k] = charges[k]
  BY DEF Charges, Replaced
<1>2. Countable(p, MaxChain) /\ Countable(q, MaxChain)
  BY <1>1, UnitsAreNat DEF Countable, Ids, Charges
<1>3. \A k \in 1..MaxChain : k # id => p[k] = q[k]
  BY <1>1 DEF Ids
<1>4. p[id] = Units(c, gid) /\ q[id] = Units(charges[id], gid) /\ id \in 1..MaxChain
  BY <1>1 DEF Ids
<1>5. Outstanding(next, gid) = Total(p, MaxChain) /\ Outstanding(charges, gid) = Total(q, MaxChain)
  BY <1>1, OutstandingIsNat
<1> HIDE DEF p, q
<1>6. Total(p, MaxChain) + q[id] = Total(q, MaxChain) + p[id]
  BY <1>2, <1>3, <1>4, TotalChanges, BoundsTyped
<1> QED
  BY <1>1, <1>4, <1>5, <1>6

\* A charge is part of what its grant owes, and a grant nothing was charged to owes nothing.
LEMMA OutstandingCovers ==
  ASSUME NEW charges \in Charges, NEW id \in Ids, NEW gid
  PROVE  Units(charges[id], gid) <= Outstanding(charges, gid)
<1>1. PICK without : Replaced(without, charges, id, None)
  BY DEF Replaced
<1>2. None \in Charge \cup {None}
  OBVIOUS
<1>3. without \in Charges /\ Outstanding(without, gid) + Units(charges[id], gid)
                              = Outstanding(charges, gid) + Units(None, gid)
  BY <1>1, <1>2, OutstandingChanges
<1>4. Units(None, gid) = 0
  BY DEF Units
<1>5. charges[id] \in Charge \cup {None}
  BY DEF Charges
<1>6. /\ Outstanding(without, gid) \in Nat /\ Outstanding(charges, gid) \in Nat
      /\ Units(charges[id], gid) \in Nat
  BY <1>3, <1>5, OutstandingIsNat, UnitsAreNat
<1> QED
  BY <1>3, <1>4, <1>6

LEMMA NothingOutstanding ==
  ASSUME NEW charges \in Charges, NEW gid,
         \A id \in Ids : charges[id] # None => charges[id].grant # gid
  PROVE  Outstanding(charges, gid) = 0
<1> DEFINE parts == [n \in Ids |-> Units(charges[n], gid)]
<1>1. \A k \in 1..MaxChain : parts[k] = 0
  BY DEF Units, Ids
<1>2. Outstanding(charges, gid) = Total(parts, MaxChain)
  BY OutstandingIsNat
<1> HIDE DEF parts
<1> QED
  BY <1>1, <1>2, TotalOfNothing, BoundsTyped

\* Grants have names of their own; each has consumed what is outstanding under it;
\* and what is outstanding was charged to a grant of that agent, for a decision
\* among the first n.
Balanced(grants, charges, n) ==
  /\ \A i, j \in DOMAIN grants : grants[i].id = grants[j].id => i = j
  /\ \A i \in DOMAIN grants : grants[i].consumed = Outstanding(charges, grants[i].id)
  /\ \A id \in Ids : charges[id] # None =>
       /\ id <= n
       /\ \E i \in DOMAIN grants :
            grants[i].id = charges[id].grant /\ grants[i].agent = charges[id].agent

\* The files as the operation in progress will leave them.
BalanceInv ==
  LET files == IF op.todo # <<>> THEN op.new ELSE disk
  IN  Balanced(files.grants, files.charges, Len(files.chain))

LEMMA BalancedLonger ==
  ASSUME NEW grants, NEW charges, NEW m \in Nat, NEW n \in Nat, m <= n, Balanced(grants, charges, m)
  PROVE  Balanced(grants, charges, n)
BY DEF Balanced, Ids

\* A decision charges the grant it was taken under.
LEMMA BalancedCharge ==
  ASSUME NEW grants \in Seq(Grant), NEW charges \in Charges, NEW m \in Nat, NEW place \in Ids, place = m + 1,
         Balanced(grants, charges, m), NEW i \in DOMAIN grants, NEW units \in Nat,
         NEW c \in Charge, c.agent = grants[i].agent, c.grant = grants[i].id, c.units = units,
         NEW spent, spent = [grants EXCEPT ![i] = Consume(grants[i], units)],
         NEW next, Replaced(next, charges, place, c)
  PROVE  Balanced(spent, next, place)
<1>1. \A k \in DOMAIN grants : grants[k] \in Grant
  OBVIOUS
<1>2. /\ DOMAIN spent = DOMAIN grants
      /\ \A k \in DOMAIN grants :
           /\ spent[k].id = grants[k].id /\ spent[k].agent = grants[k].agent
           /\ spent[k].consumed = IF k = i THEN grants[k].consumed + units ELSE grants[k].consumed
  BY <1>1 DEF Consume, Grant
<1>3. /\ next \in Charges /\ next[place] = c
      /\ \A id \in Ids : id # place => next[id] = charges[id]
  BY DEF Charges, Replaced
<1>4. charges[place] = None
  BY DEF Balanced
<1>5. ASSUME NEW k \in DOMAIN grants PROVE spent[k].consumed = Outstanding(next, spent[k].id)
  <2>1. PICK gid : gid = grants[k].id
    OBVIOUS
  <2>2. c \in Charge \cup {None}
    OBVIOUS
  <2>3. Outstanding(next, gid) + Units(charges[place], gid) = Outstanding(charges, gid) + Units(c, gid)
    BY <2>2, OutstandingChanges
  <2>4. Units(charges[place], gid) = 0
    BY <1>4 DEF Units
  <2>5. c # None
    BY NamesDistinct
  <2>6. Units(c, gid) = IF k = i THEN units ELSE 0
    BY <2>1, <2>5 DEF Units, Balanced
  <2>7. Outstanding(next, gid) \in Nat /\ Outstanding(charges, gid) \in Nat
    BY <1>3, OutstandingIsNat
  <2>8. grants[k].consumed = Outstanding(charges, gid)
    BY <2>1 DEF Balanced
  <2> QED
    BY <1>2, <2>1, <2>3, <2>4, <2>6, <2>7, <2>8
<1>6. ASSUME NEW id \in Ids, next[id] # None
      PROVE  /\ id <= place
             /\ \E k \in DOMAIN spent :
                  spent[k].id = next[id].grant /\ spent[k].agent = next[id].agent
  <2>1. CASE id = place
    BY <1>2, <1>3, <2>1
  <2>2. CASE id # place
    <3>1. charges[id] # None /\ next[id] = charges[id]
      BY <1>3, <1>6, <2>2
    <3>2. id <= m /\ id \in Nat
      BY <3>1 DEF Balanced, Ids
    <3> QED
      BY <1>2, <3>1, <3>2 DEF Balanced
  <2> QED
    BY <2>1, <2>2
<1>7. \A k, j \in DOMAIN spent : spent[k].id = spent[j].id => k = j
  BY <1>2 DEF Balanced
<1> HIDE DEF Units
<1> QED
  BY <1>2, <1>5, <1>6, <1>7 DEF Balanced

\* A refused decision gives back what it charged.
LEMMA BalancedRefund ==
  ASSUME NEW grants \in Seq(Grant), NEW charges \in Charges, NEW n \in Nat,
         Balanced(grants, charges, n), NEW id \in Ids, NEW c \in Charge, charges[id] = c,
         NEW back, back = Refunded(grants, c),
         NEW next, Replaced(next, charges, id, None)
  PROVE  Balanced(back, next, n)
<1>1. \A k \in DOMAIN grants : grants[k] \in Grant
  OBVIOUS
<1>2. c # None
  BY NamesDistinct
<1>3. /\ DOMAIN back = DOMAIN grants
      /\ \A k \in DOMAIN grants :
           /\ back[k].id = grants[k].id /\ back[k].agent = grants[k].agent
           /\ back[k].consumed = IF grants[k].id = c.grant /\ grants[k].agent = c.agent
                                 THEN Monus(grants[k].consumed, c.units) ELSE grants[k].consumed
  BY <1>1 DEF Refunded, Refund, Grant
<1>4. next \in Charges /\ next[id] = None /\ \A d \in Ids : d # id => next[d] = charges[d]
  BY DEF Charges, Replaced
<1>5. PICK i \in DOMAIN grants : grants[i].id = c.grant /\ grants[i].agent = c.agent
  BY <1>2 DEF Balanced
<1>6. ASSUME NEW k \in DOMAIN grants PROVE back[k].consumed = Outstanding(next, back[k].id)
  <2>1. PICK gid : gid = grants[k].id
    OBVIOUS
  <2>2. None \in Charge \cup {None}
    OBVIOUS
  <2>3. Outstanding(next, gid) + Units(c, gid) = Outstanding(charges, gid) + Units(None, gid)
    BY <2>2, OutstandingChanges
  <2>4. Units(None, gid) = 0
    BY DEF Units
  <2>5. Units(c, gid) = IF gid = c.grant THEN c.units ELSE 0
    BY <1>2 DEF Units
  <2>6. Outstanding(next, gid) \in Nat /\ Outstanding(charges, gid) \in Nat /\ c.units \in Nat
    BY <1>4, OutstandingIsNat DEF Charge
  <2>7. grants[k].consumed = Outstanding(charges, gid)
    BY <2>1 DEF Balanced
  <2>8. gid = c.grant => k = i
    BY <1>5, <2>1 DEF Balanced
  <2>9. CASE gid = c.grant
    <3>1. grants[k].id = c.grant /\ grants[k].agent = c.agent
      BY <1>5, <2>1, <2>8, <2>9
    <3>2. back[k].consumed = Monus(grants[k].consumed, c.units)
      BY <1>3, <3>1
    <3>3. Outstanding(next, gid) + c.units = Outstanding(charges, gid)
      BY <2>3, <2>4, <2>5, <2>6, <2>9
    <3>4. Monus(Outstanding(charges, gid), c.units) = Outstanding(next, gid)
      BY <2>6, <3>3 DEF Monus
    <3> QED
      BY <1>3, <2>1, <2>7, <3>2, <3>4
  <2>10. CASE gid # c.grant
    <3>1. back[k].consumed = grants[k].consumed
      BY <1>3, <2>1, <2>10
    <3>2. Outstanding(next, gid) = Outstanding(charges, gid)
      BY <2>3, <2>4, <2>5, <2>6, <2>10
    <3> QED
      BY <1>3, <2>1, <2>7, <3>1, <3>2
  <2> QED
    BY <2>9, <2>10
<1>7. ASSUME NEW d \in Ids, next[d] # None
      PROVE  /\ d <= n
             /\ \E k \in DOMAIN back :
                  back[k].id = next[d].grant /\ back[k].agent = next[d].agent
  <2>1. charges[d] # None /\ next[d] = charges[d]
    BY <1>4, <1>7
  <2> QED
    BY <1>3, <2>1 DEF Balanced
<1>8. \A k, j \in DOMAIN back : back[k].id = back[j].id => k = j
  BY <1>3 DEF Balanced
<1> QED
  BY <1>3, <1>6, <1>7, <1>8 DEF Balanced

\* A new grant under a name of its own owes nothing.
LEMMA BalancedGrant ==
  ASSUME NEW grants \in Seq(Grant), NEW charges \in Charges, NEW n \in Nat,
         Balanced(grants, charges, n), NEW g \in Grant, g.consumed = 0,
         \A i \in DOMAIN grants : grants[i].id # g.id,
         NEW more, more = Append(grants, g)
  PROVE  Balanced(more, charges, n)
<1>1. PICK last \in Nat : last = Len(grants) + 1
  OBVIOUS
<1>2. /\ DOMAIN more = DOMAIN grants \cup {last} /\ last \notin DOMAIN grants
      /\ more[last] = g /\ \A k \in DOMAIN grants : more[k] = grants[k]
  BY <1>1, AppendProperties
<1>3. \A id \in Ids : charges[id] # None => charges[id].grant # g.id
  BY DEF Balanced
<1>4. PICK gid : gid = g.id
  OBVIOUS
<1>5. Outstanding(charges, gid) = 0
  BY <1>3, <1>4, NothingOutstanding
<1>6. \A k \in DOMAIN more : more[k].consumed = Outstanding(charges, more[k].id)
  <2> SUFFICES ASSUME NEW k \in DOMAIN more
               PROVE  more[k].consumed = Outstanding(charges, more[k].id)
    OBVIOUS
  <2>1. CASE k = last
    BY <1>2, <1>4, <1>5, <2>1
  <2>2. CASE k \in DOMAIN grants
    BY <1>2, <2>2 DEF Balanced
  <2> QED
    BY <1>2, <2>1, <2>2
<1>7. \A k, j \in DOMAIN more : more[k].id = more[j].id => k = j
  BY <1>2 DEF Balanced
<1>8. \A id \in Ids : charges[id] # None =>
        /\ id <= n
        /\ \E i \in DOMAIN more : more[i].id = charges[id].grant /\ more[i].agent = charges[id].agent
  BY <1>2 DEF Balanced
<1> QED
  BY <1>6, <1>7, <1>8 DEF Balanced

\* Revoking a grant leaves its books alone.
LEMMA BalancedRevoke ==
  ASSUME NEW grants \in Seq(Grant), NEW charges \in Charges, NEW n \in Nat,
         Balanced(grants, charges, n), NEW gid, NEW after, after = Revoked(grants, gid)
  PROVE  Balanced(after, charges, n)
<1>1. \A k \in DOMAIN grants : grants[k] \in Grant
  OBVIOUS
<1>2. /\ DOMAIN after = DOMAIN grants
      /\ \A k \in DOMAIN grants :
           /\ after[k].id = grants[k].id /\ after[k].agent = grants[k].agent
           /\ after[k].consumed = grants[k].consumed
  BY <1>1 DEF Revoked, Revoke, Grant
<1>3. \A k \in DOMAIN after : after[k].consumed = Outstanding(charges, after[k].id)
  BY <1>2 DEF Balanced
<1> QED
  BY <1>2, <1>3 DEF Balanced

\* Before an operation the books in memory are those on file.
LEMMA BalancedMemory ==
  ASSUME TypeInv, MirrorInv, CalmInv, BalanceInv, Ready
  PROVE  /\ Balanced(mem.grants, mem.charges, Len(mem.chain))
         /\ mem.grants \in Seq(Grant) /\ mem.charges \in Charges
         /\ mem.chain \in Seq(Record) /\ Len(mem.chain) \in Nat
<1>1. op.todo = <<>> /\ Serving /\ \A x : ~Owed(x)
  BY DEF Ready, Free, Serving, CalmInv, Owed
<1>2. mem.chain = disk.chain /\ mem.grants = disk.grants /\ mem.charges = disk.charges
  BY <1>1 DEF MirrorInv, Kept, CalmInv, Files
<1>3. Balanced(disk.grants, disk.charges, Len(disk.chain))
  BY <1>1 DEF BalanceInv
<1>4. mem \in MemType /\ mem.chain \in Seq(Record)
  BY MirrorTypes
<1> QED
  BY <1>2, <1>3, <1>4, FieldTypes DEF MemType, Charges

\* An operation that starts leaves its plan's books balanced.
LEMMA BalanceBegins ==
  ASSUME op'.todo # <<>>, NEW grants, NEW charges, NEW chain,
         op'.new.grants = grants, op'.new.charges = charges, op'.new.chain = chain,
         Balanced(grants, charges, Len(chain))
  PROVE  BalanceInv'
BY DEF BalanceInv

\* One that neither charges nor refunds anything.
LEMMA BalanceLonger ==
  ASSUME TypeInv, MirrorInv, CalmInv, BalanceInv, Ready, op'.todo # <<>>,
         op'.new.grants = mem.grants, op'.new.charges = mem.charges,
         NEW r \in Record, op'.new.chain \in {mem.chain, Append(mem.chain, r)}
  PROVE  BalanceInv'
<1>1. /\ Balanced(mem.grants, mem.charges, Len(mem.chain))
      /\ mem.chain \in Seq(Record) /\ Len(mem.chain) \in Nat
  BY BalancedMemory
<1>2. PICK chain : chain = op'.new.chain
  OBVIOUS
<1>3. PICK m \in Nat : m = Len(mem.chain)
  BY <1>1
<1>4. PICK n \in Nat : n = Len(chain) /\ m <= n
  BY <1>1, <1>2, <1>3
<1>5. PICK grants, charges : grants = mem.grants /\ charges = mem.charges
  OBVIOUS
<1>6. Balanced(grants, charges, n)
  <2>1. Balanced(grants, charges, m)
    BY <1>1, <1>3, <1>5
  <2> QED
    BY <1>4, <2>1, BalancedLonger
<1> QED
  BY <1>2, <1>4, <1>5, <1>6, BalanceBegins

LEMMA UngovernedBalances ==
  ASSUME TypeInv, MirrorInv, CalmInv, BalanceInv, NEW req \in Requests, NEW now \in Instants,
         EvaluateUngoverned(req, now)
  PROVE  BalanceInv'
<1> DEFINE rec == DecisionRecord(req, None, None, "ungoverned", "ungoverned")
<1>1. rec \in Record
  BY DecisionRecordType, InputsTyped DEF Verdicts, HicLevels
<1>2. /\ Ready /\ op'.todo # <<>> /\ op'.new.grants = mem.grants
      /\ op'.new.charges = mem.charges /\ op'.new.chain = Append(mem.chain, rec)
  BY DEF EvaluateUngoverned, Begin, Target
<1> HIDE DEF rec
<1> QED
  BY <1>1, <1>2, BalanceLonger

LEMMA GovernedBalances ==
  ASSUME TypeInv, MirrorInv, CalmInv, BalanceInv, NEW req \in Requests, NEW now \in Instants,
         EvaluateGoverned(req, now)
  PROVE  BalanceInv'
<1>1. PICK i \in FirstCovering(mem.grants, req.agent, Asked(req), now) :
        EvaluateGoverned(req, now)!(i)
  BY DEF EvaluateGoverned
<1> DEFINE g       == mem.grants[i]
           cost    == Asked(req).cost
           verdict == VerdictUnder(g, Asked(req), Permits(Controlled, Allow, req.label, req.model, Unnamed))
           rec     == DecisionRecord(req, g.principal, g.id, verdict, HicUnder(g, verdict))
           asks    == verdict = "require-approval"
           c       == [agent |-> req.agent, grant |-> g.id, units |-> cost]
<1>2. PICK chain : chain = Append(mem.chain, rec)
  OBVIOUS
<1>3. Ready /\ CanRecord
  BY <1>1
<1>4. /\ Balanced(mem.grants, mem.charges, Len(mem.chain))
      /\ mem.grants \in Seq(Grant) /\ mem.charges \in Charges
      /\ mem.chain \in Seq(Record) /\ Len(mem.chain) \in Nat
  BY <1>3, BalancedMemory
<1>5. i \in DOMAIN mem.grants /\ g \in Grant /\ g.agent = req.agent
  BY <1>1, <1>4 DEF FirstCovering
<1>6. cost \in Nat /\ c \in Charge
  <2>1. req \in Request /\ cost \in Nat
    BY InputsTyped, AskedType
  <2>2. req.agent \in Agents /\ g.id \in GrantIds
    BY <1>5, <2>1 DEF Request, Grant
  <2> HIDE DEF g, cost
  <2> QED
    BY <2>1, <2>2 DEF Charge
<1>7. PICK spent : spent = [mem.grants EXCEPT ![i] = Consume(g, cost)]
  OBVIOUS
<1>8. PICK place \in Ids : place = Len(mem.chain) + 1
  BY <1>3, <1>4, BoundsTyped DEF CanRecord, Ids
<1>9. Len(chain) = place
  <2> HIDE DEF rec
  <2> QED
    BY <1>2, <1>4, <1>8
<1>10. PICK next : next = [mem.charges EXCEPT ![place] = c]
  OBVIOUS
<1>11. /\ op'.todo # <<>> /\ op'.new.chain = chain /\ op'.new.grants = spent
       /\ op'.new.charges = next
  BY <1>1, <1>2, <1>7, <1>9, <1>10 DEF Begin, Target
<1>12. Balanced(spent, next, place)
  <2>1. PICK m \in Nat : m = Len(mem.chain)
    BY <1>4
  <2>2. Balanced(mem.grants, mem.charges, m)
    BY <1>4, <2>1
  <2>3. place = m + 1
    BY <1>8, <2>1
  <2>4. Replaced(next, mem.charges, place, c)
    BY <1>10 DEF Replaced
  <2>5. c.agent = g.agent /\ c.grant = g.id /\ c.units = cost
    BY <1>5
  <2>6. PICK grants, charges : grants = mem.grants /\ charges = mem.charges
    OBVIOUS
  <2>7. /\ grants \in Seq(Grant) /\ charges \in Charges /\ i \in DOMAIN grants
        /\ Balanced(grants, charges, m) /\ Replaced(next, charges, place, c)
        /\ spent = [grants EXCEPT ![i] = Consume(grants[i], cost)]
        /\ c.agent = grants[i].agent /\ c.grant = grants[i].id
    BY <1>4, <1>5, <1>7, <2>2, <2>4, <2>5, <2>6
  <2> HIDE DEF c, cost, g
  <2> QED
    BY <1>6, <2>3, <2>5, <2>7, BalancedCharge
<1> QED
  BY <1>9, <1>11, <1>12, BalanceBegins

LEMMA ApproveBalances ==
  ASSUME TypeInv, MirrorInv, CalmInv, BalanceInv, NEW id \in Ids, NEW who \in Humans,
         Approve(id, who)
  PROVE  BalanceInv'
<1> DEFINE rec == AnswerRecord(id, who, "approved")
<1>1. id \in mem.pending /\ Ready
  BY DEF Approve, Awaited
<1>2. id \in DOMAIN mem.chain
  BY <1>1, CalmMemory DEF CalmInv, QueueAsked
<1>3. rec \in Record
  BY <1>2, MirrorTypes, AnswerRecordType DEF Verdicts
<1>4. /\ Ready /\ op'.todo # <<>> /\ op'.new.grants = mem.grants
      /\ op'.new.charges = mem.charges /\ op'.new.chain = Append(mem.chain, rec)
  BY <1>2 DEF Approve, Begin, Target
<1> HIDE DEF rec
<1> QED
  BY <1>3, <1>4, BalanceLonger

LEMMA RejectBalances ==
  ASSUME TypeInv, MirrorInv, CalmInv, BalanceInv, NEW id \in DOMAIN mem.chain, Reject(id)
  PROVE  BalanceInv'
<1> DEFINE rec == AnswerRecord(id, mem.chain[id].principal, "rejected")
<1>1. Ready /\ op'.todo # <<>>
  BY DEF Reject, Begin, RejectPlan
<1>2. /\ Balanced(mem.grants, mem.charges, Len(mem.chain))
      /\ mem.grants \in Seq(Grant) /\ mem.charges \in Charges
      /\ mem.chain \in Seq(Record) /\ Len(mem.chain) \in Nat
  BY <1>1, BalancedMemory
<1>3. id \in Ids
  BY MirrorTypes, BoundsTyped DEF TypeInv, Lengths, Ids
<1>4. rec \in Record
  <2>1. mem.chain[id] \in Record
    BY MirrorTypes
  <2>2. mem.chain[id].principal \in Humans \cup {None}
    BY <2>1 DEF Record
  <2> QED
    BY <2>2, MirrorTypes, AnswerRecordType DEF Verdicts
<1>5. PICK next : next = [mem.charges EXCEPT ![id] = None]
  OBVIOUS
<1>6. /\ op'.new.chain = Append(mem.chain, rec) /\ op'.new.charges = next
      /\ op'.new.grants = IF mem.charges[id] # None
                          THEN Refunded(mem.grants, mem.charges[id]) ELSE mem.grants
  BY <1>5 DEF Reject, Begin, Target
<1>7. CASE mem.charges[id] = None
  <2>1. next = mem.charges
    BY <1>2, <1>5, <1>7 DEF Charges
  <2> HIDE DEF rec
  <2> QED
    BY <1>1, <1>4, <1>6, <1>7, <2>1, BalanceLonger
<1>8. CASE mem.charges[id] # None
  <2>1. PICK c \in Charge : c = mem.charges[id]
    BY <1>2, <1>3, <1>8 DEF Charges
  <2>2. PICK grants, charges : grants = mem.grants /\ charges = mem.charges
    OBVIOUS
  <2>3. PICK back : back = Refunded(grants, c)
    OBVIOUS
  <2>4. PICK chain : chain = Append(mem.chain, rec)
    OBVIOUS
  <2> HIDE DEF rec
  <2>5. PICK m \in Nat : m = Len(mem.chain)
    BY <1>2
  <2>6. PICK n \in Nat : n = Len(chain) /\ m <= n
    BY <1>2, <2>4, <2>5
  <2>7. Balanced(grants, charges, n)
    <3>1. Balanced(grants, charges, m)
      BY <1>2, <2>2, <2>5
    <3> QED
      BY <2>6, <3>1, BalancedLonger
  <2>8. grants \in Seq(Grant) /\ charges \in Charges /\ Replaced(next, charges, id, None) /\ charges[id] = c
    BY <1>2, <1>5, <2>1, <2>2 DEF Replaced
  <2>9. Balanced(back, next, n)
    BY <1>3, <2>3, <2>7, <2>8, BalancedRefund
  <2>10. op'.new.grants = back /\ op'.new.chain = chain
    BY <1>6, <1>8, <2>1, <2>2, <2>3, <2>4
  <2> QED
    BY <1>1, <1>6, <2>6, <2>9, <2>10, BalanceBegins
<1> QED
  BY <1>7, <1>8

\* Issuing and revoking a grant.
NotLess(chain) == Len(chain) \in Nat /\ Len(mem.chain) <= Len(chain)
LeavesBooks(grants) ==
  \A n \in Nat : Balanced(mem.grants, mem.charges, n) => Balanced(grants, mem.charges, n)

LEMMA GrantBalances ==
  ASSUME TypeInv, MirrorInv, CalmInv, BalanceInv, Ready, op'.todo # <<>>,
         op'.new.charges = mem.charges,
         NEW chain, op'.new.chain = chain, NotLess(chain),
         NEW grants, op'.new.grants = grants,
         LeavesBooks(grants)
  PROVE  BalanceInv'
<1>1. /\ Balanced(mem.grants, mem.charges, Len(mem.chain))
      /\ mem.chain \in Seq(Record) /\ Len(mem.chain) \in Nat
  BY BalancedMemory
<1>2. PICK m \in Nat : m = Len(mem.chain)
  BY <1>1
<1>3. PICK n \in Nat : n = Len(chain) /\ m <= n
  BY <1>2 DEF NotLess
<1>4. PICK charges : charges = mem.charges
  OBVIOUS
<1>5. Balanced(grants, charges, n)
  <2>1. Balanced(grants, charges, m)
    BY <1>1, <1>2, <1>4 DEF LeavesBooks
  <2> QED
    BY <1>3, <2>1, BalancedLonger
<1> QED
  BY <1>3, <1>4, <1>5, BalanceBegins

LEMMA IssueBalances ==
  ASSUME TypeInv, MirrorInv, CalmInv, BalanceInv, NEW g \in NewGrants, NEW issuer \in Issuers,
         IssueGrant(g, issuer)
  PROVE  BalanceInv'
<1>1. PICK more : more = Append(mem.grants, g)
  OBVIOUS
<1>2. PICK r : r = ActRecord(issuer, "grant.issue", g.id)
  OBVIOUS
<1>3. /\ Ready /\ op'.todo # <<>> /\ op'.new.charges = mem.charges /\ op'.new.grants = more
      /\ op'.new.chain \in {mem.chain, Append(mem.chain, r)}
  BY <1>1, <1>2 DEF IssueGrant, Begin, Target, GrantPlan
<1>4. g \in Grant /\ g.consumed = 0
  BY InputsTyped
<1>5. \A i \in DOMAIN mem.grants : mem.grants[i].id # g.id
  BY DEF IssueGrant
<1>6. mem.grants \in Seq(Grant) /\ mem.charges \in Charges
  BY <1>3, BalancedMemory
<1>7. LeavesBooks(more)
  <2>1. PICK grants, charges : grants = mem.grants /\ charges = mem.charges
    OBVIOUS
  <2>2. /\ grants \in Seq(Grant) /\ charges \in Charges /\ more = Append(grants, g)
        /\ \A i \in DOMAIN grants : grants[i].id # g.id
    BY <1>1, <1>5, <1>6, <2>1
  <2>3. \A n \in Nat : Balanced(grants, charges, n) => Balanced(more, charges, n)
    BY <1>4, <2>2, BalancedGrant
  <2> QED
    BY <2>1, <2>3 DEF LeavesBooks
<1>8. PICK chain : op'.new.chain = chain
  OBVIOUS
<1>9. NotLess(chain)
  BY <1>3, <1>8, MirrorTypes DEF NotLess
<1> QED
  BY <1>3, <1>7, <1>8, <1>9, GrantBalances

LEMMA RevokeBalances ==
  ASSUME TypeInv, MirrorInv, CalmInv, BalanceInv, NEW gid \in GrantIds, NEW who \in Humans,
         RevokeGrant(gid, who)
  PROVE  BalanceInv'
<1>1. PICK after : after = Revoked(mem.grants, gid)
  OBVIOUS
<1>2. PICK r : r = ActRecord(who, "grant.revoke", gid)
  OBVIOUS
<1>3. /\ Ready /\ op'.todo # <<>> /\ op'.new.charges = mem.charges /\ op'.new.grants = after
      /\ op'.new.chain \in {mem.chain, Append(mem.chain, r)}
  BY <1>1, <1>2 DEF RevokeGrant, Begin, Target, GrantPlan
<1>4. mem.grants \in Seq(Grant) /\ mem.charges \in Charges
  BY <1>3, BalancedMemory
<1>5. LeavesBooks(after)
  BY <1>1, <1>4, BalancedRevoke DEF LeavesBooks
<1>6. PICK chain : op'.new.chain = chain
  OBVIOUS
<1>7. NotLess(chain)
  BY <1>3, <1>6, MirrorTypes DEF NotLess
<1> QED
  BY <1>3, <1>5, <1>6, <1>7, GrantBalances
-----------------------------------------------------------------------------
LEMMA BalanceStep ==
  ASSUME MaxCrashes = 0, MaxFailures = 0, TypeInv, MirrorInv, CalmInv, BalanceInv, [Next]_vars
  PROVE  BalanceInv'
<1>1. CASE WriteSet \/ WriteRecord \/ WriteCount
  <2>1. /\ op.todo # <<>> /\ op'.new = op.new
        /\ op'.todo = <<>> => \A x \in Files : disk'[x] = op.new[x]
    BY <1>1, WriteKeepsBook
  <2>2. Balanced(op.new.grants, op.new.charges, Len(op.new.chain))
    BY <2>1 DEF BalanceInv
  <2>3. CASE op'.todo # <<>>
    BY <2>1, <2>2, <2>3 DEF BalanceInv
  <2>4. CASE op'.todo = <<>>
    <3>1. /\ disk'.grants = op.new.grants /\ disk'.charges = op.new.charges
          /\ disk'.chain = op.new.chain
      BY <2>1, <2>4 DEF Files
    <3> QED
      BY <2>2, <2>4, <3>1 DEF BalanceInv
  <2> QED
    BY <2>3, <2>4
<1>2. CASE SetActiveTenant \/ Restart \/ UNCHANGED vars
  <2>1. UNCHANGED << op, disk >>
    BY <1>2 DEF SetActiveTenant, Restart, vars, store
  <2> QED
    BY <2>1 DEF BalanceInv
<1>3. CASE Exit
  <2>1. op.todo = <<>> /\ op'.todo = <<>> /\ disk' = disk
    BY <1>3 DEF Exit, Free, Ends, NoOp, store
  <2> QED
    BY <2>1 DEF BalanceInv
<1>4. ~WriteFails /\ ~Crash
  BY DEF WriteFails, Crash, CalmInv
<1> QED
  BY <1>1, <1>2, <1>3, <1>4, UngovernedBalances, GovernedBalances, ApproveBalances,
     RejectBalances, IssueBalances, RevokeBalances DEF Next

LEMMA InitBalance == Init => BalanceInv
<1> SUFFICES ASSUME Init PROVE BalanceInv
  OBVIOUS
<1>1. /\ op.todo = <<>> /\ disk.grants = <<>> /\ disk.charges = [id \in Ids |-> None]
      /\ disk.chain = <<>>
  BY DEF Init, NoOp, Empty
<1> QED
  BY <1>1 DEF BalanceInv, Balanced

\* The books balance, where nothing fails: between operations each grant has
\* consumed what the decisions under it charged and nobody gave back.
THEOREM BooksBalance ==
  ASSUME MaxCrashes = 0, MaxFailures = 0
  PROVE  Spec => []BudgetBalanced
<1>1. Init => TypeInv /\ MirrorInv /\ CalmInv /\ BalanceInv
  BY InitType, InitMirror, InitBook, InitBalance
<1>2. TypeInv /\ MirrorInv /\ CalmInv /\ BalanceInv /\ [Next]_vars =>
        (TypeInv /\ MirrorInv /\ CalmInv /\ BalanceInv)'
  BY TypeStep, MirrorStep, BookStep, BalanceStep
<1>3. TypeInv /\ MirrorInv /\ CalmInv /\ BalanceInv => BudgetBalanced
  BY BalancedMemory DEF BudgetBalanced, Balanced
<1> QED
  BY <1>1, <1>2, <1>3, PTL DEF Spec
=============================================================================
