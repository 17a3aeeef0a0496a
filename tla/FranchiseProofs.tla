-------------------------- MODULE FranchiseProofs --------------------------
(***************************************************************************)
(* VA-1 and VA-2 for any number of allowances, votes, restarts, crashes    *)
(* and failed writes, whichever ids are issued again and how often.        *)
(*                                                                         *)
(* VA-2: the record of a revocation is appended after the set is saved, so *)
(* the set on disk is never behind the log; memory may be ahead of both,   *)
(* when a save failed, but is never behind either.                         *)
(*                                                                         *)
(* VA-1: the same order holds for what is spent.  A vote's weight is spent *)
(* in memory, then on disk, then recorded, so the votes on record weigh no *)
(* more than the file has spent (Ledger), and exactly as much between      *)
(* operations when nothing has failed yet (Calm).  What a log's votes      *)
(* weigh together is a recursive sum; the lemmas before it say what a      *)
(* record more adds to it.                                                 *)
(***************************************************************************)
EXTENDS Franchise, SequenceTheorems, WellFoundedInduction, TLAPS

Acts == [class : {"allowance.issue", "allowance.revoke", "vote.cast"},
         allowance : AllowanceIds, issue : Nat, principal : Principals,
         agent : Agents \cup Principals, weight : Nat]
Entries == [AllowanceIds -> Seq(Allowance)]

Plans == { <<>>, <<"set">>, <<"chain">>, <<"set", "chain">> }

Typed ==
  /\ mem \in [set : Entries, chain : Seq(Acts)] /\ disk \in [set : Entries, chain : Seq(Acts)]
  /\ op \in [todo : Plans, record : Acts \cup {None}]
  /\ op.todo \in { <<"chain">>, <<"set", "chain">> } => op.record \in Acts

IsRevoked(set, id, i) == i \in DOMAIN set[id] /\ set[id][i].revoked
IsRevocation(r, id, i) == IsOf(r, "allowance.revoke", id, i)
IsVote(r, id, i) == IsOf(r, "vote.cast", id, i)

\* A recorded revocation is in force, in memory as on disk.
RevokedStays ==
  \A id \in AllowanceIds, i \in Nat : Revocations(id, i) # {} =>
    IsRevoked(disk.set, id, i) /\ IsRevoked(mem.set, id, i)

\* The record about to be appended may be: a revocation is in force in memory, and
\* on disk once the set is saved; a vote is of an allowance that nobody revoked.
MayAppend ==
  op.todo \in { <<"chain">>, <<"set", "chain">> } =>
    \A id \in AllowanceIds, i \in Nat :
      /\ IsRevocation(op.record, id, i) =>
           IsRevoked(mem.set, id, i) /\ (op.todo = <<"chain">> => IsRevoked(disk.set, id, i))
      /\ IsVote(op.record, id, i) => Revocations(id, i) = {}

VotesFirst ==
  \A id \in AllowanceIds, i \in Nat : \A n \in Votes(id, i), m \in Revocations(id, i) : n < m

RevInv == Typed /\ RevokedStays /\ MayAppend /\ VotesFirst
-----------------------------------------------------------------------------
\* An operation that starts: the set in memory changes, nobody's revocation is
\* taken back, and what it will record may be recorded.
LEMMA Starts ==
  ASSUME RevInv, NEW set \in Entries, NEW record \in Acts,
         SaveThenTryToRecord(set, record),
         \A id \in AllowanceIds, i \in Nat : Revocations(id, i) # {} => IsRevoked(set, id, i),
         \A id \in AllowanceIds, i \in Nat : IsRevocation(record, id, i) => IsRevoked(set, id, i),
         \A id \in AllowanceIds, i \in Nat : IsVote(record, id, i) => Revocations(id, i) = {}
  PROVE  RevInv'
<1>1. /\ mem' = [set |-> set, chain |-> mem.chain] /\ disk' = disk
      /\ op' \in { [todo |-> <<"set">>, record |-> None],
                   [todo |-> <<"set", "chain">>, record |-> record] }
  BY DEF SaveThenTryToRecord, SaveAndRecord, Save, Begin, RevInv, Typed
<1>2. \A id, i : Revocations(id, i)' = Revocations(id, i) /\ Votes(id, i)' = Votes(id, i)
  BY <1>1 DEF Revocations, Votes
<1>3. Typed'
  <2>1. op' \in [todo : Plans, record : Acts \cup {None}]
    BY <1>1 DEF Plans
  <2>2. op'.todo # <<"set">> => op'.record \in Acts
    BY <1>1
  <2>3. <<"set">> # <<"chain">> /\ <<"set">> # <<"set", "chain">>
    BY <<"set">>[1] = "set", <<"chain">>[1] = "chain", Len(<<"set">>) = 1, Len(<<"set", "chain">>) = 2
  <2> QED BY <1>1, <2>1, <2>2, <2>3 DEF RevInv, Typed
<1>4. RevokedStays'
  BY <1>1, <1>2 DEF RevInv, RevokedStays, IsRevoked
<1>5. MayAppend'
  BY <1>1, <1>2 DEF RevInv, MayAppend, IsRevoked, IsRevocation, IsVote
<1>6. VotesFirst'
  BY <1>2 DEF RevInv, VotesFirst
<1> QED BY <1>3, <1>4, <1>5, <1>6 DEF RevInv

LEMMA InitInv == Init => RevInv
BY DEF Init, InitLog, Idle, Unissued, RevInv, Typed, Entries, Plans, RevokedStays, MayAppend,
       VotesFirst, Revocations, Votes

\* An issue more under an id: those before it stay as they are.
LEMMA IssueMore ==
  ASSUME mem.set \in Entries, NEW id \in AllowanceIds, NEW a \in Allowance, NEW set,
         set = [mem.set EXCEPT ![id] = Append(@, a)]
  PROVE  /\ set \in Entries /\ Issue(id) \in Nat
         /\ \A j \in AllowanceIds : j # id => set[j] = mem.set[j]
         /\ DOMAIN set[id] = DOMAIN mem.set[id] \cup {Issue(id) + 1}
         /\ \A k \in DOMAIN mem.set[id] : set[id][k] = mem.set[id][k]
         /\ set[id][Issue(id) + 1] = a /\ Issue(id) + 1 \notin DOMAIN mem.set[id]
<1>1. PICK list \in Seq(Allowance) : list = mem.set[id]
  BY DEF Entries
<1>2. set[id] = Append(list, a) /\ Issue(id) = Len(list)
  BY <1>1 DEF Entries, Issue
<1>3. /\ Append(list, a) \in Seq(Allowance) /\ Len(list) \in Nat
      /\ DOMAIN Append(list, a) = DOMAIN list \cup {Len(list) + 1}
      /\ \A k \in DOMAIN list : Append(list, a)[k] = list[k]
      /\ Append(list, a)[Len(list) + 1] = a
      /\ DOMAIN list = 1..Len(list)
  BY AppendProperties
<1>4. set \in Entries /\ \A j \in AllowanceIds : j # id => set[j] = mem.set[j]
  BY <1>1, <1>3 DEF Entries
<1> QED
  BY <1>1, <1>2, <1>3, <1>4

\* A change of the issue in force.
LEMMA ChangeInForce ==
  ASSUME mem.set \in Entries, NEW id \in AllowanceIds, Holds(id)
  PROVE  /\ InForce(id) \in Allowance /\ Issue(id) \in DOMAIN mem.set[id] /\ Issue(id) \in Nat
         /\ InForce(id) = mem.set[id][Issue(id)]
         /\ \A a \in Allowance : \A set : set = WithInForce(id, a) =>
              /\ set \in Entries
              /\ \A j \in AllowanceIds : DOMAIN set[j] = DOMAIN mem.set[j]
              /\ \A j \in AllowanceIds : \A k \in DOMAIN mem.set[j] :
                   set[j][k] = IF j = id /\ k = Issue(id) THEN a ELSE mem.set[j][k]
<1>1. PICK list \in Seq(Allowance) : list = mem.set[id]
  BY DEF Entries
<1>2. Issue(id) = Len(list) /\ Issue(id) \in 1..Len(list) /\ DOMAIN list = 1..Len(list)
  BY <1>1 DEF Issue, Holds
<1>3. InForce(id) \in Allowance /\ InForce(id) = mem.set[id][Issue(id)]
  BY <1>1, <1>2 DEF InForce
<1>4. ASSUME NEW a \in Allowance, NEW set, set = WithInForce(id, a)
      PROVE  /\ set \in Entries
             /\ \A j \in AllowanceIds : DOMAIN set[j] = DOMAIN mem.set[j]
             /\ \A j \in AllowanceIds : \A k \in DOMAIN mem.set[j] :
                  set[j][k] = IF j = id /\ k = Issue(id) THEN a ELSE mem.set[j][k]
  <2>1. PICK next : next = [list EXCEPT ![Issue(id)] = a]
    OBVIOUS
  <2>2. /\ next \in Seq(Allowance) /\ DOMAIN next = DOMAIN list
        /\ \A k \in DOMAIN list : next[k] = IF k = Issue(id) THEN a ELSE list[k]
    BY <1>2, <2>1
  <2>3. set = [mem.set EXCEPT ![id] = next]
    BY <1>1, <1>4, <2>1 DEF WithInForce
  <2>4. set[id] = next /\ \A j \in AllowanceIds : j # id => set[j] = mem.set[j]
    BY <2>3 DEF Entries
  <2>5. set \in Entries
    BY <2>2, <2>3 DEF Entries
  <2> QED
    BY <1>1, <2>2, <2>4, <2>5
<1> QED
  BY <1>1, <1>2, <1>3, <1>4

\* The three operations.
LEMMA IssueKeeps ==
  ASSUME RevInv, NEW n \in NewAllowances, IssueAllowance(n) PROVE RevInv'
<1> DEFINE record == Act("allowance.issue", n.id, Issue(n.id) + 1, n.principal)
           set == [mem.set EXCEPT ![n.id] = Append(@, Fresh(n))]
<1>0. mem.set \in Entries
  BY DEF RevInv, Typed
<1>1. Fresh(n) \in Allowance /\ n.id \in AllowanceIds /\ n.principal \in Principals
  BY FranchiseInputs DEF IssueAllowance, Named, Allowance, Fresh
<1>2. /\ set \in Entries /\ Issue(n.id) \in Nat
      /\ \A j \in AllowanceIds : j # n.id => set[j] = mem.set[j]
      /\ DOMAIN set[n.id] = DOMAIN mem.set[n.id] \cup {Issue(n.id) + 1}
      /\ \A k \in DOMAIN mem.set[n.id] : set[n.id][k] = mem.set[n.id][k]
      /\ set[n.id][Issue(n.id) + 1] = Fresh(n) /\ Issue(n.id) + 1 \notin DOMAIN mem.set[n.id]
  BY <1>0, <1>1, IssueMore
<1>3. record \in Acts
  BY <1>1, <1>2 DEF Act, Acts
<1>4. \A id \in AllowanceIds, i \in Nat : IsRevoked(mem.set, id, i) => IsRevoked(set, id, i)
  <2> HIDE DEF set
  <2> QED BY <1>2 DEF IsRevoked
<1>5. \A id, i : ~IsRevocation(record, id, i) /\ ~IsVote(record, id, i)
  BY DEF Act, IsRevocation, IsVote, IsOf
<1>6. SaveThenTryToRecord(set, record)
  BY DEF IssueAllowance
<1> HIDE DEF set, record
<1>7. \A id \in AllowanceIds, i \in Nat : Revocations(id, i) # {} => IsRevoked(set, id, i)
  BY <1>4 DEF RevInv, RevokedStays
<1> QED BY <1>2, <1>3, <1>5, <1>6, <1>7, Starts

LEMMA VoteKeeps ==
  ASSUME RevInv, NEW id \in AllowanceIds, NEW class \in Classes, NEW weight \in Weights,
         NEW now \in Instants, CastVote(id, class, weight, now)
  PROVE  RevInv'
<1> DEFINE a == InForce(id)
           record == Vote(id, Issue(id), a, weight)
           set == WithInForce(id, Spend(a, weight))
<1>1. /\ a \in Allowance /\ ~a.revoked /\ weight \in Nat
      /\ Issue(id) \in DOMAIN mem.set[id] /\ Issue(id) \in Nat /\ a = mem.set[id][Issue(id)]
  BY FranchiseInputs, ChangeInForce DEF CastVote, CanCast, IsLive, RevInv, Typed
<1>2. Spend(a, weight) \in Allowance /\ Spend(a, weight).revoked = a.revoked
  BY <1>1 DEF Spend, Allowance
<1>3. /\ set \in Entries
      /\ \A j \in AllowanceIds : DOMAIN set[j] = DOMAIN mem.set[j]
      /\ \A j \in AllowanceIds : \A k \in DOMAIN mem.set[j] :
           set[j][k] = IF j = id /\ k = Issue(id) THEN Spend(a, weight) ELSE mem.set[j][k]
  BY <1>2, ChangeInForce DEF CastVote, RevInv, Typed
<1>4. record \in Acts
  <2>1. a.principal \in Principals /\ a.agent \in Agents
    BY <1>1 DEF Allowance
  <2> QED BY <1>1, <2>1 DEF Vote, Acts
<1>5. Revocations(id, Issue(id)) = {}
  BY <1>1 DEF RevInv, RevokedStays, IsRevoked
<1>6. \A j, i : ~IsRevocation(record, j, i) /\ (IsVote(record, j, i) => j = id /\ i = Issue(id))
  BY DEF Vote, IsRevocation, IsVote, IsOf
<1>7. SaveThenTryToRecord(set, record)
  BY DEF CastVote
<1> HIDE DEF set, record, a
<1>8. \A j \in AllowanceIds, i \in Nat : Revocations(j, i) # {} => IsRevoked(set, j, i)
  BY <1>3, <1>5 DEF RevInv, RevokedStays, IsRevoked
<1> QED BY <1>3, <1>4, <1>5, <1>6, <1>7, <1>8, Starts

LEMMA RevokeKeeps ==
  ASSUME RevInv, NEW id \in AllowanceIds, RevokeAllowance(id) PROVE RevInv'
<1> DEFINE a == InForce(id)
           gone == [a EXCEPT !.revoked = TRUE]
           record == Act("allowance.revoke", id, Issue(id), a.principal)
           set == WithInForce(id, gone)
<1>1. /\ a \in Allowance /\ Issue(id) \in DOMAIN mem.set[id] /\ Issue(id) \in Nat
  BY ChangeInForce DEF RevokeAllowance, RevInv, Typed
<1>2. gone \in Allowance /\ gone.revoked
  BY <1>1 DEF Allowance
<1> HIDE DEF gone
<1>3. /\ set \in Entries
      /\ \A j \in AllowanceIds : DOMAIN set[j] = DOMAIN mem.set[j]
      /\ \A j \in AllowanceIds : \A k \in DOMAIN mem.set[j] :
           set[j][k] = IF j = id /\ k = Issue(id) THEN gone ELSE mem.set[j][k]
  BY <1>2, ChangeInForce DEF RevokeAllowance, RevInv, Typed
<1>4. record \in Acts
  <2>1. a.principal \in Principals
    BY <1>1 DEF Allowance
  <2> QED BY <1>1, <2>1 DEF Act, Acts
<1>5. \A j, i : (IsRevocation(record, j, i) => j = id /\ i = Issue(id)) /\ ~IsVote(record, j, i)
  BY DEF Act, IsRevocation, IsVote, IsOf
<1>6. SaveThenTryToRecord(set, record)
  BY DEF RevokeAllowance, gone
<1> HIDE DEF set, record, a
<1>7. IsRevoked(set, id, Issue(id))
  BY <1>1, <1>2, <1>3 DEF IsRevoked
<1>8. \A j \in AllowanceIds, i \in Nat : Revocations(j, i) # {} => IsRevoked(set, j, i)
  BY <1>2, <1>3 DEF RevInv, RevokedStays, IsRevoked
<1> QED BY <1>3, <1>4, <1>5, <1>6, <1>7, <1>8, Starts
-----------------------------------------------------------------------------
\* The steps of the log.  A record is only appended by the write that MayAppend
\* speaks of.
LEMMA AppendKeeps ==
  ASSUME RevInv, op.todo = <<"chain">> \/ op.todo = <<"set", "chain">>, Writing("chain"),
         DiskGains
  PROVE  /\ disk' \in [set : Entries, chain : Seq(Acts)] /\ disk'.set = disk.set
         /\ VotesFirst'
         /\ \A id \in AllowanceIds, i \in Nat : Revocations(id, i)' # {} =>
              IsRevoked(disk.set, id, i) /\ IsRevoked(mem.set, id, i)
<1> DEFINE c == disk.chain
           r == op.record
<1>1. op.todo = <<"chain">>
  BY Head(<<"set", "chain">>) = "set" DEF Writing
<1>2. r \in Acts /\ c \in Seq(Acts)
  BY <1>1 DEF RevInv, Typed
<1>3. disk' = [set |-> disk.set, chain |-> Append(c, r)]
  BY DEF DiskGains, RevInv, Typed
<1>4. /\ Append(c, r) \in Seq(Acts) /\ DOMAIN Append(c, r) = DOMAIN c \cup {Len(c) + 1}
      /\ DOMAIN c = 1..Len(c) /\ Len(c) \in Nat
      /\ \A n \in DOMAIN c : Append(c, r)[n] = c[n]
      /\ Append(c, r)[Len(c) + 1] = r
  BY <1>2, AppendProperties
<1>5. ASSUME NEW id \in AllowanceIds, NEW i \in Nat
      PROVE  /\ Votes(id, i)' \subseteq Votes(id, i) \cup {Len(c) + 1}
             /\ Revocations(id, i)' \subseteq Revocations(id, i) \cup {Len(c) + 1}
             /\ Len(c) + 1 \in Votes(id, i)' => IsVote(r, id, i)
             /\ Len(c) + 1 \in Revocations(id, i)' => IsRevocation(r, id, i)
             /\ Votes(id, i) \subseteq 1..Len(c) /\ Revocations(id, i) \subseteq 1..Len(c)
  BY <1>3, <1>4 DEF Votes, Revocations, IsVote, IsRevocation
<1>6. ASSUME NEW id \in AllowanceIds, NEW i \in Nat
      PROVE  /\ IsRevocation(r, id, i) => IsRevoked(mem.set, id, i) /\ IsRevoked(disk.set, id, i)
             /\ IsVote(r, id, i) => Revocations(id, i) = {}
             /\ ~(IsVote(r, id, i) /\ IsRevocation(r, id, i))
  BY <1>1 DEF RevInv, MayAppend, IsVote, IsRevocation, IsOf
<1>7. VotesFirst'
  <2> SUFFICES ASSUME NEW id \in AllowanceIds, NEW i \in Nat, NEW n \in Votes(id, i)',
                       NEW k \in Revocations(id, i)'
               PROVE  n < k
    BY DEF VotesFirst
  <2>1. CASE n \in Votes(id, i) /\ k \in Revocations(id, i)
    BY <2>1 DEF RevInv, VotesFirst
  <2>2. CASE n \in Votes(id, i) /\ k = Len(c) + 1
    BY <2>2, <1>4, <1>5
  <2>3. CASE n = Len(c) + 1
    BY <2>3, <1>4, <1>5, <1>6
  <2> QED BY <2>1, <2>2, <2>3, <1>5
<1>8. \A id \in AllowanceIds, i \in Nat : Revocations(id, i)' # {} =>
         IsRevoked(disk.set, id, i) /\ IsRevoked(mem.set, id, i)
  BY <1>5, <1>6 DEF RevInv, RevokedStays
<1> QED BY <1>3, <1>4, <1>2, <1>7, <1>8 DEF RevInv, Typed

\* What an interrupted write leaves on disk.
LEMMA InterruptedKeeps ==
  ASSUME RevInv, op.todo # <<>>, Interrupted
  PROVE  /\ disk' \in [set : Entries, chain : Seq(Acts)] /\ disk'.set = disk.set
         /\ VotesFirst'
         /\ \A id \in AllowanceIds, i \in Nat : Revocations(id, i)' # {} =>
              IsRevoked(disk.set, id, i) /\ IsRevoked(mem.set, id, i)
<1>1. CASE UNCHANGED disk
  BY <1>1 DEF RevInv, Typed, RevokedStays, VotesFirst, Votes, Revocations
<1>2. CASE Writing("chain") /\ DiskGains
  <2>1. op.todo = <<"chain">> \/ op.todo = <<"set", "chain">>
    BY <1>2, Head(<<"set">>) = "set" DEF Writing, RevInv, Typed, Plans
  <2> QED BY <1>2, <2>1, AppendKeeps
<1> QED BY <1>1, <1>2 DEF Interrupted

\* With no operation in progress nothing is left to append.
LEMMA IdleKeeps ==
  ASSUME op' = Idle, mem' \in [set : Entries, chain : Seq(Acts)],
         disk' \in [set : Entries, chain : Seq(Acts)], VotesFirst', RevokedStays'
  PROVE  RevInv'
<1>1. <<>> # <<"chain">> /\ <<>> # <<"set", "chain">>
  BY Len(<<>>) = 0, Len(<<"chain">>) = 1, Len(<<"set", "chain">>) = 2
<1> QED BY <1>1 DEF Idle, RevInv, Typed, Plans, MayAppend

LEMMA SaveSetKeeps ==
  ASSUME RevInv, SaveSet PROVE RevInv'
<1>1. op.todo = <<"set">> \/ op.todo = <<"set", "chain">>
  BY Head(<<"chain">>) = "chain" DEF SaveSet, Writing, RevInv, Typed, Plans
<1>2. disk' = [set |-> mem.set, chain |-> disk.chain] /\ mem' = mem
  BY DEF SaveSet, RevInv, Typed
<1>3. \A id, i : Revocations(id, i)' = Revocations(id, i) /\ Votes(id, i)' = Votes(id, i)
  BY <1>2 DEF Revocations, Votes
<1>4. RevokedStays' /\ VotesFirst'
  BY <1>2, <1>3 DEF RevInv, RevokedStays, VotesFirst, IsRevoked
<1>5. disk' \in [set : Entries, chain : Seq(Acts)] /\ mem' \in [set : Entries, chain : Seq(Acts)]
  BY <1>2 DEF RevInv, Typed
<1>6. CASE op.todo = <<"set">>
  <2>1. op' = Idle
    BY <1>6, Len(<<"set">>) = 1 DEF SaveSet, Done
  <2> QED BY <2>1, <1>4, <1>5, IdleKeeps
<1>7. CASE op.todo = <<"set", "chain">>
  <2>1. op' = [todo |-> <<"chain">>, record |-> op.record]
    BY <1>7, Len(<<"set", "chain">>) = 2, Tail(<<"set", "chain">>) = <<"chain">>
    DEF SaveSet, Done, RevInv, Typed
  <2>2. op.record \in Acts
    BY <1>7 DEF RevInv, Typed
  <2>3. Typed'
    BY <1>5, <2>1, <2>2 DEF Typed, Plans
  <2>4. MayAppend'
    BY <1>2, <1>3, <1>7, <2>1 DEF RevInv, MayAppend, IsRevoked, IsRevocation, IsVote
  <2> QED BY <1>4, <2>3, <2>4 DEF RevInv
<1> QED BY <1>1, <1>6, <1>7

LEMMA AppendRecordKeeps ==
  ASSUME RevInv, AppendRecord PROVE RevInv'
<1>1. op.todo = <<"chain">>
  BY Head(<<"set">>) = "set", Head(<<"set", "chain">>) = "set"
  DEF AppendRecord, Writing, RevInv, Typed, Plans
<1>2. op' = Idle
  BY <1>1, Len(<<"chain">>) = 1 DEF AppendRecord, Done
<1>3. mem' = [set |-> mem.set, chain |-> Append(mem.chain, op.record)] /\ op.record \in Acts
  BY <1>1 DEF AppendRecord, MemGains, RevInv, Typed
<1>4. mem' \in [set : Entries, chain : Seq(Acts)]
  BY <1>3, AppendProperties DEF RevInv, Typed
<1>5. RevokedStays' /\ VotesFirst' /\ disk' \in [set : Entries, chain : Seq(Acts)]
  BY <1>1, <1>3, AppendKeeps DEF AppendRecord, RevokedStays, IsRevoked
<1> QED BY <1>2, <1>4, <1>5, IdleKeeps

LEMMA WriteFailsKeeps ==
  ASSUME RevInv, WriteFails PROVE RevInv'
<1>1. op' = Idle /\ Interrupted /\ op.todo # <<>>
  BY DEF WriteFails, Writing
<1>2. mem' = mem \/ (MemGains /\ Writing("chain"))
  BY DEF WriteFails
<1>3. mem' \in [set : Entries, chain : Seq(Acts)] /\ mem'.set = mem.set
  <2>1. CASE mem' = mem
    BY <2>1 DEF RevInv, Typed
  <2>2. CASE MemGains /\ Writing("chain")
    <3>1. op.todo = <<"chain">>
      BY <2>2, Head(<<"set">>) = "set", Head(<<"set", "chain">>) = "set"
      DEF Writing, RevInv, Typed, Plans
    <3>2. mem' = [set |-> mem.set, chain |-> Append(mem.chain, op.record)] /\ op.record \in Acts
      BY <2>2, <3>1 DEF MemGains, RevInv, Typed
    <3> QED BY <3>2, AppendProperties DEF RevInv, Typed
  <2> QED BY <1>2, <2>1, <2>2
<1>4. RevokedStays' /\ VotesFirst' /\ disk' \in [set : Entries, chain : Seq(Acts)]
  BY <1>1, <1>3, InterruptedKeeps DEF RevokedStays, IsRevoked
<1> QED BY <1>1, <1>3, <1>4, IdleKeeps

\* The process ends, in the middle of an operation or between two: what is in
\* memory next is what is on disk.
LEMMA EndsKeep ==
  ASSUME RevInv, Exit \/ Crash PROVE RevInv'
<1>1. op' = Idle /\ mem' = disk'
  BY DEF Exit, Crash, Ends
<1>2. /\ disk' \in [set : Entries, chain : Seq(Acts)] /\ VotesFirst'
      /\ \A id \in AllowanceIds, i \in Nat :
           Revocations(id, i)' # {} => IsRevoked(disk'.set, id, i)
  <2>1. CASE Exit
    BY <2>1 DEF Exit, RevInv, Typed, RevokedStays, VotesFirst, Votes, Revocations
  <2>2. CASE Crash
    <3>1. op.todo # <<>> /\ Interrupted
      BY <2>2 DEF Crash
    <3> QED BY <3>1, InterruptedKeeps
  <2> QED BY <2>1, <2>2
<1>3. RevokedStays'
  BY <1>1, <1>2 DEF RevokedStays
<1> QED BY <1>1, <1>2, <1>3, IdleKeeps

THEOREM RevInvStep == RevInv /\ [Next]_logVars => RevInv'
<1> SUFFICES ASSUME RevInv, [Next]_logVars PROVE RevInv'
  OBVIOUS
<1>1. CASE \E n \in NewAllowances : IssueAllowance(n)
  BY <1>1, IssueKeeps
<1>2. CASE \E id \in AllowanceIds, class \in Classes, weight \in Weights, now \in Instants :
             CastVote(id, class, weight, now)
  BY <1>2, VoteKeeps
<1>3. CASE \E id \in AllowanceIds : RevokeAllowance(id)
  BY <1>3, RevokeKeeps
<1>4. CASE LogSteps
  <2>1. CASE Restart \/ UNCHANGED logVars
    BY <2>1 DEF Restart, logVars, RevInv, Typed, RevokedStays, MayAppend, VotesFirst, Votes,
       Revocations
  <2> QED BY <1>4, <2>1, SaveSetKeeps, AppendRecordKeeps, WriteFailsKeeps, EndsKeep DEF LogSteps
<1>5. CASE UNCHANGED logVars
  BY <1>5 DEF logVars, RevInv, Typed, RevokedStays, MayAppend, VotesFirst, Votes, Revocations
<1> QED BY <1>1, <1>2, <1>3, <1>4, <1>5 DEF Next

\* A recorded revocation is in force on disk and no vote is recorded after it,
\* whenever the process dies and whichever writes fail.
THEOREM RevocationStays == Spec => []RevocationHolds
<1>1. RevInv => RevocationHolds
  BY FranchiseInputs
  DEF RevInv, RevokedStays, VotesFirst, RevocationHolds, IsRevoked, Issued, Issues
<1>2. RevInv /\ [Next]_logVars => RevInv'
  BY RevInvStep
<1> QED BY InitInv, <1>1, <1>2, PTL DEF Spec
-----------------------------------------------------------------------------
(* What a log's votes weigh together.                                      *)

\* A set of numbers has a least one.
LEMMA LeastNumber ==
  ASSUME NEW T \in SUBSET Nat, T # {} PROVE \E m \in T : \A n \in T : m <= n
<1>1. PICK m \in T : \A n \in T : ~(<<n, m>> \in OpToRel(<, Nat))
  BY WFMin, NatLessThanWellFounded
<1>2. \A n \in T : ~(n < m)
  BY <1>1 DEF OpToRel
<1>3. \A n \in T : n \in Nat
  OBVIOUS
<1> QED
  BY <1>2, <1>3

Countable(parts, n) == \A k \in 1..n : parts[k] \in Nat

\* A list of the sums of the first parts, as the definition of Total has it, and
\* place by place.
Partial(parts, n, sum) ==
  sum = [k \in 0..n |-> IF k = 0 THEN 0 ELSE sum[k - 1] + parts[k]]
Sums(parts, n, sum) ==
  sum[0] = 0 /\ \A k \in 1..n : sum[k] \in Nat /\ sum[k] = sum[k - 1] + parts[k]

LEMMA PartialExists ==
  ASSUME NEW n \in Nat, NEW parts
  PROVE  \E sum : Partial(parts, n, sum)
<1> DEFINE Without == { m \in Nat : m <= n /\ ~\E sum : Partial(parts, m, sum) }
<1> SUFFICES ASSUME Without # {} PROVE FALSE
  OBVIOUS
<1>0. Without \subseteq Nat
  OBVIOUS
<1>1. PICK m \in Without : \A k \in Without : m <= k
  <2> HIDE DEF Without
  <2> QED
    BY <1>0, LeastNumber
<1>2. m # 0
  <2>1. Partial(parts, 0, [k \in 0..0 |-> 0])
    BY DEF Partial
  <2> QED
    BY <1>1, <2>1
<1>3. m - 1 \in Nat /\ m - 1 <= n /\ m - 1 \notin Without
  BY <1>1, <1>2
<1>4. PICK sum : Partial(parts, m - 1, sum)
  BY <1>3
<1>5. Partial(parts, m, [k \in 0..m |-> IF k = m THEN sum[m - 1] + parts[m] ELSE sum[k]])
  BY <1>1, <1>2, <1>4 DEF Partial
<1> QED
  BY <1>1, <1>5

LEMMA TotalSums ==
  ASSUME NEW n \in Nat, NEW parts, Countable(parts, n)
  PROVE  \E sum : Sums(parts, n, sum) /\ Total(parts, n) = sum[n] /\ sum[n] \in Nat
<1>1. PICK sum : Partial(parts, n, sum) /\ Total(parts, n) = sum[n]
  <2>1. Total(parts, n) = (CHOOSE sum : Partial(parts, n, sum))[n]
    BY DEF Total, Partial
  <2> QED
    BY <2>1, PartialExists
<1>2. sum[0] = 0 /\ \A k \in 1..n : sum[k] = sum[k - 1] + parts[k]
  BY <1>1 DEF Partial
<1> DEFINE Odd == { m \in Nat : m <= n /\ sum[m] \notin Nat }
<1>3. Odd = {}
  <2> SUFFICES ASSUME Odd # {} PROVE FALSE
    OBVIOUS
  <2>0. Odd \subseteq Nat
    OBVIOUS
  <2>1. PICK m \in Odd : \A k \in Odd : m <= k
    <3> HIDE DEF Odd
    <3> QED
      BY <2>0, LeastNumber
  <2>2. m # 0
    BY <1>2, <2>1
  <2>3. sum[m - 1] \in Nat /\ m \in 1..n
    BY <2>1, <2>2
  <2>4. parts[m] \in Nat /\ sum[m] = sum[m - 1] + parts[m]
    BY <1>2, <2>3 DEF Countable
  <2> QED
    BY <2>1, <2>3, <2>4
<1>4. \A k \in 0..n : sum[k] \in Nat
  BY <1>3
<1> QED
  BY <1>1, <1>2, <1>4 DEF Sums

\* Sums of the same parts are the same.
LEMMA SumsAgree ==
  ASSUME NEW n \in Nat, NEW p, NEW q, NEW f, NEW g, Sums(p, n, f), Sums(q, n, g),
         \A k \in 1..n : p[k] = q[k]
  PROVE  f[n] = g[n]
<1> DEFINE Odd == { k \in Nat : k <= n /\ f[k] # g[k] }
<1>1. Odd = {}
  <2> SUFFICES ASSUME Odd # {} PROVE FALSE
    OBVIOUS
  <2>0. Odd \subseteq Nat
    OBVIOUS
  <2>1. PICK k \in Odd : \A j \in Odd : k <= j
    <3> HIDE DEF Odd
    <3> QED
      BY <2>0, LeastNumber
  <2>2. k # 0
    BY <2>1 DEF Sums
  <2>3. k \in 1..n /\ k - 1 \in Nat /\ k - 1 <= n /\ k - 1 \notin Odd
    BY <2>1, <2>2
  <2>4. f[k] = f[k - 1] + p[k] /\ g[k] = g[k - 1] + q[k] /\ p[k] = q[k]
    BY <2>3 DEF Sums
  <2> QED
    BY <2>1, <2>3, <2>4
<1> QED
  BY <1>1

\* A part more.
LEMMA TotalGrows ==
  ASSUME NEW n \in Nat, NEW p, NEW q, Countable(p, n), Countable(q, n + 1),
         \A k \in 1..n : p[k] = q[k]
  PROVE  Total(q, n + 1) = Total(p, n) + q[n + 1]
<1>1. PICK f : Sums(p, n, f) /\ Total(p, n) = f[n]
  BY TotalSums
<1>2. PICK g : Sums(q, n + 1, g) /\ Total(q, n + 1) = g[n + 1]
  BY TotalSums
<1>3. Sums(q, n, g) /\ Countable(q, n) /\ g[n + 1] = g[n] + q[n + 1]
  BY <1>2 DEF Sums, Countable
<1>4. f[n] = g[n]
  BY <1>1, <1>3, SumsAgree
<1> QED
  BY <1>1, <1>2, <1>3, <1>4

\* What a record weighs for an allowance, and a log.
Share(r, id, i) == IF IsVote(r, id, i) THEN r.weight ELSE 0
Shares(log, id, i) == [n \in DOMAIN log |-> Share(log[n], id, i)]
Weight(log, id, i) == Total(Shares(log, id, i), Len(log))

LEMMA WeightsAreTotals == \A id, i : VotesWeight(id, i) = Weight(disk.chain, id, i)
<1> SUFFICES ASSUME NEW id, NEW i PROVE VotesWeight(id, i) = Weight(disk.chain, id, i)
  OBVIOUS
<1>1. Shares(disk.chain, id, i)
        = [n \in DOMAIN disk.chain |-> IF n \in Votes(id, i) THEN disk.chain[n].weight ELSE 0]
  BY DEF Shares, Share, Votes, IsVote
<1> QED
  BY <1>1 DEF VotesWeight, Weight

LEMMA ShareIsNat ==
  ASSUME NEW r \in Acts, NEW id, NEW i PROVE Share(r, id, i) \in Nat
BY DEF Share, Acts

LEMMA WeightIsNat ==
  ASSUME NEW log \in Seq(Acts), NEW id, NEW i
  PROVE  Weight(log, id, i) \in Nat /\ (log = <<>> => Weight(log, id, i) = 0)
<1>1. Len(log) \in Nat /\ \A k \in 1..Len(log) : log[k] \in Acts
  OBVIOUS
<1>2. Countable(Shares(log, id, i), Len(log))
  BY <1>1, ShareIsNat DEF Shares, Countable
<1>3. PICK n \in Nat : n = Len(log)
  BY <1>1
<1>4. \E sum : Sums(Shares(log, id, i), n, sum) /\ Weight(log, id, i) = sum[n] /\ sum[n] \in Nat
  BY <1>2, <1>3, TotalSums DEF Weight
<1>5. log = <<>> => n = 0
  BY <1>3
<1> QED
  BY <1>4, <1>5 DEF Sums

LEMMA WeightGrows ==
  ASSUME NEW log \in Seq(Acts), NEW r \in Acts, NEW id, NEW i
  PROVE  Weight(Append(log, r), id, i) = Weight(log, id, i) + Share(r, id, i)
<1>1. PICK n \in Nat : n = Len(log)
  OBVIOUS
<1>2. PICK next : next = Append(log, r)
  OBVIOUS
<1>3. /\ Len(next) = n + 1 /\ DOMAIN next = 1..(n + 1) /\ DOMAIN log = 1..n
      /\ \A k \in 1..n : next[k] = log[k] /\ log[k] \in Acts
      /\ next[n + 1] = r
  BY <1>1, <1>2
<1>4. \A k \in 1..n : k \in 1..(n + 1)
  OBVIOUS
<1>5. n + 1 \in 1..(n + 1)
  OBVIOUS
<1>6. \A k \in 1..(n + 1) : k \in 1..n \/ k = n + 1
  OBVIOUS
<1>7. /\ Countable(Shares(log, id, i), n) /\ Countable(Shares(next, id, i), n + 1)
      /\ \A k \in 1..n : Shares(log, id, i)[k] = Shares(next, id, i)[k]
      /\ Shares(next, id, i)[n + 1] = Share(r, id, i)
  BY <1>3, <1>4, <1>5, <1>6, ShareIsNat DEF Shares, Countable
<1>8. Total(Shares(next, id, i), n + 1)
        = Total(Shares(log, id, i), n) + Shares(next, id, i)[n + 1]
  BY <1>7, TotalGrows
<1> QED
  BY <1>1, <1>2, <1>3, <1>7, <1>8 DEF Weight
-----------------------------------------------------------------------------
(* The votes on record against what is spent.                              *)

DiskSpent(id, i) == IF i \notin DOMAIN disk.set[id] THEN 0 ELSE disk.set[id][i].spent
MemSpent(id, i) == IF i \notin DOMAIN mem.set[id] THEN 0 ELSE mem.set[id][i].spent

\* A vote under the allowance that has yet to be recorded, and what it weighs.
Casting(id, i) ==
  op.todo \in { <<"chain">>, <<"set", "chain">> }
    /\ IsVote(op.record, id, i)
Due(id, i) == IF Casting(id, i) THEN op.record.weight ELSE 0

\* Memory is never behind the file, and neither is behind the log: what a vote
\* weighs is spent in memory before it is on file, and on file before it is recorded.
Ledger(id, i) ==
  /\ i \in DOMAIN mem.set[id] => mem.set[id][i].spent <= mem.set[id][i].cap
  /\ i \in DOMAIN disk.set[id] => disk.set[id][i].spent <= disk.set[id][i].cap
  /\ i \in DOMAIN disk.set[id] =>
       i \in DOMAIN mem.set[id] /\ disk.set[id][i].spent <= mem.set[id][i].spent
  /\ VotesWeight(id, i) <= DiskSpent(id, i)
  /\ VotesWeight(id, i) + Due(id, i) <= MemSpent(id, i)
  /\ op.todo = <<"chain">> => VotesWeight(id, i) + Due(id, i) <= DiskSpent(id, i)
  /\ Votes(id, i) # {} => i \in DOMAIN disk.set[id]
  /\ Casting(id, i) =>
       i \in DOMAIN mem.set[id] /\ (op.todo = <<"chain">> => i \in DOMAIN disk.set[id])

\* As long as nothing failed, memory is not ahead of the log by more than the vote
\* in progress, and the file is behind memory only until it is saved.
Calm(id, i) ==
  crashes = 0 /\ failures = 0 =>
    /\ ~degraded /\ op.todo # <<"set">>
    /\ op.todo # <<"set", "chain">> => mem.set = disk.set
    /\ MemSpent(id, i) <= VotesWeight(id, i) + Due(id, i)

SpendInv ==
  /\ crashes \in Nat /\ failures \in Nat
  /\ \A id \in AllowanceIds, i \in Nat : Ledger(id, i) /\ Calm(id, i)

LEMMA TodosDiffer ==
  /\ <<>> # <<"set">> /\ <<>> # <<"chain">> /\ <<>> # <<"set", "chain">>
  /\ <<"set">> # <<"chain">> /\ <<"set">> # <<"set", "chain">>
  /\ <<"chain">> # <<"set", "chain">>
BY Len(<<>>) = 0, Len(<<"set">>) = 1, Len(<<"chain">>) = 1, Len(<<"set", "chain">>) = 2,
   <<"set">>[1] = "set", <<"chain">>[1] = "chain"

LEMMA VotesWeightIsNat ==
  ASSUME Typed, NEW id, NEW i PROVE VotesWeight(id, i) \in Nat
BY WeightsAreTotals, WeightIsNat DEF Typed

LEMMA SpentIsNat ==
  ASSUME Typed, NEW id \in AllowanceIds, NEW i \in Nat
  PROVE  /\ DiskSpent(id, i) \in Nat /\ MemSpent(id, i) \in Nat
         /\ i \in DOMAIN disk.set[id] => disk.set[id][i] \in Allowance
         /\ i \in DOMAIN mem.set[id] => mem.set[id][i] \in Allowance
<1>1. /\ i \in DOMAIN disk.set[id] => disk.set[id][i] \in Allowance
      /\ i \in DOMAIN mem.set[id] => mem.set[id][i] \in Allowance
  BY DEF Typed, Entries
<1> QED
  BY <1>1 DEF Allowance, DiskSpent, MemSpent

LEMMA DueIsNat ==
  ASSUME Typed, NEW id, NEW i PROVE Due(id, i) \in Nat
<1>1. Casting(id, i) => op.record \in Acts
  BY DEF Casting, Typed
<1> QED
  BY <1>1 DEF Due, Acts

\* A step that leaves the log alone leaves what its votes weigh alone.
LEMMA WeightStays ==
  ASSUME disk'.chain = disk.chain, NEW id, NEW i
  PROVE  VotesWeight(id, i)' = VotesWeight(id, i) /\ Votes(id, i)' = Votes(id, i)
BY DEF VotesWeight, Votes

\* The append adds the vote in progress.
LEMMA WeightGains ==
  ASSUME Typed, op.todo = <<"chain">>, DiskGains, NEW id, NEW i
  PROVE  /\ VotesWeight(id, i)' = VotesWeight(id, i) + Due(id, i)
         /\ Votes(id, i)' # {} => Votes(id, i) # {} \/ Casting(id, i)
         /\ disk'.set = disk.set
<1> DEFINE c == disk.chain
           r == op.record
<1>1. r \in Acts /\ c \in Seq(Acts)
  BY DEF Typed
<1>2. disk' = [set |-> disk.set, chain |-> Append(c, r)]
  BY DEF DiskGains, Typed
<1>3. PICK next : next = Append(c, r)
  OBVIOUS
<1>4. VotesWeight(id, i)' = Weight(next, id, i)
  <2>1. disk'.chain = next
    BY <1>2, <1>3
  <2>2. Shares(next, id, i)
          = [n \in DOMAIN next |-> IF n \in Votes(id, i)' THEN next[n].weight ELSE 0]
    BY <2>1 DEF Shares, Share, Votes, IsVote
  <2> QED
    BY <2>1, <2>2 DEF VotesWeight, Weight
<1>5. Share(r, id, i) = Due(id, i)
  BY DEF Share, Due, Casting, IsVote
<1>6. VotesWeight(id, i) = Weight(c, id, i)
  BY WeightsAreTotals
<1>7. Weight(next, id, i) = Weight(c, id, i) + Share(r, id, i)
  BY <1>1, <1>3, WeightGrows
<1>8. /\ DOMAIN Append(c, r) = DOMAIN c \cup {Len(c) + 1}
      /\ \A n \in DOMAIN c : Append(c, r)[n] = c[n]
      /\ Append(c, r)[Len(c) + 1] = r
  BY <1>1, AppendProperties
<1>9. Votes(id, i)' # {} => Votes(id, i) # {} \/ Casting(id, i)
  BY <1>2, <1>8 DEF Votes, Casting, IsVote
<1> QED
  BY <1>2, <1>4, <1>5, <1>6, <1>7, <1>9

\* An operation that starts: what it spends is the weight of what it will record.
LEMMA SpendStarts ==
  ASSUME RevInv, SpendInv, NEW set \in Entries, NEW record \in Acts,
         SaveThenTryToRecord(set, record),
         \A id \in AllowanceIds, i \in Nat :
           /\ i \in DOMAIN mem.set[id] => i \in DOMAIN set[id]
           /\ i \in DOMAIN set[id] =>
                /\ set[id][i].spent <= set[id][i].cap
                /\ set[id][i].spent = MemSpent(id, i) + Share(record, id, i)
           /\ IsVote(record, id, i) => i \in DOMAIN set[id],
         op.todo = <<>>
  PROVE  SpendInv'
<1>1. /\ mem' = [set |-> set, chain |-> mem.chain] /\ disk' = disk
      /\ op' = IF degraded THEN [todo |-> <<"set">>, record |-> None]
                           ELSE [todo |-> <<"set", "chain">>, record |-> record]
      /\ UNCHANGED << degraded, crashes, failures >>
  BY DEF SaveThenTryToRecord, SaveAndRecord, Save, Begin, RevInv, Typed, CheckNotDegraded
<1>2. ASSUME NEW id \in AllowanceIds, NEW i \in Nat PROVE Ledger(id, i)' /\ Calm(id, i)'
  <2>1. /\ VotesWeight(id, i)' = VotesWeight(id, i) /\ Votes(id, i)' = Votes(id, i)
        /\ DiskSpent(id, i)' = DiskSpent(id, i)
    BY <1>1, WeightStays DEF DiskSpent
  <2>2. /\ VotesWeight(id, i) \in Nat /\ DiskSpent(id, i) \in Nat /\ MemSpent(id, i) \in Nat
        /\ Share(record, id, i) \in Nat
    BY VotesWeightIsNat, SpentIsNat, ShareIsNat DEF RevInv
  <2>3. Ledger(id, i) /\ Calm(id, i)
    BY DEF SpendInv
  <2>4. Due(id, i) = 0 /\ ~Casting(id, i)
    BY TodosDiffer DEF Due, Casting
  <2>5. /\ MemSpent(id, i)' = IF i \notin DOMAIN set[id] THEN 0 ELSE set[id][i].spent
        /\ mem'.set[id] = set[id]
    BY <1>1 DEF MemSpent
  <2>6. /\ Casting(id, i)' => ~degraded /\ IsVote(record, id, i)
        /\ Due(id, i)' = IF degraded THEN 0 ELSE Share(record, id, i)
        /\ op'.todo # <<"chain">>
    BY <1>1, TodosDiffer DEF Casting, Due, IsVote, Share
  <2>7. MemSpent(id, i) + Share(record, id, i) = MemSpent(id, i)'
    <3>1. CASE i \in DOMAIN set[id]
      BY <2>5, <3>1
    <3>2. CASE i \notin DOMAIN set[id]
      <4>1. MemSpent(id, i) = 0 /\ MemSpent(id, i)' = 0 /\ ~IsVote(record, id, i)
        BY <2>5, <3>2 DEF MemSpent
      <4> QED
        BY <4>1 DEF Share
    <3> QED
      BY <3>1, <3>2
  <2>8. DiskSpent(id, i) <= MemSpent(id, i)
    BY <2>2, <2>3 DEF Ledger, DiskSpent, MemSpent
  <2>9. Ledger(id, i)'
    <3>1. /\ i \in DOMAIN mem'.set[id] => mem'.set[id][i].spent <= mem'.set[id][i].cap
          /\ Casting(id, i)' => i \in DOMAIN mem'.set[id] /\ op'.todo # <<"chain">>
      BY <2>5, <2>6
    <3>2. /\ i \in DOMAIN disk'.set[id] => disk'.set[id][i].spent <= disk'.set[id][i].cap
          /\ Votes(id, i)' # {} => i \in DOMAIN disk'.set[id]
          /\ VotesWeight(id, i)' <= DiskSpent(id, i)'
      BY <1>1, <2>1, <2>3 DEF Ledger
    <3>3. VotesWeight(id, i)' + Due(id, i)' <= MemSpent(id, i)'
      <4>1. VotesWeight(id, i) <= MemSpent(id, i)
        BY <2>2, <2>3, <2>4 DEF Ledger
      <4> QED
        BY <2>1, <2>2, <2>6, <2>7, <4>1
    <3>4. i \in DOMAIN disk'.set[id] =>
            i \in DOMAIN mem'.set[id] /\ disk'.set[id][i].spent <= mem'.set[id][i].spent
      <4> SUFFICES ASSUME i \in DOMAIN disk.set[id]
                   PROVE  i \in DOMAIN set[id] /\ disk.set[id][i].spent <= set[id][i].spent
        BY <1>1, <2>5
      <4>1. i \in DOMAIN set[id]
        BY <2>3 DEF Ledger
      <4>2. DiskSpent(id, i) = disk.set[id][i].spent /\ MemSpent(id, i)' = set[id][i].spent
        BY <2>5, <4>1 DEF DiskSpent
      <4> QED
        BY <2>2, <2>7, <2>8, <4>1, <4>2
    <3> QED
      BY <2>6, <3>1, <3>2, <3>3, <3>4 DEF Ledger
  <2>10. Calm(id, i)'
    <3> SUFFICES ASSUME crashes = 0, failures = 0
                 PROVE  /\ ~degraded' /\ op'.todo = <<"set", "chain">>
                        /\ MemSpent(id, i)' <= VotesWeight(id, i)' + Due(id, i)'
      BY <1>1, TodosDiffer DEF Calm
    <3>1. ~degraded /\ MemSpent(id, i) <= VotesWeight(id, i)
      BY <2>2, <2>3, <2>4 DEF Calm
    <3> QED
      BY <1>1, <2>1, <2>2, <2>6, <2>7, <3>1
  <2> QED
    BY <2>9, <2>10
<1> QED
  BY <1>1, <1>2 DEF SpendInv

LEMMA InitSpend == Init => SpendInv
<1> SUFFICES ASSUME Init PROVE SpendInv
  OBVIOUS
<1>1. /\ disk.chain = <<>> /\ op.todo = <<>> /\ mem = disk
      /\ crashes = 0 /\ failures = 0 /\ degraded = FALSE
      /\ \A id \in AllowanceIds, i \in Nat : i \notin DOMAIN disk.set[id]
  BY DEF Init, InitLog, Idle, Unissued
<1>2. ASSUME NEW id \in AllowanceIds, NEW i \in Nat PROVE Ledger(id, i) /\ Calm(id, i)
  <2>1. VotesWeight(id, i) = 0
    <3>1. <<>> \in Seq(Acts)
      OBVIOUS
    <3>2. Weight(<<>>, id, i) = 0
      BY <3>1, WeightIsNat
    <3> QED
      BY <1>1, <3>2, WeightsAreTotals
  <2>2. /\ Votes(id, i) = {} /\ ~Casting(id, i) /\ Due(id, i) = 0
        /\ DiskSpent(id, i) = 0 /\ MemSpent(id, i) = 0
    BY <1>1, TodosDiffer DEF Votes, Casting, Due, DiskSpent, MemSpent
  <2> QED
    BY <1>1, <2>1, <2>2, TodosDiffer DEF Ledger, Calm
<1> QED
  BY <1>1, <1>2 DEF SpendInv

LEMMA IssueSpends ==
  ASSUME RevInv, SpendInv, NEW n \in NewAllowances, IssueAllowance(n)
  PROVE  SpendInv'
<1> DEFINE record == Act("allowance.issue", n.id, Issue(n.id) + 1, n.principal)
           set == [mem.set EXCEPT ![n.id] = Append(@, Fresh(n))]
<1>0. mem.set \in Entries
  BY DEF RevInv, Typed
<1>1. /\ Fresh(n) \in Allowance /\ n.id \in AllowanceIds /\ n.principal \in Principals
      /\ Fresh(n).spent = 0
  BY FranchiseInputs DEF IssueAllowance, Named, Allowance, Fresh
<1>2. /\ set \in Entries /\ Issue(n.id) \in Nat
      /\ \A j \in AllowanceIds : j # n.id => set[j] = mem.set[j]
      /\ DOMAIN set[n.id] = DOMAIN mem.set[n.id] \cup {Issue(n.id) + 1}
      /\ \A k \in DOMAIN mem.set[n.id] : set[n.id][k] = mem.set[n.id][k]
      /\ set[n.id][Issue(n.id) + 1] = Fresh(n) /\ Issue(n.id) + 1 \notin DOMAIN mem.set[n.id]
  BY <1>0, <1>1, IssueMore
<1>3. record \in Acts
  BY <1>1, <1>2 DEF Act, Acts
<1>4. \A id, i : ~IsVote(record, id, i) /\ Share(record, id, i) = 0
  BY DEF Act, IsVote, IsOf, Share
<1>5. SaveThenTryToRecord(set, record) /\ op.todo = <<>>
  BY DEF IssueAllowance, Free
<1> HIDE DEF set, record
<1>6. ASSUME NEW id \in AllowanceIds, NEW i \in Nat
      PROVE  /\ i \in DOMAIN mem.set[id] => i \in DOMAIN set[id]
             /\ i \in DOMAIN set[id] =>
                  /\ set[id][i].spent <= set[id][i].cap
                  /\ set[id][i].spent = MemSpent(id, i) + Share(record, id, i)
  <2>1. CASE i \in DOMAIN mem.set[id]
    <3>1. i \in DOMAIN set[id] /\ set[id][i] = mem.set[id][i]
      BY <1>2, <2>1
    <3>2. MemSpent(id, i) \in Nat /\ mem.set[id][i].spent = MemSpent(id, i)
      BY <2>1, SpentIsNat DEF RevInv, MemSpent
    <3> QED
      BY <1>4, <2>1, <3>1, <3>2 DEF SpendInv, Ledger
  <2>2. CASE i \notin DOMAIN mem.set[id] /\ i \in DOMAIN set[id]
    <3>1. set[id][i] = Fresh(n) /\ MemSpent(id, i) = 0
      BY <1>2, <2>2 DEF MemSpent
    <3>2. Fresh(n).cap \in Nat
      BY <1>1 DEF Allowance
    <3> QED
      BY <1>1, <1>4, <2>2, <3>1, <3>2
  <2> QED
    BY <2>1, <2>2
<1> QED
  BY <1>2, <1>3, <1>4, <1>5, <1>6, SpendStarts

LEMMA VoteSpends ==
  ASSUME RevInv, SpendInv, NEW id \in AllowanceIds, NEW class \in Classes,
         NEW weight \in Weights, NEW now \in Instants, CastVote(id, class, weight, now)
  PROVE  SpendInv'
<1> DEFINE a == InForce(id)
           record == Vote(id, Issue(id), a, weight)
           set == WithInForce(id, Spend(a, weight))
<1>1. /\ a \in Allowance /\ weight \in Nat /\ weight <= Remaining(a)
      /\ Issue(id) \in DOMAIN mem.set[id] /\ Issue(id) \in Nat /\ a = mem.set[id][Issue(id)]
  BY FranchiseInputs, ChangeInForce DEF CastVote, CanCast, RevInv, Typed
<1>2. /\ Spend(a, weight) \in Allowance /\ Spend(a, weight).spent = a.spent + weight
      /\ Spend(a, weight).cap = a.cap
  BY <1>1 DEF Spend, Allowance
<1>3. /\ set \in Entries
      /\ \A j \in AllowanceIds : DOMAIN set[j] = DOMAIN mem.set[j]
      /\ \A j \in AllowanceIds : \A k \in DOMAIN mem.set[j] :
           set[j][k] = IF j = id /\ k = Issue(id) THEN Spend(a, weight) ELSE mem.set[j][k]
  BY <1>2, ChangeInForce DEF CastVote, RevInv, Typed
<1>4. record \in Acts
  <2>1. a.principal \in Principals /\ a.agent \in Agents
    BY <1>1 DEF Allowance
  <2> QED
    BY <1>1, <2>1 DEF Vote, Acts
<1>5. \A j, i : /\ IsVote(record, j, i) => j = id /\ i = Issue(id)
               /\ Share(record, j, i) = IF j = id /\ i = Issue(id) THEN weight ELSE 0
  BY DEF Vote, IsVote, IsOf, Share
<1>6. SaveThenTryToRecord(set, record) /\ op.todo = <<>>
  BY DEF CastVote, Free
<1>7. a.spent \in Nat /\ a.cap \in Nat /\ a.spent <= a.cap
  BY <1>1 DEF Allowance, SpendInv, Ledger
<1>8. a.spent + weight <= a.cap
  BY <1>1, <1>7 DEF Remaining
<1> HIDE DEF set, record, a
<1>9. ASSUME NEW j \in AllowanceIds, NEW i \in Nat
      PROVE  /\ i \in DOMAIN mem.set[j] => i \in DOMAIN set[j]
             /\ i \in DOMAIN set[j] =>
                  /\ set[j][i].spent <= set[j][i].cap
                  /\ set[j][i].spent = MemSpent(j, i) + Share(record, j, i)
             /\ IsVote(record, j, i) => i \in DOMAIN set[j]
  <2>1. CASE j = id /\ i = Issue(id)
    <3>1. set[j][i] = Spend(a, weight) /\ MemSpent(j, i) = a.spent /\ i \in DOMAIN set[j]
      BY <1>1, <1>3, <2>1 DEF MemSpent
    <3> QED
      BY <1>2, <1>5, <1>8, <2>1, <3>1
  <2>2. CASE ~(j = id /\ i = Issue(id)) /\ i \in DOMAIN mem.set[j]
    <3>1. set[j][i] = mem.set[j][i] /\ i \in DOMAIN set[j]
      BY <1>3, <2>2
    <3>2. MemSpent(j, i) \in Nat /\ mem.set[j][i].spent = MemSpent(j, i)
      BY <2>2, SpentIsNat DEF RevInv, MemSpent
    <3>3. Share(record, j, i) = 0 /\ ~IsVote(record, j, i)
      BY <1>5, <2>2
    <3> QED
      BY <2>2, <3>1, <3>2, <3>3 DEF SpendInv, Ledger
  <2>3. CASE i \notin DOMAIN mem.set[j]
    BY <1>1, <1>3, <1>5, <2>3
  <2> QED
    BY <2>1, <2>2, <2>3
<1> QED
  BY <1>3, <1>4, <1>6, <1>9, SpendStarts

LEMMA RevokeSpends ==
  ASSUME RevInv, SpendInv, NEW id \in AllowanceIds, RevokeAllowance(id)
  PROVE  SpendInv'
<1> DEFINE a == InForce(id)
           gone == [a EXCEPT !.revoked = TRUE]
           record == Act("allowance.revoke", id, Issue(id), a.principal)
           set == WithInForce(id, gone)
<1>1. /\ a \in Allowance /\ Issue(id) \in DOMAIN mem.set[id] /\ Issue(id) \in Nat
      /\ a = mem.set[id][Issue(id)]
  BY ChangeInForce DEF RevokeAllowance, RevInv, Typed
<1>2. gone \in Allowance /\ gone.spent = a.spent /\ gone.cap = a.cap
  BY <1>1 DEF Allowance
<1>3. SaveThenTryToRecord(set, record) /\ op.todo = <<>>
  BY DEF RevokeAllowance, Free
<1> HIDE DEF gone
<1>4. /\ set \in Entries
      /\ \A j \in AllowanceIds : DOMAIN set[j] = DOMAIN mem.set[j]
      /\ \A j \in AllowanceIds : \A k \in DOMAIN mem.set[j] :
           set[j][k] = IF j = id /\ k = Issue(id) THEN gone ELSE mem.set[j][k]
  BY <1>2, ChangeInForce DEF RevokeAllowance, RevInv, Typed
<1>5. record \in Acts
  <2>1. a.principal \in Principals
    BY <1>1 DEF Allowance
  <2> QED
    BY <1>1, <2>1 DEF Act, Acts
<1>6. \A j, i : ~IsVote(record, j, i) /\ Share(record, j, i) = 0
  BY DEF Act, IsVote, IsOf, Share
<1> HIDE DEF set, record, a
<1>7. ASSUME NEW j \in AllowanceIds, NEW i \in Nat
      PROVE  /\ i \in DOMAIN mem.set[j] => i \in DOMAIN set[j]
             /\ i \in DOMAIN set[j] =>
                  /\ set[j][i].spent <= set[j][i].cap
                  /\ set[j][i].spent = MemSpent(j, i) + Share(record, j, i)
  <2> SUFFICES ASSUME i \in DOMAIN mem.set[j]
               PROVE  /\ set[j][i].spent <= set[j][i].cap
                      /\ set[j][i].spent = MemSpent(j, i) + Share(record, j, i)
    BY <1>4
  <2>1. set[j][i].spent = mem.set[j][i].spent /\ set[j][i].cap = mem.set[j][i].cap
    BY <1>1, <1>2, <1>4
  <2>2. MemSpent(j, i) \in Nat /\ mem.set[j][i].spent = MemSpent(j, i)
    BY SpentIsNat DEF RevInv, MemSpent
  <2> QED
    BY <1>6, <2>1, <2>2 DEF SpendInv, Ledger
<1> QED
  BY <1>3, <1>4, <1>5, <1>6, <1>7, SpendStarts
-----------------------------------------------------------------------------
\* What an interrupted write leaves: the vote in progress may be on record, and
\* then what it weighs is on file.
LEMMA InterruptedSpends ==
  ASSUME RevInv, SpendInv, op.todo # <<>>, Interrupted, NEW id \in AllowanceIds, NEW i \in Nat
  PROVE  /\ disk'.set = disk.set
         /\ VotesWeight(id, i)' \in Nat /\ VotesWeight(id, i)' <= DiskSpent(id, i)
         /\ Votes(id, i)' # {} => i \in DOMAIN disk.set[id]
<1>1. VotesWeight(id, i) \in Nat /\ Due(id, i) \in Nat /\ Ledger(id, i)
  BY VotesWeightIsNat, DueIsNat DEF RevInv, SpendInv
<1>2. CASE UNCHANGED disk
  BY <1>1, <1>2, WeightStays DEF Ledger
<1>3. CASE Writing("chain") /\ DiskGains
  <2>1. op.todo = <<"chain">>
    BY <1>3, Head(<<"set">>) = "set", Head(<<"set", "chain">>) = "set"
    DEF Writing, RevInv, Typed, Plans
  <2>2. /\ VotesWeight(id, i)' = VotesWeight(id, i) + Due(id, i) /\ disk'.set = disk.set
        /\ Votes(id, i)' # {} => Votes(id, i) # {} \/ Casting(id, i)
    BY <1>3, <2>1, WeightGains DEF RevInv
  <2> QED
    BY <1>1, <2>1, <2>2 DEF Ledger
<1> QED
  BY <1>2, <1>3 DEF Interrupted

\* No operation in progress, after a failure or a crash.
LEMMA SpendIdle ==
  ASSUME RevInv, SpendInv, op' = Idle, disk'.set = disk.set,
         mem'.set = mem.set \/ mem'.set = disk.set,
         crashes' \in Nat /\ failures' \in Nat /\ ~(crashes' = 0 /\ failures' = 0),
         \A id \in AllowanceIds, i \in Nat :
           /\ VotesWeight(id, i)' \in Nat /\ VotesWeight(id, i)' <= DiskSpent(id, i)
           /\ Votes(id, i)' # {} => i \in DOMAIN disk.set[id]
  PROVE  SpendInv'
<1>1. ASSUME NEW id \in AllowanceIds, NEW i \in Nat PROVE Ledger(id, i)' /\ Calm(id, i)'
  <2>1. op'.todo = <<>> /\ ~Casting(id, i)' /\ Due(id, i)' = 0
    BY TodosDiffer DEF Idle, Casting, Due
  <2>2. /\ Ledger(id, i) /\ DiskSpent(id, i)' = DiskSpent(id, i) /\ DiskSpent(id, i) \in Nat
        /\ MemSpent(id, i) \in Nat
        /\ MemSpent(id, i)' = MemSpent(id, i) \/ MemSpent(id, i)' = DiskSpent(id, i)
    BY SpentIsNat DEF SpendInv, DiskSpent, MemSpent, RevInv
  <2>3. DiskSpent(id, i) <= MemSpent(id, i)
    BY <2>2 DEF Ledger, DiskSpent, MemSpent
  <2>4. VotesWeight(id, i)' <= MemSpent(id, i)'
    BY <2>2, <2>3
  <2>5. VotesWeight(id, i)' + Due(id, i)' <= MemSpent(id, i)'
    BY <2>1, <2>4
  <2>6. i \in DOMAIN disk.set[id] => disk.set[id][i].spent \in Nat
    BY SpentIsNat DEF RevInv, Allowance
  <2>7. /\ i \in DOMAIN mem'.set[id] => mem'.set[id][i].spent <= mem'.set[id][i].cap
        /\ i \in DOMAIN disk'.set[id] => disk'.set[id][i].spent <= disk'.set[id][i].cap
        /\ i \in DOMAIN disk'.set[id] =>
             i \in DOMAIN mem'.set[id] /\ disk'.set[id][i].spent <= mem'.set[id][i].spent
    BY <2>2, <2>6 DEF Ledger
  <2>8. Ledger(id, i)'
    BY <2>1, <2>2, <2>5, <2>7, TodosDiffer DEF Ledger
  <2>9. Calm(id, i)'
    BY DEF Calm
  <2> QED
    BY <2>8, <2>9
<1> QED
  BY <1>1 DEF SpendInv

LEMMA SaveSetSpends ==
  ASSUME RevInv, SpendInv, SaveSet PROVE SpendInv'
<1>1. op.todo = <<"set">> \/ op.todo = <<"set", "chain">>
  BY Head(<<"chain">>) = "chain" DEF SaveSet, Writing, RevInv, Typed, Plans
<1>2. /\ disk' = [set |-> mem.set, chain |-> disk.chain] /\ mem' = mem
      /\ UNCHANGED << degraded, crashes, failures >>
  BY DEF SaveSet, RevInv, Typed
<1>3. op' = IF op.todo = <<"set">> THEN Idle ELSE [todo |-> <<"chain">>, record |-> op.record]
  <2>1. CASE op.todo = <<"set">>
    BY <2>1, Len(<<"set">>) = 1 DEF SaveSet, Done
  <2>2. CASE op.todo = <<"set", "chain">>
    BY <2>2, TodosDiffer, Len(<<"set", "chain">>) = 2, Tail(<<"set", "chain">>) = <<"chain">>
    DEF SaveSet, Done, RevInv, Typed
  <2> QED
    BY <1>1, <2>1, <2>2
<1>4. ASSUME NEW id \in AllowanceIds, NEW i \in Nat PROVE Ledger(id, i)' /\ Calm(id, i)'
  <2>1. VotesWeight(id, i)' = VotesWeight(id, i) /\ Votes(id, i)' = Votes(id, i)
    BY <1>2, WeightStays
  <2>2. DiskSpent(id, i)' = MemSpent(id, i) /\ MemSpent(id, i)' = MemSpent(id, i)
    BY <1>2 DEF DiskSpent, MemSpent
  <2>3. Due(id, i)' = Due(id, i) /\ Casting(id, i)' = Casting(id, i)
    <3>1. CASE op.todo = <<"set">>
      BY <1>3, <3>1, TodosDiffer DEF Idle, Due, Casting
    <3>2. CASE op.todo = <<"set", "chain">>
      BY <1>3, <3>2, TodosDiffer DEF Due, Casting
    <3> QED
      BY <1>1, <3>1, <3>2
  <2>4. /\ Ledger(id, i) /\ Calm(id, i) /\ VotesWeight(id, i) \in Nat /\ Due(id, i) \in Nat
        /\ MemSpent(id, i) \in Nat /\ DiskSpent(id, i) \in Nat
    BY VotesWeightIsNat, DueIsNat, SpentIsNat DEF RevInv, SpendInv
  <2>5. VotesWeight(id, i) <= MemSpent(id, i)
    BY <2>4 DEF Ledger
  <2>6. i \in DOMAIN mem.set[id] => mem.set[id][i].spent \in Nat
    BY SpentIsNat DEF RevInv, Allowance
  <2>7. Casting(id, i) => i \in DOMAIN mem.set[id]
    BY <2>4 DEF Ledger
  <2>8. Votes(id, i) # {} => i \in DOMAIN mem.set[id]
    BY <2>4 DEF Ledger
  <2>9. VotesWeight(id, i) + Due(id, i) <= MemSpent(id, i)
    BY <2>4 DEF Ledger
  <2>10. i \in DOMAIN mem.set[id] => mem.set[id][i].spent <= mem.set[id][i].cap
    BY <2>4 DEF Ledger
  <2>11. Ledger(id, i)'
    BY <1>2, <2>1, <2>2, <2>3, <2>5, <2>6, <2>7, <2>8, <2>9, <2>10 DEF Ledger
  <2>12. Calm(id, i)'
    <3> SUFFICES ASSUME crashes = 0, failures = 0
                 PROVE  /\ ~degraded' /\ op'.todo # <<"set">> /\ mem'.set = disk'.set
                        /\ MemSpent(id, i)' <= VotesWeight(id, i)' + Due(id, i)'
      BY <1>2 DEF Calm
    <3>1. ~degraded /\ op.todo # <<"set">> /\ MemSpent(id, i) <= VotesWeight(id, i) + Due(id, i)
      BY <2>4 DEF Calm
    <3> QED
      BY <1>2, <1>3, <2>1, <2>2, <2>3, <3>1, TodosDiffer
  <2> QED
    BY <2>11, <2>12
<1> QED
  BY <1>2, <1>4 DEF SpendInv

LEMMA AppendRecordSpends ==
  ASSUME RevInv, SpendInv, AppendRecord PROVE SpendInv'
<1>1. op.todo = <<"chain">>
  BY Head(<<"set">>) = "set", Head(<<"set", "chain">>) = "set"
  DEF AppendRecord, Writing, RevInv, Typed, Plans
<1>2. op' = Idle /\ UNCHANGED << degraded, crashes, failures >> /\ DiskGains
  BY <1>1, Len(<<"chain">>) = 1 DEF AppendRecord, Done
<1>3. mem'.set = mem.set
  BY DEF AppendRecord, MemGains, RevInv, Typed
<1>4. ASSUME NEW id \in AllowanceIds, NEW i \in Nat PROVE Ledger(id, i)' /\ Calm(id, i)'
  <2>1. /\ VotesWeight(id, i)' = VotesWeight(id, i) + Due(id, i) /\ disk'.set = disk.set
        /\ Votes(id, i)' # {} => Votes(id, i) # {} \/ Casting(id, i)
    BY <1>1, <1>2, WeightGains DEF RevInv
  <2>2. DiskSpent(id, i)' = DiskSpent(id, i) /\ MemSpent(id, i)' = MemSpent(id, i)
    BY <1>3, <2>1 DEF DiskSpent, MemSpent
  <2>3. op'.todo = <<>> /\ ~Casting(id, i)' /\ Due(id, i)' = 0
    BY <1>2, TodosDiffer DEF Idle, Casting, Due
  <2>4. /\ Ledger(id, i) /\ Calm(id, i) /\ VotesWeight(id, i) \in Nat /\ Due(id, i) \in Nat
    BY VotesWeightIsNat, DueIsNat DEF RevInv, SpendInv
  <2>5. /\ VotesWeight(id, i)' <= DiskSpent(id, i)'
        /\ VotesWeight(id, i)' + Due(id, i)' <= MemSpent(id, i)'
    BY <1>1, <2>1, <2>2, <2>3, <2>4 DEF Ledger
  <2>6. Ledger(id, i)'
    BY <1>1, <1>3, <2>1, <2>3, <2>4, <2>5, TodosDiffer DEF Ledger
  <2>7. Calm(id, i)'
    <3> SUFFICES ASSUME crashes = 0, failures = 0
                 PROVE  /\ ~degraded' /\ op'.todo # <<"set">> /\ mem'.set = disk'.set
                        /\ MemSpent(id, i)' <= VotesWeight(id, i)' + Due(id, i)'
      BY <1>2 DEF Calm
    <3>1. ~degraded /\ mem.set = disk.set /\ MemSpent(id, i) <= VotesWeight(id, i) + Due(id, i)
      BY <1>1, <2>4, TodosDiffer DEF Calm
    <3> QED
      BY <1>2, <1>3, <2>1, <2>2, <2>3, <2>4, <3>1, TodosDiffer
  <2> QED
    BY <2>6, <2>7
<1> QED
  BY <1>2, <1>4 DEF SpendInv

LEMMA WriteFailsSpends ==
  ASSUME RevInv, SpendInv, WriteFails PROVE SpendInv'
<1>1. /\ op' = Idle /\ Interrupted /\ op.todo # <<>>
      /\ crashes' = crashes /\ failures' = failures + 1
  BY DEF WriteFails, Writing
<1>2. mem'.set = mem.set
  BY DEF WriteFails, MemGains, RevInv, Typed
<1>3. crashes' \in Nat /\ failures' \in Nat /\ failures' # 0
  BY <1>1 DEF SpendInv
<1>4. disk'.set = disk.set
  BY <1>1 DEF Interrupted, DiskGains, RevInv, Typed
<1> QED
  BY <1>1, <1>2, <1>3, <1>4, InterruptedSpends, SpendIdle

LEMMA CrashSpends ==
  ASSUME RevInv, SpendInv, Crash PROVE SpendInv'
<1>1. /\ op' = Idle /\ Interrupted /\ op.todo # <<>> /\ mem' = disk'
      /\ crashes' = crashes + 1 /\ failures' = failures
  BY DEF Crash, Ends
<1>2. crashes' \in Nat /\ failures' \in Nat /\ crashes' # 0
  BY <1>1 DEF SpendInv
<1>3. disk'.set = disk.set
  BY <1>1 DEF Interrupted, DiskGains, RevInv, Typed
<1> QED
  BY <1>1, <1>2, <1>3, InterruptedSpends, SpendIdle

LEMMA ExitSpends ==
  ASSUME RevInv, SpendInv, Exit PROVE SpendInv'
<1>1. /\ op.todo = <<>> /\ op' = Idle /\ mem' = disk /\ disk' = disk /\ degraded' = FALSE
      /\ UNCHANGED << crashes, failures >>
  BY DEF Exit, Free, Ends
<1>2. ASSUME NEW id \in AllowanceIds, NEW i \in Nat PROVE Ledger(id, i)' /\ Calm(id, i)'
  <2>1. VotesWeight(id, i)' = VotesWeight(id, i) /\ Votes(id, i)' = Votes(id, i)
    BY <1>1, WeightStays
  <2>2. DiskSpent(id, i)' = DiskSpent(id, i) /\ MemSpent(id, i)' = DiskSpent(id, i)
    BY <1>1 DEF DiskSpent, MemSpent
  <2>3. op'.todo = <<>> /\ ~Casting(id, i)' /\ Due(id, i)' = 0
    BY <1>1, TodosDiffer DEF Idle, Casting, Due
  <2>4. /\ Ledger(id, i) /\ Calm(id, i) /\ VotesWeight(id, i) \in Nat /\ Due(id, i) = 0
        /\ DiskSpent(id, i) \in Nat
    BY <1>1, VotesWeightIsNat, SpentIsNat, TodosDiffer DEF RevInv, SpendInv, Due, Casting
  <2>5. i \in DOMAIN disk.set[id] => disk.set[id][i].spent \in Nat
    BY SpentIsNat DEF RevInv, Allowance
  <2>6. VotesWeight(id, i) + Due(id, i)' <= DiskSpent(id, i)
    BY <2>3, <2>4 DEF Ledger
  <2>7. Ledger(id, i)'
    BY <1>1, <2>1, <2>2, <2>3, <2>4, <2>5, <2>6, TodosDiffer DEF Ledger
  <2>8. Calm(id, i)'
    <3> SUFFICES ASSUME crashes = 0, failures = 0
                 PROVE  MemSpent(id, i)' <= VotesWeight(id, i)' + Due(id, i)'
      BY <1>1, <2>3, TodosDiffer DEF Calm
    <3>1. mem.set = disk.set /\ MemSpent(id, i) <= VotesWeight(id, i) + Due(id, i)
      BY <1>1, <2>4, TodosDiffer DEF Calm
    <3> QED
      BY <2>1, <2>2, <2>3, <2>4, <3>1 DEF MemSpent, DiskSpent
  <2> QED
    BY <2>7, <2>8
<1> QED
  BY <1>1, <1>2 DEF SpendInv

LEMMA QuietSpends ==
  ASSUME RevInv, SpendInv, Restart \/ UNCHANGED logVars PROVE SpendInv'
<1>1. UNCHANGED << degraded, mem, disk, op, crashes, failures >>
  BY DEF Restart, logVars
<1>2. ASSUME NEW id \in AllowanceIds, NEW i \in Nat PROVE Ledger(id, i)' /\ Calm(id, i)'
  <2>1. VotesWeight(id, i)' = VotesWeight(id, i) /\ Votes(id, i)' = Votes(id, i)
    BY <1>1, WeightStays
  <2>2. /\ DiskSpent(id, i)' = DiskSpent(id, i) /\ MemSpent(id, i)' = MemSpent(id, i)
        /\ Casting(id, i)' = Casting(id, i) /\ Due(id, i)' = Due(id, i)
    BY <1>1 DEF DiskSpent, MemSpent, Casting, Due
  <2> QED
    BY <1>1, <2>1, <2>2 DEF SpendInv, Ledger, Calm
<1> QED
  BY <1>1, <1>2 DEF SpendInv

THEOREM SpendInvStep == RevInv /\ SpendInv /\ [Next]_logVars => SpendInv'
<1> SUFFICES ASSUME RevInv, SpendInv, [Next]_logVars PROVE SpendInv'
  OBVIOUS
<1>1. CASE \E n \in NewAllowances : IssueAllowance(n)
  BY <1>1, IssueSpends
<1>2. CASE \E id \in AllowanceIds, class \in Classes, weight \in Weights, now \in Instants :
             CastVote(id, class, weight, now)
  BY <1>2, VoteSpends
<1>3. CASE \E id \in AllowanceIds : RevokeAllowance(id)
  BY <1>3, RevokeSpends
<1>4. CASE LogSteps
  BY <1>4, SaveSetSpends, AppendRecordSpends, WriteFailsSpends, ExitSpends, CrashSpends,
     QuietSpends DEF LogSteps
<1>5. CASE UNCHANGED logVars
  BY <1>5, QuietSpends
<1> QED BY <1>1, <1>2, <1>3, <1>4, <1>5 DEF Next

\* No delegation spends more than its cap, the votes recorded under one weigh
\* together no more than it has spent on disk, and exactly that as long as
\* nothing failed.
THEOREM SpendingStaysCovered == Spec => []SpendingMatchesVotes
<1>1. RevInv /\ SpendInv => SpendingMatchesVotes
  <2> SUFFICES ASSUME RevInv, SpendInv, NEW id \in AllowanceIds, NEW i \in Issues
               PROVE  /\ \A store \in {mem, disk} : Issued(store, id, i) =>
                           store.set[id][i].spent <= store.set[id][i].cap
                      /\ Votes(id, i) # {} =>
                           Issued(disk, id, i) /\ VotesWeight(id, i) <= disk.set[id][i].spent
                      /\ Free /\ crashes = 0 /\ failures = 0 /\ Issued(disk, id, i)
                           => disk.set[id][i].spent <= VotesWeight(id, i)
    BY DEF SpendingMatchesVotes
  <2>0. i \in Nat
    BY FranchiseInputs DEF Issues
  <2>1. Ledger(id, i) /\ Calm(id, i) /\ VotesWeight(id, i) \in Nat
    BY <2>0, VotesWeightIsNat DEF SpendInv, RevInv
  <2>2. Votes(id, i) # {} => Issued(disk, id, i) /\ VotesWeight(id, i) <= disk.set[id][i].spent
    BY <2>1 DEF Ledger, DiskSpent, Issued
  <2>3. Free /\ crashes = 0 /\ failures = 0 /\ Issued(disk, id, i)
          => disk.set[id][i].spent <= VotesWeight(id, i)
    <3> SUFFICES ASSUME Free, crashes = 0, failures = 0, Issued(disk, id, i)
                 PROVE  disk.set[id][i].spent <= VotesWeight(id, i)
      OBVIOUS
    <3>1. op.todo = <<>> /\ Due(id, i) = 0
      BY TodosDiffer DEF Free, Due, Casting
    <3>2. mem.set = disk.set /\ MemSpent(id, i) <= VotesWeight(id, i) + Due(id, i)
      BY <2>1, <3>1, TodosDiffer DEF Calm
    <3> QED
      BY <2>1, <3>1, <3>2 DEF MemSpent, Issued
  <2> QED
    BY <2>1, <2>2, <2>3 DEF Ledger, Issued
<1>2. RevInv /\ SpendInv /\ [Next]_logVars => RevInv' /\ SpendInv'
  BY RevInvStep, SpendInvStep
<1> QED BY InitInv, InitSpend, <1>1, <1>2, PTL DEF Spec
=============================================================================
