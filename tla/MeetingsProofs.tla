---------------------------- MODULE MeetingsProofs ----------------------------
(***************************************************************************)
(* Only what a human was shown is ratified, for any meetings, visitors,    *)
(* crashes and failed writes: the hash is compared with the meeting as it  *)
(* is at that moment, and ratifying changes nothing the hash covers.       *)
(*                                                                         *)
(* And what the evidence says of ratifications is so: the save comes before*)
(* the record, memory never takes a ratification back, and the disk is     *)
(* never ahead of memory.                                                  *)
(*                                                                         *)
(* The verdict on the quorum stands, since nobody joins a closed meeting;  *)
(* and the minutes of a closed meeting quote what the log gained while it  *)
(* was open, since memory and disk have the same log for as long as any    *)
(* operation may start.                                                    *)
(***************************************************************************)
EXTENDS Meetings, SequenceTheorems, FiniteSetTheorems, TLAPS

Fields == {"min", "cls", "agenda", "state", "frozen", "opened", "attendance", "minutes",
           "decisions", "by"}

IsStore(set) ==
  /\ DOMAIN set = MeetingIds
  /\ \A id \in MeetingIds : set[id] # None => Fields \subseteq DOMAIN set[id]

\* Meetings have their fields, in memory and on disk, and what a ceremony shows
\* was seen.
ShownIsSeen ==
  /\ {"set", "chain"} \subseteq DOMAIN mem /\ {"set", "chain"} \subseteq DOMAIN disk
  /\ IsStore(mem.set) /\ IsStore(disk.set)
  /\ DOMAIN shown = MeetingIds
  /\ \A id \in MeetingIds : shown[id] # None => shown[id] \in seen

LEMMA InitShows == Init => ShownIsSeen
BY DEF Init, InitLog, ShownIsSeen, IsStore, NothingShown
-----------------------------------------------------------------------------
\* An operation that starts, and one meeting as it leaves it.
LEMMA BeginsOne ==
  ASSUME ShownIsSeen, NEW id \in MeetingIds, NEW m, Fields \subseteq DOMAIN m,
         NEW todo, NEW record, Begin([mem.set EXCEPT ![id] = m], todo, record),
         UNCHANGED << shown, seen >>
  PROVE  /\ ShownIsSeen' /\ mem'.set[id] = m
         /\ \A other \in MeetingIds \ {id} : mem'.set[other] = mem.set[other]
<1> DEFINE set == [mem.set EXCEPT ![id] = m]
<1>1. DOMAIN set = MeetingIds /\ set[id] = m /\ \A o \in MeetingIds \ {id} : set[o] = mem.set[o]
  BY DEF ShownIsSeen, IsStore
<1> HIDE DEF set
<1>2. IsStore(set)
  BY <1>1 DEF ShownIsSeen, IsStore
<1>3. mem'.set = set /\ {"set", "chain"} \subseteq DOMAIN mem' /\ disk' = disk
  BY DEF Begin, ShownIsSeen, set
<1>4. ShownIsSeen'
  BY <1>2, <1>3 DEF ShownIsSeen, IsStore
<1> QED
  BY <1>1, <1>3, <1>4

\* What the property says of one step.
AsSeen ==
  \A id \in MeetingIds :
    op'.todo # <<>> /\ op.todo = <<>> /\ mem'.set[id] # None /\ mem.set[id] # None
      /\ mem'.set[id].state = "ratified" /\ mem.set[id].state # "ratified"
      => Content(id, mem'.set[id]) \in seen

LEMMA ScheduleShows ==
  ASSUME ShownIsSeen, NEW id \in MeetingIds, NEW t \in Templates, Schedule(id, t)
  PROVE  ShownIsSeen' /\ AsSeen
<1> DEFINE m == [min |-> t.min, cls |-> t.cls, agenda |-> t.agenda, state |-> "scheduled",
                 frozen |-> None, opened |-> None, attendance |-> <<>>,
                 minutes |-> <<>>, decisions |-> <<>>, by |-> None]
<1>1. Begin([mem.set EXCEPT ![id] = m], <<"set">>, None) /\ UNCHANGED << shown, seen >>
  BY DEF Schedule, Save
<1>2. Fields \subseteq DOMAIN m /\ m.state = "scheduled"
  BY DEF Fields
<1> HIDE DEF m
<1>3. ShownIsSeen' /\ mem'.set[id] = m
      /\ \A other \in MeetingIds \ {id} : mem'.set[other] = mem.set[other]
  BY <1>1, <1>2, BeginsOne
<1> QED
  BY <1>2, <1>3 DEF AsSeen

LEMMA AdmitShows ==
  ASSUME ShownIsSeen, NEW id \in MeetingIds, NEW who \in Visitors, Admit(id, who)
  PROVE  ShownIsSeen' /\ AsSeen
<1> DEFINE m == [mem.set[id] EXCEPT !.attendance = Append(@, who)]
<1>1. /\ Begin([mem.set EXCEPT ![id] = m], <<"set">>, None) /\ UNCHANGED << shown, seen >>
      /\ mem.set[id] # None
  BY DEF Admit, Save, Known
<1>2. Fields \subseteq DOMAIN m /\ m.state = mem.set[id].state
  BY <1>1 DEF ShownIsSeen, IsStore, Fields
<1> HIDE DEF m
<1>3. ShownIsSeen' /\ mem'.set[id] = m
      /\ \A other \in MeetingIds \ {id} : mem'.set[other] = mem.set[other]
  BY <1>1, <1>2, BeginsOne
<1> QED
  BY <1>2, <1>3 DEF AsSeen

LEMMA OpenShows ==
  ASSUME ShownIsSeen, NEW id \in MeetingIds, Open(id)
  PROVE  ShownIsSeen' /\ AsSeen
<1> DEFINE m == [mem.set[id] EXCEPT !.frozen = mem.set[id].agenda, !.state = "in-progress",
                                    !.opened = Len(mem.chain)]
<1>1. /\ Begin([mem.set EXCEPT ![id] = m], <<"set">>, None) /\ UNCHANGED << shown, seen >>
      /\ mem.set[id] # None
  BY DEF Open, Save, Known
<1>2. Fields \subseteq DOMAIN m /\ m.state = "in-progress"
  BY <1>1 DEF ShownIsSeen, IsStore, Fields
<1> HIDE DEF m
<1>3. ShownIsSeen' /\ mem'.set[id] = m
      /\ \A other \in MeetingIds \ {id} : mem'.set[other] = mem.set[other]
  BY <1>1, <1>2, BeginsOne
<1> QED
  BY <1>2, <1>3 DEF AsSeen

LEMMA CloseShows ==
  ASSUME ShownIsSeen, NEW id \in MeetingIds, Close(id)
  PROVE  ShownIsSeen' /\ AsSeen
<1> DEFINE window == Window(mem.chain, OpenedAt(mem.set[id]))
           judged == IF IsQuorate(mem.set[id]) THEN "awaiting" ELSE "inquorate"
           m == [mem.set[id] EXCEPT
                   !.decisions = Decisions(OpenedAt(mem.set[id]), window),
                   !.minutes = Minutes(window), !.state = judged]
<1>1. /\ Begin([mem.set EXCEPT ![id] = m], <<"set">>, None) /\ UNCHANGED << shown, seen >>
      /\ mem.set[id] # None
  BY DEF Close, Save, Known
<1>2. judged # "ratified"
  OBVIOUS
<1> HIDE DEF window, judged
<1>3. Fields \subseteq DOMAIN m /\ m.state = judged
  BY <1>1 DEF ShownIsSeen, IsStore, Fields
<1> HIDE DEF m
<1>4. ShownIsSeen' /\ mem'.set[id] = m
      /\ \A other \in MeetingIds \ {id} : mem'.set[other] = mem.set[other]
  BY <1>1, <1>3, BeginsOne
<1> QED
  BY <1>2, <1>3, <1>4 DEF AsSeen
-----------------------------------------------------------------------------
\* The hash that is compared is of what is ratified: neither the signer nor the
\* state is part of it.
LEMMA RatifyShows ==
  ASSUME ShownIsSeen, NEW id \in MeetingIds, NEW who, Ratify(id, who)
  PROVE  ShownIsSeen' /\ AsSeen
<1> DEFINE m == [mem.set[id] EXCEPT !.by = who, !.state = "ratified"]
<1>1. /\ \E record : Begin([mem.set EXCEPT ![id] = m], <<"set", "chain">>, record)
      /\ UNCHANGED << shown, seen >>
      /\ mem.set[id] # None /\ shown[id] # None /\ shown[id] = Content(id, mem.set[id])
  BY DEF Ratify, SaveAndRecord, Known, SameHash
<1>2. /\ Fields \subseteq DOMAIN m
      /\ m.cls = mem.set[id].cls /\ m.frozen = mem.set[id].frozen
      /\ m.minutes = mem.set[id].minutes /\ m.decisions = mem.set[id].decisions
      /\ m.attendance = mem.set[id].attendance
  BY <1>1 DEF ShownIsSeen, IsStore, Fields
<1> HIDE DEF m
<1>3. ShownIsSeen' /\ mem'.set[id] = m
      /\ \A other \in MeetingIds \ {id} : mem'.set[other] = mem.set[other]
  BY <1>1, <1>2, BeginsOne
<1>4. Content(id, m) = Content(id, mem.set[id])
  BY <1>2 DEF Content, Attested
<1>5. Content(id, m) \in seen
  BY <1>1, <1>4 DEF ShownIsSeen
<1> QED
  BY <1>3, <1>5 DEF AsSeen
-----------------------------------------------------------------------------
\* The steps that start no operation, or one that leaves the meetings alone.
LEMMA CloseRefusedShows ==
  ASSUME ShownIsSeen, NEW id \in MeetingIds, CloseRefused(id)
  PROVE  ShownIsSeen' /\ AsSeen
<1> DEFINE window == Window(mem.chain, OpenedAt(mem.set[id]))
           kept == Decisions(OpenedAt(mem.set[id]), window)
           m == [mem.set[id] EXCEPT !.decisions = kept]
           set == [mem.set EXCEPT ![id] = m]
<1>1. mem' = [mem EXCEPT !.set = set] /\ UNCHANGED << disk, op, shown, seen >>
  BY DEF CloseRefused
<1>2. mem.set[id] # None
  BY DEF CloseRefused, Known
<1> HIDE DEF kept
<1>3. Fields \subseteq DOMAIN m
  BY <1>2 DEF ShownIsSeen, IsStore, Fields
<1> HIDE DEF m
<1>4. DOMAIN set = MeetingIds /\ set[id] = m /\ \A o \in MeetingIds \ {id} : set[o] = mem.set[o]
  BY DEF ShownIsSeen, IsStore
<1> HIDE DEF set
<1>5. IsStore(set)
  BY <1>3, <1>4 DEF ShownIsSeen, IsStore
<1>6. mem'.set = set /\ {"set", "chain"} \subseteq DOMAIN mem'
  BY <1>1 DEF ShownIsSeen
<1>7. ShownIsSeen'
  BY <1>1, <1>5, <1>6 DEF ShownIsSeen, IsStore
<1> QED
  BY <1>1, <1>7 DEF AsSeen

LEMMA ShowShows ==
  ASSUME ShownIsSeen, NEW id \in MeetingIds, Show(id)
  PROVE  ShownIsSeen' /\ AsSeen
<1>1. UNCHANGED << mem, disk, op >>
  BY DEF Show, logVars
<1>2. ShownIsSeen'
  BY <1>1 DEF Show, ShownIsSeen, IsStore
<1> QED
  BY <1>1, <1>2 DEF AsSeen

LEMMA RegisterShows ==
  ASSUME ShownIsSeen, NEW id \in MeetingIds, RegisterIntent(id)
  PROVE  ShownIsSeen' /\ AsSeen
<1>1. UNCHANGED << mem, disk, op, shown, seen >>
  BY DEF RegisterIntent, logVars
<1>2. ShownIsSeen'
  BY <1>1 DEF ShownIsSeen, IsStore
<1> QED
  BY <1>1, <1>2 DEF AsSeen

LEMMA OtherActionShows ==
  ASSUME ShownIsSeen, OtherAction
  PROVE  ShownIsSeen' /\ AsSeen
<1>1. /\ mem' = [mem EXCEPT !.set = mem.set]
      /\ UNCHANGED << disk, shown, seen >>
  BY DEF OtherAction, Record, Begin
<1>2. mem'.set = mem.set /\ {"set", "chain"} \subseteq DOMAIN mem'
  BY <1>1 DEF ShownIsSeen
<1>3. ShownIsSeen'
  BY <1>1, <1>2 DEF ShownIsSeen, IsStore
<1> QED
  BY <1>2, <1>3 DEF AsSeen

\* What the writes, the failures and the restarts do to memory and disk: a set
\* of meetings that is there afterwards was in one of the two before.
LEMMA LogKeeps ==
  ASSUME ShownIsSeen, LogSteps
  PROVE  /\ {"set", "chain"} \subseteq DOMAIN mem' /\ mem'.set \in {mem.set, disk.set}
         /\ {"set", "chain"} \subseteq DOMAIN disk' /\ disk'.set \in {mem.set, disk.set}
         /\ op.todo # <<>> \/ op'.todo = <<>>
<1>1. CASE SaveSet
  BY <1>1 DEF SaveSet, Writing, ShownIsSeen
<1>2. CASE AppendRecord
  BY <1>2 DEF AppendRecord, Writing, MemGains, DiskGains, ShownIsSeen
<1>3. CASE WriteFails
  BY <1>3 DEF WriteFails, Writing, MemGains, Interrupted, DiskGains, Idle, ShownIsSeen
<1>4. CASE Exit
  BY <1>4 DEF Exit, Ends, Idle, ShownIsSeen
<1>5. CASE Crash
  BY <1>5 DEF Crash, Ends, Interrupted, DiskGains, Idle, ShownIsSeen
<1>6. CASE Restart
  <2>1. UNCHANGED << mem, disk, op >>
    BY <1>6 DEF Restart
  <2> QED
    BY <2>1 DEF ShownIsSeen
<1> QED
  BY <1>1, <1>2, <1>3, <1>4, <1>5, <1>6 DEF LogSteps

LEMMA LogShows ==
  ASSUME ShownIsSeen, LogStep
  PROVE  ShownIsSeen' /\ AsSeen
<1>1. /\ {"set", "chain"} \subseteq DOMAIN mem' /\ mem'.set \in {mem.set, disk.set}
      /\ {"set", "chain"} \subseteq DOMAIN disk' /\ disk'.set \in {mem.set, disk.set}
      /\ op.todo # <<>> \/ op'.todo = <<>>
  BY LogKeeps DEF LogStep
<1>2. shown' \in {shown, NothingShown} /\ seen' = seen
  BY DEF LogStep
<1>3. (IsStore(mem.set))' /\ (IsStore(disk.set))'
  BY <1>1 DEF ShownIsSeen, IsStore
<1>4. ShownIsSeen'
  BY <1>1, <1>2, <1>3 DEF ShownIsSeen, NothingShown
<1> QED
  BY <1>1, <1>4 DEF AsSeen
-----------------------------------------------------------------------------
LEMMA StepShows ==
  ASSUME ShownIsSeen, [Next]_vars
  PROVE  ShownIsSeen' /\ [AsSeen]_vars
<1>1. CASE UNCHANGED vars
  BY <1>1 DEF vars, logVars, ShownIsSeen, IsStore
<1>2. CASE \E id \in MeetingIds, t \in Templates : Schedule(id, t)
  BY <1>2, ScheduleShows
<1>3. CASE \E id \in MeetingIds, who \in Visitors : Admit(id, who)
  BY <1>3, AdmitShows
<1>4. CASE \E id \in MeetingIds : Open(id)
  BY <1>4, OpenShows
<1>5. CASE \E id \in MeetingIds : Close(id)
  BY <1>5, CloseShows
<1>6. CASE \E id \in MeetingIds : CloseRefused(id)
  BY <1>6, CloseRefusedShows
<1>7. CASE \E id \in MeetingIds : Show(id)
  BY <1>7, ShowShows
<1>8. CASE \E id \in MeetingIds, who \in Humans \cup {Blank} : Ratify(id, who)
  BY <1>8, RatifyShows
<1>9. CASE \E id \in MeetingIds : RegisterIntent(id)
  BY <1>9, RegisterShows
<1>10. CASE OtherAction
  BY <1>10, OtherActionShows
<1>11. CASE LogStep
  BY <1>11, LogShows
<1> QED
  BY <1>1, <1>2, <1>3, <1>4, <1>5, <1>6, <1>7, <1>8, <1>9, <1>10, <1>11 DEF Next

\* A meeting becomes ratified only with content that a ratification ceremony
\* displayed: the hash rule of ratify_meeting in backend.rs, through every
\* crash, failed write and refused close.
THEOREM OnlyWhatWasShown == Spec => RatifiedAsSeen
<1>1. ShownIsSeen /\ [Next]_vars => ShownIsSeen' /\ [AsSeen]_vars
  BY StepShows
<1>2. [][AsSeen]_vars => RatifiedAsSeen
  BY PTL DEF AsSeen, RatifiedAsSeen
<1> QED
  BY InitShows, <1>1, <1>2, PTL DEF Spec
-----------------------------------------------------------------------------
(* A ratification on record is of a meeting that is ratified.              *)

\* What stands for "no meeting" is not itself a meeting.
NoneIsNoMeeting == "state" \notin DOMAIN None

Ratified(set, id) == set[id] # None /\ set[id].state = "ratified"
RatifiedBy(set, id, who) == Ratified(set, id) /\ set[id].by = who

Records(todo) == todo \in { <<"chain">>, <<"set", "chain">> }
Saves(todo) == todo \in { <<"set">>, <<"set", "chain">> }

IsRatify(r, id) == r.class = "meeting.ratify" /\ r.meeting = id

Formed ==
  /\ op.todo \in { <<>>, <<"set">>, <<"chain">>, <<"set", "chain">> }
  /\ \E S : disk.chain \in Seq(S)
  /\ DOMAIN op = {"todo", "record"}
  /\ crashes \in Nat /\ failures \in Nat

\* The disk may be behind memory, and never differs in what it has.
DiskBehind ==
  \A id \in MeetingIds : Ratified(disk.set, id) => RatifiedBy(mem.set, id, disk.set[id].by)

OnRecord ==
  \A id \in MeetingIds : \A n \in Ratifications(id) :
    /\ RatifiedBy(disk.set, id, disk.chain[n].by)
    /\ \A k \in Ratifications(id) : k = n

\* The record about to be appended is the first of its meeting, which is ratified
\* in memory, and on disk once the set is saved.
FirstOfItsMeeting ==
  Records(op.todo) =>
    \A id \in MeetingIds : IsRatify(op.record, id) =>
      /\ Ratifications(id) = {}
      /\ RatifiedBy(mem.set, id, op.record.by)
      /\ op.todo = <<"chain">> => RatifiedBy(disk.set, id, op.record.by)

\* Where nothing failed, every ratified meeting has its record, or will have.
RecordFollows ==
  crashes = 0 /\ failures = 0 =>
    \A id \in MeetingIds : Ratified(mem.set, id) =>
      Ratifications(id) # {} \/ (Records(op.todo) /\ IsRatify(op.record, id))

\* Where no save failed, memory is ahead only while a save is still to be made,
\* and what was registered is ratified for good.
RegisteredStays ==
  failures = 0 =>
    /\ \A id \in MeetingIds : Ratified(mem.set, id) => Ratified(disk.set, id) \/ Saves(op.todo)
    /\ \A id \in MeetingIds : id \in registered => Ratified(disk.set, id)

RecordInv ==
  ShownIsSeen /\ Formed /\ DiskBehind /\ OnRecord /\ FirstOfItsMeeting /\ RecordFollows /\ RegisteredStays

LEMMA InitRecords == Init => RecordInv
<1> SUFFICES ASSUME Init PROVE RecordInv
  OBVIOUS
<1>1. /\ mem.set = [id \in MeetingIds |-> None] /\ disk = mem /\ disk.chain = <<>>
      /\ op = [todo |-> <<>>, record |-> None] /\ crashes = 0 /\ failures = 0 /\ registered = {}
  BY DEF Init, InitLog, Idle
<1>2. Formed
  BY <1>1, EmptySeq DEF Formed
<1>3. \A id \in MeetingIds : ~Ratified(mem.set, id) /\ ~Ratified(disk.set, id) /\ Ratifications(id) = {}
  BY <1>1 DEF Ratified, Ratifications
<1>4. ~Records(op.todo)
  BY <1>1, <<"chain">>[1] = "chain", Len(<<"chain">>) = 1, Len(<<"set", "chain">>) = 2, Len(<<>>) = 0
  DEF Records
<1> QED BY <1>1, <1>2, <1>3, <1>4, InitShows
  DEF RecordInv, DiskBehind, OnRecord, FirstOfItsMeeting, RecordFollows, RegisteredStays

\* The writes that may be left to make are told apart.
LEMMA PlansDiffer ==
  /\ ~Records(<<>>) /\ ~Saves(<<>>) /\ ~Records(<<"set">>) /\ Saves(<<"set">>)
  /\ Records(<<"chain">>) /\ ~Saves(<<"chain">>)
  /\ Records(<<"set", "chain">>) /\ Saves(<<"set", "chain">>)
  /\ <<"set", "chain">> # <<"chain">> /\ <<"set">> # <<"chain">> /\ <<>> # <<"chain">>
BY <<"chain">>[1] = "chain", <<"set">>[1] = "set", Len(<<"chain">>) = 1, Len(<<"set">>) = 1,
   Len(<<"set", "chain">>) = 2, Len(<<>>) = 0
DEF Records, Saves

\* An operation that starts.
LEMMA OperationRecords ==
  ASSUME RecordInv, ShownIsSeen', Free, NEW set, NEW todo, NEW record,
         todo \in { <<"set">>, <<"chain">>, <<"set", "chain">> },
         Begin(set, todo, record), UNCHANGED registered,
         \A id \in MeetingIds : Ratified(mem.set, id) => RatifiedBy(set, id, mem.set[id].by),
         \A id \in MeetingIds : Ratified(set, id) /\ ~Ratified(mem.set, id) =>
            todo = <<"set", "chain">> /\ IsRatify(record, id),
         Records(todo) => \A id \in MeetingIds : IsRatify(record, id) =>
            ~Ratified(mem.set, id) /\ RatifiedBy(set, id, record.by) /\ todo = <<"set", "chain">>
  PROVE  RecordInv'
<1>1. /\ mem'.set = set /\ disk' = disk /\ op'.todo = todo /\ op'.record = record
      /\ DOMAIN op' = {"todo", "record"}
      /\ crashes' = crashes /\ failures' = failures /\ registered' = registered
      /\ op.todo = <<>>
  BY DEF Begin, Free, RecordInv, ShownIsSeen
<1>2. \A id : Ratifications(id)' = Ratifications(id)
  BY <1>1 DEF Ratifications
<1>3. Formed'
  BY <1>1 DEF RecordInv, Formed
<1>4. DiskBehind'
  BY <1>1 DEF RecordInv, DiskBehind, Ratified, RatifiedBy
<1>5. OnRecord'
  BY <1>1, <1>2 DEF RecordInv, OnRecord, Ratified, RatifiedBy
<1>6. FirstOfItsMeeting'
  <2>1. \A id \in MeetingIds : ~Ratified(mem.set, id) => Ratifications(id) = {}
    BY DEF RecordInv, OnRecord, DiskBehind, RatifiedBy
  <2> QED BY <1>1, <1>2, <2>1, PlansDiffer DEF FirstOfItsMeeting, Ratified, RatifiedBy
<1>7. RecordFollows'
  <2>1. crashes = 0 /\ failures = 0 =>
          \A id \in MeetingIds : Ratified(mem.set, id) => Ratifications(id) # {}
    BY <1>1, PlansDiffer DEF RecordInv, RecordFollows
  <2> QED BY <1>1, <1>2, <2>1, PlansDiffer DEF RecordFollows, Ratified
<1>8. RegisteredStays'
  <2>1. failures = 0 => \A id \in MeetingIds : Ratified(mem.set, id) => Ratified(disk.set, id)
    BY <1>1, PlansDiffer DEF RecordInv, RegisteredStays
  <2> QED BY <1>1, <2>1, PlansDiffer DEF RecordInv, RegisteredStays, Ratified
<1> QED BY <1>3, <1>4, <1>5, <1>6, <1>7, <1>8 DEF RecordInv

\* An operation that saves one meeting, which it does not ratify.
LEMMA SavedRecords ==
  ASSUME RecordInv, ShownIsSeen', Free, UNCHANGED registered, NEW id \in MeetingIds, NEW m,
         Save([mem.set EXCEPT ![id] = m]), ~Ratified(mem.set, id), m.state # "ratified"
  PROVE  RecordInv'
<1> DEFINE set == [mem.set EXCEPT ![id] = m]
<1>1. set[id] = m /\ \A o \in MeetingIds \ {id} : set[o] = mem.set[o]
  BY DEF RecordInv, ShownIsSeen, IsStore
<1>2. Begin(set, <<"set">>, None)
  BY DEF Save
<1> HIDE DEF set
<1>3. \A o \in MeetingIds : Ratified(mem.set, o) => RatifiedBy(set, o, mem.set[o].by)
  BY <1>1 DEF Ratified, RatifiedBy
<1>4. \A o \in MeetingIds : ~(Ratified(set, o) /\ ~Ratified(mem.set, o))
  BY <1>1 DEF Ratified
<1> QED BY <1>2, <1>3, <1>4, PlansDiffer, OperationRecords

LEMMA RatifyRecords ==
  ASSUME NoneIsNoMeeting, RecordInv, ShownIsSeen', NEW id \in MeetingIds, NEW who, Ratify(id, who)
  PROVE  RecordInv'
<1> DEFINE m == [mem.set[id] EXCEPT !.by = who, !.state = "ratified"]
           set == [mem.set EXCEPT ![id] = m]
           record == RatifyRecord(id, shown[id], who)
<1>1. /\ Begin(set, <<"set", "chain">>, record) /\ Free /\ UNCHANGED registered
      /\ mem.set[id] # None /\ mem.set[id].state = "awaiting"
  BY DEF Ratify, SaveAndRecord, Known, MayRatify
<1>2. m.state = "ratified" /\ m.by = who /\ "state" \in DOMAIN m
  BY <1>1 DEF RecordInv, ShownIsSeen, IsStore, Fields
<1> HIDE DEF m
<1>3. m # None
  BY <1>2 DEF NoneIsNoMeeting
<1>4. set[id] = m /\ \A o \in MeetingIds \ {id} : set[o] = mem.set[o]
  BY DEF RecordInv, ShownIsSeen, IsStore
<1>5. \A o : IsRatify(record, o) <=> o = id
  BY DEF IsRatify, RatifyRecord
<1>6. record.by = who
  BY DEF RatifyRecord
<1> HIDE DEF set, record
<1>7. \A o \in MeetingIds : Ratified(mem.set, o) => RatifiedBy(set, o, mem.set[o].by)
  BY <1>1, <1>4 DEF Ratified, RatifiedBy
<1>8. \A o \in MeetingIds : Ratified(set, o) /\ ~Ratified(mem.set, o) => IsRatify(record, o)
  BY <1>4, <1>5 DEF Ratified
<1>9. \A o \in MeetingIds : IsRatify(record, o) => ~Ratified(mem.set, o) /\ RatifiedBy(set, o, record.by)
  BY <1>1, <1>2, <1>3, <1>4, <1>5, <1>6 DEF Ratified, RatifiedBy
<1> QED BY <1>1, <1>7, <1>8, <1>9, OperationRecords

LEMMA ScheduleRecords ==
  ASSUME RecordInv, ShownIsSeen', NEW id \in MeetingIds, NEW t \in Templates, Schedule(id, t)
  PROVE  RecordInv'
<1> DEFINE m == [min |-> t.min, cls |-> t.cls, agenda |-> t.agenda, state |-> "scheduled",
                 frozen |-> None, opened |-> None, attendance |-> <<>>,
                 minutes |-> <<>>, decisions |-> <<>>, by |-> None]
<1>1. /\ Save([mem.set EXCEPT ![id] = m]) /\ Free /\ UNCHANGED registered
      /\ ~Ratified(mem.set, id)
  BY DEF Schedule, Known, Ratified
<1>2. m.state # "ratified"
  OBVIOUS
<1> HIDE DEF m
<1> QED BY <1>1, <1>2, SavedRecords

LEMMA AdmitRecords ==
  ASSUME RecordInv, ShownIsSeen', NEW id \in MeetingIds, NEW who \in Visitors, Admit(id, who)
  PROVE  RecordInv'
<1> DEFINE m == [mem.set[id] EXCEPT !.attendance = Append(@, who)]
<1>1. /\ Save([mem.set EXCEPT ![id] = m]) /\ Free /\ UNCHANGED registered
      /\ mem.set[id] # None /\ ~Ratified(mem.set, id) /\ mem.set[id].state # "ratified"
  BY DEF Admit, Known, Ratified, AdmitsInTime
<1>2. m.state # "ratified"
  BY <1>1 DEF RecordInv, ShownIsSeen, IsStore, Fields
<1> HIDE DEF m
<1> QED BY <1>1, <1>2, SavedRecords

LEMMA OpenRecords ==
  ASSUME RecordInv, ShownIsSeen', NEW id \in MeetingIds, Open(id)
  PROVE  RecordInv'
<1> DEFINE m == [mem.set[id] EXCEPT !.frozen = mem.set[id].agenda, !.state = "in-progress",
                                    !.opened = Len(mem.chain)]
<1>1. /\ Save([mem.set EXCEPT ![id] = m]) /\ Free /\ UNCHANGED registered
      /\ mem.set[id] # None /\ ~Ratified(mem.set, id)
  BY DEF Open, Known, Ratified, MayOpen
<1>2. m.state # "ratified"
  BY <1>1 DEF RecordInv, ShownIsSeen, IsStore, Fields
<1> HIDE DEF m
<1> QED BY <1>1, <1>2, SavedRecords

LEMMA CloseRecords ==
  ASSUME RecordInv, ShownIsSeen', NEW id \in MeetingIds, Close(id)
  PROVE  RecordInv'
<1> DEFINE window == Window(mem.chain, OpenedAt(mem.set[id]))
           judged == IF IsQuorate(mem.set[id]) THEN "awaiting" ELSE "inquorate"
           m == [mem.set[id] EXCEPT
                   !.decisions = Decisions(OpenedAt(mem.set[id]), window),
                   !.minutes = Minutes(window), !.state = judged]
<1>1. /\ Save([mem.set EXCEPT ![id] = m]) /\ Free /\ UNCHANGED registered
      /\ mem.set[id] # None /\ ~Ratified(mem.set, id)
  BY DEF Close, Known, Ratified
<1>2. judged # "ratified"
  OBVIOUS
<1> HIDE DEF window, judged
<1>3. m.state # "ratified"
  BY <1>1, <1>2 DEF RecordInv, ShownIsSeen, IsStore, Fields
<1> HIDE DEF m
<1> QED BY <1>1, <1>3, SavedRecords

LEMMA OtherActionRecords ==
  ASSUME RecordInv, ShownIsSeen', OtherAction PROVE RecordInv'
<1>1. Begin(mem.set, <<"chain">>, ActionRecord) /\ Free /\ UNCHANGED registered
  BY DEF OtherAction, Record
<1>2. \A id : ~IsRatify(ActionRecord, id)
  BY DEF IsRatify, ActionRecord
<1>3. \A id \in MeetingIds : Ratified(mem.set, id) => RatifiedBy(mem.set, id, mem.set[id].by)
  BY DEF Ratified, RatifiedBy
<1> QED BY <1>1, <1>2, <1>3, OperationRecords
-----------------------------------------------------------------------------
\* Steps that start nothing and write nothing.
LEMMA QuietRecords ==
  ASSUME RecordInv, ShownIsSeen', UNCHANGED << disk, op, crashes, failures >>,
         \A id \in MeetingIds : /\ Ratified(mem.set, id)' <=> Ratified(mem.set, id)
                                /\ Ratified(mem.set, id) => mem'.set[id].by = mem.set[id].by,
         \A id \in registered' : id \in registered \/ ~(id \in MeetingIds)
                                  \/ (Ratified(mem.set, id) /\ op.todo = <<>>)
  PROVE  RecordInv'
<1>1. \A id : Ratifications(id)' = Ratifications(id)
  BY DEF Ratifications
<1>2. Formed'
  BY DEF RecordInv, Formed
<1>3. PICK old, new : old = mem.set /\ new = mem'.set
  OBVIOUS
<1>4. \A id \in MeetingIds : /\ Ratified(new, id) <=> Ratified(old, id)
                             /\ Ratified(old, id) => new[id].by = old[id].by
  BY <1>3 DEF Ratified
<1>5. DiskBehind'
  BY <1>3, <1>4 DEF RecordInv, DiskBehind, RatifiedBy, Ratified
<1>6. OnRecord'
  BY <1>1 DEF RecordInv, OnRecord, RatifiedBy, Ratified
<1>7. FirstOfItsMeeting'
  <2>1. \A id \in MeetingIds : \A who : RatifiedBy(old, id, who) => RatifiedBy(new, id, who)
    BY <1>4 DEF RatifiedBy, Ratified
  <2> QED BY <1>1, <1>3, <2>1 DEF RecordInv, FirstOfItsMeeting, RatifiedBy, Ratified
<1>8. RecordFollows'
  BY <1>1, <1>3, <1>4 DEF RecordInv, RecordFollows, Ratified
<1>9. RegisteredStays'
  <2>1. failures = 0 => \A id \in MeetingIds : Ratified(old, id) => Ratified(disk.set, id) \/ Saves(op.todo)
    BY <1>3 DEF RecordInv, RegisteredStays
  <2>2. failures = 0 => \A id \in MeetingIds : id \in registered' => Ratified(disk.set, id)
    BY <1>3, <2>1, PlansDiffer DEF RecordInv, RegisteredStays
  <2> QED BY <1>3, <1>4, <2>1, <2>2 DEF RegisteredStays, Ratified
<1> QED BY <1>2, <1>5, <1>6, <1>7, <1>8, <1>9 DEF RecordInv

LEMMA CloseRefusedRecords ==
  ASSUME NoneIsNoMeeting, RecordInv, ShownIsSeen', NEW id \in MeetingIds, CloseRefused(id)
  PROVE  RecordInv'
<1> DEFINE window == Window(mem.chain, OpenedAt(mem.set[id]))
           kept == Decisions(OpenedAt(mem.set[id]), window)
           m == [mem.set[id] EXCEPT !.decisions = kept]
           set == [mem.set EXCEPT ![id] = m]
<1>1. mem' = [mem EXCEPT !.set = set] /\ UNCHANGED << disk, op, registered, crashes, failures >>
  BY DEF CloseRefused
<1>2. mem.set[id] # None
  BY DEF CloseRefused, Known
<1> HIDE DEF kept
<1>3. m.state = mem.set[id].state /\ m.by = mem.set[id].by /\ "state" \in DOMAIN m
  BY <1>2 DEF RecordInv, ShownIsSeen, IsStore, Fields
<1> HIDE DEF m
<1>4. m # None
  BY <1>3 DEF NoneIsNoMeeting
<1>5. set[id] = m /\ \A o \in MeetingIds \ {id} : set[o] = mem.set[o]
  BY DEF RecordInv, ShownIsSeen, IsStore
<1> HIDE DEF set
<1>6. mem'.set = set
  BY <1>1 DEF RecordInv, ShownIsSeen
<1>7. \A o \in MeetingIds : /\ Ratified(mem.set, o)' <=> Ratified(mem.set, o)
                            /\ Ratified(mem.set, o) => mem'.set[o].by = mem.set[o].by
  BY <1>2, <1>3, <1>4, <1>5, <1>6 DEF Ratified
<1> QED BY <1>1, <1>7, QuietRecords

LEMMA ShowRecords ==
  ASSUME RecordInv, ShownIsSeen', NEW id \in MeetingIds, Show(id) \/ RegisterIntent(id)
  PROVE  RecordInv'
<1>1. UNCHANGED << mem, disk, op, crashes, failures >>
  BY DEF Show, RegisterIntent, logVars
<1>2. registered' = registered
      \/ (registered' = registered \cup {id} /\ Ratified(mem.set, id) /\ op.todo = <<>>)
  BY DEF Show, RegisterIntent, Known, MayRegister, Ratified, Free
<1> QED BY <1>1, <1>2, QuietRecords DEF Ratified
-----------------------------------------------------------------------------
\* The record reaches the log: it is the first of its meeting.
LEMMA AppendRecords ==
  ASSUME RecordInv, op.todo = <<"chain">>, DiskGains
  PROVE  /\ disk'.set = disk.set /\ \E S : disk'.chain \in Seq(S)
         /\ \A id : Ratifications(id) \subseteq Ratifications(id)'
         /\ \A id : IsRatify(op.record, id) => Ratifications(id)' # {}
         /\ OnRecord'
<1>1. PICK S : disk.chain \in Seq(S)
  BY DEF RecordInv, Formed
<1> DEFINE T == S \cup {op.record}
           c == disk.chain
<1>2. disk.chain \in Seq(T)
  BY <1>1, SeqMonotonic
<1>3. disk'.set = disk.set /\ disk'.chain = Append(c, op.record)
  BY DEF DiskGains, RecordInv, ShownIsSeen
<1>4. op.record \in T
  OBVIOUS
<1> HIDE DEF T
<1>5. /\ Append(c, op.record) \in Seq(T) /\ Len(c) \in Nat
      /\ DOMAIN c = 1..Len(c) /\ DOMAIN Append(c, op.record) = 1..(Len(c) + 1)
      /\ \A n \in DOMAIN c : Append(c, op.record)[n] = c[n]
      /\ Append(c, op.record)[Len(c) + 1] = op.record
  BY <1>2, <1>4, AppendProperties, LenProperties
<1>6. ASSUME NEW id
      PROVE  Ratifications(id)' = Ratifications(id) \cup
               (IF IsRatify(op.record, id) THEN {Len(c) + 1} ELSE {})
  BY <1>3, <1>5 DEF Ratifications, IsRatify
<1>7. OnRecord'
  <2> SUFFICES ASSUME NEW id \in MeetingIds, NEW n \in Ratifications(id)'
               PROVE  /\ RatifiedBy(disk'.set, id, disk'.chain[n].by)
                      /\ \A k \in Ratifications(id)' : k = n
    BY DEF OnRecord
  <2>1. CASE IsRatify(op.record, id)
    <3>1. Ratifications(id) = {} /\ RatifiedBy(disk.set, id, op.record.by)
      BY <2>1, PlansDiffer DEF RecordInv, FirstOfItsMeeting
    <3>2. Ratifications(id)' = {Len(c) + 1}
      BY <1>6, <2>1, <3>1
    <3> QED BY <1>3, <1>5, <3>1, <3>2
  <2>2. CASE ~IsRatify(op.record, id)
    <3>1. n \in Ratifications(id) /\ Ratifications(id)' = Ratifications(id)
      BY <1>6, <2>2
    <3>2. n \in DOMAIN c
      BY <3>1 DEF Ratifications
    <3>3. disk'.chain[n] = disk.chain[n]
      BY <1>3, <1>5, <3>2
    <3> QED BY <1>3, <3>1, <3>3 DEF RecordInv, OnRecord
  <2> QED BY <2>1, <2>2
<1> QED BY <1>3, <1>5, <1>6, <1>7

LEMMA HeadOf ==
  ASSUME Formed, NEW f, Writing(f)
  PROVE  /\ f = "chain" => op.todo = <<"chain">>
         /\ f = "set" => Saves(op.todo)
BY DEF Formed, Writing, Saves

\* Whatever write was interrupted, the disk still has what it has to have.
LEMMA InterruptedRecords ==
  ASSUME RecordInv, Interrupted
  PROVE  /\ disk'.set = disk.set /\ \E S : disk'.chain \in Seq(S)
         /\ \A id : Ratifications(id) \subseteq Ratifications(id)'
         /\ OnRecord'
<1>1. CASE UNCHANGED disk
  BY <1>1 DEF RecordInv, Formed, OnRecord, Ratifications
<1>2. CASE Writing("chain") /\ DiskGains
  BY <1>2, HeadOf, AppendRecords DEF RecordInv
<1> QED BY <1>1, <1>2 DEF Interrupted

LEMMA SaveSetRecords ==
  ASSUME RecordInv, ShownIsSeen', SaveSet, UNCHANGED registered PROVE RecordInv'
<1>1. /\ mem' = mem /\ disk'.set = mem.set /\ disk'.chain = disk.chain
      /\ crashes' = crashes /\ failures' = failures /\ Saves(op.todo)
  BY HeadOf DEF SaveSet, RecordInv, ShownIsSeen
<1>2. \/ op.todo = <<"set">> /\ op' = Idle
      \/ op.todo = <<"set", "chain">> /\ op' = [op EXCEPT !.todo = <<"chain">>]
  <2>1. op' = IF Len(op.todo) = 1 THEN Idle ELSE [op EXCEPT !.todo = Tail(op.todo)]
    BY DEF SaveSet, Done, RecordInv, Formed
  <2>2. CASE op.todo = <<"set">>
    BY <2>1, <2>2, Len(<<"set">>) = 1
  <2>3. CASE op.todo = <<"set", "chain">>
    <3>1. Len(op.todo) = 2 /\ Tail(op.todo) = <<"chain">>
      BY <2>3
    <3> QED BY <2>1, <2>3, <3>1
  <2> QED BY <1>1, <2>2, <2>3 DEF Saves
<1>3. /\ DOMAIN op' = {"todo", "record"} /\ op'.todo \in { <<>>, <<"chain">> }
      /\ op'.todo = <<"chain">> => op.todo = <<"set", "chain">> /\ op'.record = op.record
      /\ op'.todo = <<>> => op.todo = <<"set">>
  BY <1>2, PlansDiffer DEF Idle, RecordInv, Formed
<1>4. \A id : Ratifications(id)' = Ratifications(id)
  BY <1>1 DEF Ratifications
<1>5. Formed'
  BY <1>1, <1>3 DEF RecordInv, Formed
<1>6. DiskBehind' /\ RegisteredStays'
  BY <1>1 DEF RecordInv, DiskBehind, RegisteredStays, Ratified, RatifiedBy
<1>7. OnRecord'
  BY <1>1, <1>4 DEF RecordInv, OnRecord, DiskBehind, Ratified, RatifiedBy
<1>8. FirstOfItsMeeting' /\ RecordFollows'
  BY <1>1, <1>3, <1>4, PlansDiffer DEF RecordInv, FirstOfItsMeeting, RecordFollows, Ratified, RatifiedBy
<1> QED BY <1>5, <1>6, <1>7, <1>8 DEF RecordInv

LEMMA AppendRecordRecords ==
  ASSUME RecordInv, ShownIsSeen', AppendRecord, UNCHANGED registered PROVE RecordInv'
<1>1. op.todo = <<"chain">> /\ op' = Idle
  BY HeadOf, Len(<<"chain">>) = 1 DEF AppendRecord, RecordInv, Done
<1>2. /\ mem'.set = mem.set /\ crashes' = crashes /\ failures' = failures
  BY DEF AppendRecord, MemGains, RecordInv, ShownIsSeen
<1>3. /\ disk'.set = disk.set /\ \E S : disk'.chain \in Seq(S)
      /\ \A id : Ratifications(id) \subseteq Ratifications(id)'
      /\ \A id : IsRatify(op.record, id) => Ratifications(id)' # {}
      /\ OnRecord'
  BY <1>1, AppendRecords DEF AppendRecord
<1>4. op'.todo = <<>> /\ DOMAIN op' = {"todo", "record"}
  BY <1>1 DEF Idle
<1>5. Formed'
  BY <1>2, <1>3, <1>4 DEF RecordInv, Formed
<1>6. DiskBehind' /\ FirstOfItsMeeting'
  BY <1>2, <1>3, <1>4, PlansDiffer DEF RecordInv, DiskBehind, FirstOfItsMeeting, Ratified, RatifiedBy
<1>7. RecordFollows'
  BY <1>2, <1>3 DEF RecordInv, RecordFollows, Ratified
<1>8. RegisteredStays'
  BY <1>1, <1>2, <1>3, PlansDiffer DEF RecordInv, RegisteredStays, Ratified
<1> QED BY <1>3, <1>5, <1>6, <1>7, <1>8 DEF RecordInv

\* A write fails: nothing is to be written any more, and what memory has ahead
\* of the disk stays ahead.
LEMMA WriteFailsRecords ==
  ASSUME RecordInv, ShownIsSeen', WriteFails, UNCHANGED registered PROVE RecordInv'
<1>1. /\ op'.todo = <<>> /\ DOMAIN op' = {"todo", "record"} /\ mem'.set = mem.set
      /\ crashes' = crashes /\ failures' \in Nat /\ failures' # 0
  BY DEF WriteFails, Idle, MemGains, RecordInv, ShownIsSeen, Formed
<1>2. /\ disk'.set = disk.set /\ \E S : disk'.chain \in Seq(S) /\ OnRecord'
  BY InterruptedRecords DEF WriteFails
<1>3. OnRecord'
  BY InterruptedRecords DEF WriteFails
<1>4. Formed'
  BY <1>1, <1>2 DEF RecordInv, Formed
<1>5. DiskBehind' /\ FirstOfItsMeeting' /\ RecordFollows' /\ RegisteredStays'
  BY <1>1, <1>2, PlansDiffer
  DEF RecordInv, DiskBehind, FirstOfItsMeeting, RecordFollows, RegisteredStays, Ratified, RatifiedBy
<1> QED BY <1>3, <1>4, <1>5 DEF RecordInv

LEMMA EndRecords ==
  ASSUME RecordInv, ShownIsSeen', Exit \/ Crash, UNCHANGED registered PROVE RecordInv'
<1>1. /\ op'.todo = <<>> /\ DOMAIN op' = {"todo", "record"} /\ mem' = disk'
      /\ failures' = failures
  BY DEF Exit, Crash, Ends, Idle
<1>2. Interrupted
  BY DEF Exit, Crash, Interrupted
<1>3. /\ disk'.set = disk.set /\ \E S : disk'.chain \in Seq(S)
      /\ \A id : Ratifications(id) \subseteq Ratifications(id)'
  BY <1>2, InterruptedRecords
<1>4. OnRecord'
  BY <1>2, InterruptedRecords
<1>5. /\ crashes' \in Nat
      /\ crashes' = 0 => crashes = 0 /\ op.todo = <<>>
  BY DEF Exit, Crash, Free, RecordInv, Formed
<1>6. Formed'
  BY <1>1, <1>3, <1>5 DEF RecordInv, Formed
<1>7. DiskBehind' /\ FirstOfItsMeeting' /\ RegisteredStays'
  BY <1>1, <1>3, PlansDiffer
  DEF RecordInv, DiskBehind, FirstOfItsMeeting, RegisteredStays, Ratified, RatifiedBy
<1>8. RecordFollows'
  <2>1. crashes' = 0 /\ failures' = 0 =>
          \A id \in MeetingIds : Ratified(disk.set, id) => Ratifications(id) # {}
    BY <1>1, <1>5, PlansDiffer DEF RecordInv, RecordFollows, DiskBehind, RatifiedBy
  <2> QED BY <1>1, <1>3, <2>1 DEF RecordFollows, Ratified
<1> QED BY <1>4, <1>6, <1>7, <1>8 DEF RecordInv

LEMMA LogRecords ==
  ASSUME RecordInv, ShownIsSeen', LogStep PROVE RecordInv'
<1>1. LogSteps /\ UNCHANGED registered
  BY DEF LogStep
<1>2. CASE Restart
  <2>1. UNCHANGED << mem, disk, op, crashes, failures >>
    BY <1>2 DEF Restart
  <2> QED BY <1>1, <2>1, QuietRecords DEF Ratified
<1> QED
  BY <1>1, <1>2, SaveSetRecords, AppendRecordRecords, WriteFailsRecords, EndRecords DEF LogSteps
-----------------------------------------------------------------------------
LEMMA RecordStep ==
  ASSUME NoneIsNoMeeting, RecordInv, [Next]_vars PROVE RecordInv'
<1>0. ShownIsSeen'
  BY StepShows DEF RecordInv
<1>1. CASE UNCHANGED vars
  <2>1. UNCHANGED << mem, disk, op, crashes, failures, registered >>
    BY <1>1 DEF vars, logVars
  <2> QED BY <1>0, <2>1, QuietRecords DEF Ratified
<1>2. CASE Next
  BY <1>0, <1>2, ScheduleRecords, AdmitRecords, OpenRecords, CloseRecords, CloseRefusedRecords,
     ShowRecords, RatifyRecords, OtherActionRecords, LogRecords
  DEF Next
<1> QED BY <1>1, <1>2

\* A ratification in the evidence is of a meeting that is ratified on disk by the
\* same human, and no meeting has two; where nothing failed a ratified meeting has
\* its record, and where no save failed what was registered stays ratified.
THEOREM RecordedIsRatified == NoneIsNoMeeting => (Spec => []RatificationsOnRecord)
<1> SUFFICES ASSUME NoneIsNoMeeting PROVE Spec => []RatificationsOnRecord
  OBVIOUS
<1>1. RecordInv /\ [Next]_vars => RecordInv'
  BY RecordStep
<1>2. RecordInv => RatificationsOnRecord
  <2> SUFFICES ASSUME RecordInv, NEW id \in MeetingIds
               PROVE  /\ \A n \in Ratifications(id) :
                            disk.set[id] # None /\ disk.set[id].state = "ratified"
                            /\ disk.set[id].by = disk.chain[n].by
                      /\ Cardinality(Ratifications(id)) <= 1
                      /\ Free /\ crashes = 0 /\ failures = 0 /\ disk.set[id] # None
                           /\ disk.set[id].state = "ratified" => Ratifications(id) # {}
                      /\ failures = 0 /\ id \in registered =>
                           disk.set[id] # None /\ disk.set[id].state = "ratified"
    BY DEF RatificationsOnRecord
  <2>1. \A n \in Ratifications(id) : RatifiedBy(disk.set, id, disk.chain[n].by)
    BY DEF RecordInv, OnRecord
  <2>2. Cardinality(Ratifications(id)) <= 1
    <3>1. CASE Ratifications(id) = {}
      BY <3>1, FS_EmptySet
    <3>2. CASE Ratifications(id) # {}
      <4>1. PICK n : n \in Ratifications(id)
        BY <3>2
      <4>2. Ratifications(id) = {n}
        BY <4>1 DEF RecordInv, OnRecord
      <4>3. Cardinality({n}) = 1
        BY FS_Singleton
      <4>4. Cardinality(Ratifications(id)) = 1
        BY <4>2, <4>3
      <4> QED BY <4>4
    <3> QED BY <3>1, <3>2
  <2>3. Free /\ crashes = 0 /\ failures = 0 /\ Ratified(disk.set, id) => Ratifications(id) # {}
    BY PlansDiffer DEF Free, RecordInv, RecordFollows, DiskBehind, RatifiedBy
  <2>4. failures = 0 /\ id \in registered => Ratified(disk.set, id)
    BY DEF RecordInv, RegisteredStays
  <2> QED BY <2>1, <2>2, <2>3, <2>4 DEF Ratified, RatifiedBy
<1> QED BY InitRecords, <1>1, <1>2, PTL DEF Spec
-----------------------------------------------------------------------------
(* Quorum is judged once, and the judgement stands.                        *)

\* A meeting was scheduled with a quorum of at least one, whoever attested in it
\* clears its class, and once closed its state is the verdict on its attendance.
Judged(m) ==
  /\ m.min \in Nat \ {0} /\ m.cls \in Levels
  /\ m.attendance \in Seq(Attendee)
  /\ \A i \in DOMAIN m.attendance : AdmitsCleared(m, m.attendance[i])
  /\ Closed(m) => (m.state = "inquorate" <=> ~IsQuorate(m))

AllJudged(set) == \A id \in MeetingIds : set[id] # None => Judged(set[id])

QuorumInv == AllJudged(mem.set) /\ AllJudged(disk.set)

LEMMA InitQuorum == Init => QuorumInv
BY DEF Init, InitLog, QuorumInv, AllJudged

\* An operation that starts with one meeting changed.
LEMMA BeginsQuorum ==
  ASSUME ShownIsSeen, QuorumInv, NEW id \in MeetingIds, NEW m, m # None => Judged(m),
         mem' = [mem EXCEPT !.set = [mem.set EXCEPT ![id] = m]], disk' = disk
  PROVE  QuorumInv'
<1>1. mem'.set = [mem.set EXCEPT ![id] = m]
  BY DEF ShownIsSeen
<1>2. mem'.set[id] = m /\ \A o \in MeetingIds \ {id} : mem'.set[o] = mem.set[o]
  BY <1>1 DEF ShownIsSeen, IsStore
<1>3. AllJudged(mem.set)'
  <2> SUFFICES ASSUME NEW o \in MeetingIds, mem'.set[o] # None PROVE Judged(mem'.set[o])
    BY DEF AllJudged
  <2>1. CASE o = id
    BY <2>1, <1>2
  <2>2. CASE o # id
    <3>1. mem'.set[o] = mem.set[o]
      BY <2>2, <1>2
    <3> QED BY <3>1 DEF QuorumInv, AllJudged
  <2> QED BY <2>1, <2>2
<1>4. AllJudged(disk.set)'
  BY DEF QuorumInv, AllJudged
<1> QED BY <1>3, <1>4 DEF QuorumInv

\* A meeting whose quorum, class and attendance are another's, and which is
\* closed only where that one was, with the same verdict.
LEMMA SameJudged ==
  ASSUME NEW m, NEW n, Judged(m), n.min = m.min, n.cls = m.cls, n.attendance = m.attendance,
         Closed(n) => Closed(m) /\ (n.state = "inquorate" <=> m.state = "inquorate")
  PROVE  Judged(n)
BY DEF Judged, AdmitsCleared, IsQuorate, AttestedHumans

LEMMA ScheduleQuorum ==
  ASSUME ShownIsSeen, QuorumInv, NEW id \in MeetingIds, NEW t \in Templates, Schedule(id, t)
  PROVE  QuorumInv'
<1> DEFINE m == [min |-> t.min, cls |-> t.cls, agenda |-> t.agenda, state |-> "scheduled",
                 frozen |-> None, opened |-> None, attendance |-> <<>>,
                 minutes |-> <<>>, decisions |-> <<>>, by |-> None]
<1>1. mem' = [mem EXCEPT !.set = [mem.set EXCEPT ![id] = m]] /\ disk' = disk /\ t.min # 0
  BY DEF Schedule, Save, Begin
<1>2. t.min \in Nat /\ t.cls \in Levels
  BY MeetingInputs
<1>3. m.attendance \in Seq(Attendee) /\ DOMAIN m.attendance = {} /\ ~Closed(m)
  BY EmptySeq DEF Closed
<1>4. Judged(m)
  BY <1>1, <1>2, <1>3 DEF Judged
<1> HIDE DEF m
<1> QED BY <1>1, <1>4, BeginsQuorum

LEMMA AdmitQuorum ==
  ASSUME ShownIsSeen, QuorumInv, NEW id \in MeetingIds, NEW who \in Visitors, Admit(id, who)
  PROVE  QuorumInv'
<1> DEFINE old == mem.set[id]
           m == [old EXCEPT !.attendance = Append(@, who)]
<1>1. /\ mem' = [mem EXCEPT !.set = [mem.set EXCEPT ![id] = m]] /\ disk' = disk
      /\ old # None /\ AdmitsInTime(old) /\ AdmitsCleared(old, who)
  BY DEF Admit, Save, Begin, Known
<1>2. Judged(old) /\ Fields \subseteq DOMAIN old
  BY <1>1 DEF QuorumInv, AllJudged, ShownIsSeen, IsStore
<1> HIDE DEF old
<1>3. /\ m.attendance = Append(old.attendance, who) /\ m.state = old.state
      /\ m.cls = old.cls /\ m.min = old.min
  BY <1>2 DEF Fields
<1> HIDE DEF m
<1>4. who \in Attendee
  BY MeetingInputs
<1>5. /\ m.attendance \in Seq(Attendee)
      /\ \A i \in DOMAIN m.attendance : \/ i \in DOMAIN old.attendance /\ m.attendance[i] = old.attendance[i]
                                        \/ m.attendance[i] = who
  BY <1>2, <1>3, <1>4, AppendProperties, LenProperties DEF Judged
<1>6. ~Closed(m)
  BY <1>1, <1>3 DEF Closed, AdmitsInTime
<1>7. Judged(m)
  BY <1>1, <1>2, <1>3, <1>5, <1>6 DEF Judged, AdmitsCleared
<1> QED BY <1>1, <1>7, BeginsQuorum

LEMMA OpenQuorum ==
  ASSUME ShownIsSeen, QuorumInv, NEW id \in MeetingIds, Open(id)
  PROVE  QuorumInv'
<1> DEFINE old == mem.set[id]
           m == [old EXCEPT !.frozen = mem.set[id].agenda, !.state = "in-progress",
                            !.opened = Len(mem.chain)]
<1>1. /\ mem' = [mem EXCEPT !.set = [mem.set EXCEPT ![id] = m]] /\ disk' = disk /\ old # None
  BY DEF Open, Save, Begin, Known
<1>2. Judged(old) /\ Fields \subseteq DOMAIN old
  BY <1>1 DEF QuorumInv, AllJudged, ShownIsSeen, IsStore
<1> HIDE DEF old
<1>3. /\ m.attendance = old.attendance /\ m.state = "in-progress"
      /\ m.cls = old.cls /\ m.min = old.min
  BY <1>2 DEF Fields
<1> HIDE DEF m
<1>4. Judged(m)
  BY <1>2, <1>3, SameJudged DEF Closed
<1> QED BY <1>1, <1>4, BeginsQuorum

LEMMA CloseQuorum ==
  ASSUME ShownIsSeen, QuorumInv, NEW id \in MeetingIds, Close(id)
  PROVE  QuorumInv'
<1> DEFINE old == mem.set[id]
           window == Window(mem.chain, OpenedAt(old))
           judged == IF IsQuorate(old) THEN "awaiting" ELSE "inquorate"
           m == [old EXCEPT !.decisions = Decisions(OpenedAt(old), window),
                            !.minutes = Minutes(window), !.state = judged]
<1>1. /\ mem' = [mem EXCEPT !.set = [mem.set EXCEPT ![id] = m]] /\ disk' = disk /\ old # None
  BY DEF Close, Save, Begin, Known
<1>2. Judged(old) /\ Fields \subseteq DOMAIN old
  BY <1>1 DEF QuorumInv, AllJudged, ShownIsSeen, IsStore
<1>3. judged = "inquorate" <=> ~IsQuorate(old)
  OBVIOUS
<1> HIDE DEF old, window, judged
<1>4. /\ m.attendance = old.attendance /\ m.state = judged
      /\ m.cls = old.cls /\ m.min = old.min
  BY <1>2 DEF Fields
<1> HIDE DEF m
<1>5. Judged(m)
  BY <1>2, <1>3, <1>4 DEF Judged, AdmitsCleared, IsQuorate, AttestedHumans
<1> QED BY <1>1, <1>5, BeginsQuorum

LEMMA CloseRefusedQuorum ==
  ASSUME ShownIsSeen, QuorumInv, NEW id \in MeetingIds, CloseRefused(id)
  PROVE  QuorumInv'
<1> DEFINE old == mem.set[id]
           kept == Decisions(OpenedAt(old), Window(mem.chain, OpenedAt(old)))
           m == [old EXCEPT !.decisions = kept]
<1>1. /\ mem' = [mem EXCEPT !.set = [mem.set EXCEPT ![id] = m]] /\ disk' = disk /\ old # None
  BY DEF CloseRefused, Known
<1>2. Judged(old) /\ Fields \subseteq DOMAIN old
  BY <1>1 DEF QuorumInv, AllJudged, ShownIsSeen, IsStore
<1> HIDE DEF old, kept
<1>3. /\ m.attendance = old.attendance /\ m.state = old.state
      /\ m.cls = old.cls /\ m.min = old.min
  BY <1>2 DEF Fields
<1> HIDE DEF m
<1>4. Judged(m)
  BY <1>2, <1>3, SameJudged DEF Closed
<1> QED BY <1>1, <1>4, BeginsQuorum

LEMMA RatifyQuorum ==
  ASSUME ShownIsSeen, QuorumInv, NEW id \in MeetingIds, NEW who, Ratify(id, who)
  PROVE  QuorumInv'
<1> DEFINE old == mem.set[id]
           m == [old EXCEPT !.by = who, !.state = "ratified"]
<1>1. /\ mem' = [mem EXCEPT !.set = [mem.set EXCEPT ![id] = m]] /\ disk' = disk /\ old # None
      /\ old.state = "awaiting"
  BY DEF Ratify, SaveAndRecord, Begin, Known, MayRatify
<1>2. Judged(old) /\ Fields \subseteq DOMAIN old
  BY <1>1 DEF QuorumInv, AllJudged, ShownIsSeen, IsStore
<1> HIDE DEF old
<1>3. /\ m.attendance = old.attendance /\ m.state = "ratified"
      /\ m.cls = old.cls /\ m.min = old.min
  BY <1>2 DEF Fields
<1> HIDE DEF m
<1>4. Judged(m)
  BY <1>1, <1>2, <1>3, SameJudged DEF Closed
<1> QED BY <1>1, <1>4, BeginsQuorum

\* A step after which every set of meetings was one of the two before.
LEMMA KeptQuorum ==
  ASSUME QuorumInv, mem'.set \in {mem.set, disk.set}, disk'.set \in {mem.set, disk.set}
  PROVE  QuorumInv'
BY DEF QuorumInv, AllJudged

LEMMA QuorumStep ==
  ASSUME ShownIsSeen, QuorumInv, [Next]_vars PROVE QuorumInv'
<1>1. CASE \/ UNCHANGED vars
           \/ \E id \in MeetingIds : Show(id) \/ RegisterIntent(id)
  <2>1. UNCHANGED << mem, disk >>
    BY <1>1 DEF vars, logVars, Show, RegisterIntent
  <2> QED BY <2>1, KeptQuorum
<1>2. CASE OtherAction
  <2>1. mem'.set = mem.set /\ disk' = disk
    BY <1>2 DEF OtherAction, Record, Begin, ShownIsSeen
  <2> QED BY <2>1, KeptQuorum
<1>3. CASE LogStep
  BY <1>3, LogKeeps, KeptQuorum DEF LogStep
<1> QED
  BY <1>1, <1>2, <1>3, ScheduleQuorum, AdmitQuorum, OpenQuorum, CloseQuorum, CloseRefusedQuorum,
     RatifyQuorum
  DEF Next

LEMMA AttestedHumansCounted ==
  ASSUME NEW m, m.attendance \in Seq(Attendee)
  PROVE  /\ AttestedHumans(m) \in Nat
         /\ AttestedHumans(m) # 0 => \E i \in DOMAIN m.attendance : m.attendance[i].attested
<1> DEFINE seats == { i \in DOMAIN m.attendance : m.attendance[i].human /\ m.attendance[i].attested }
<1>1. Len(m.attendance) \in Nat /\ DOMAIN m.attendance = 1..Len(m.attendance)
  BY LenProperties
<1>2. IsFiniteSet(DOMAIN m.attendance)
  BY <1>1, FS_Interval
<1>3. IsFiniteSet(seats) /\ Cardinality(seats) \in Nat
  BY <1>2, FS_Subset, FS_CardinalityType
<1>4. AttestedHumans(m) = Cardinality(seats)
  BY DEF AttestedHumans
<1>5. seats = {} => Cardinality(seats) = 0
  BY FS_EmptySet
<1> QED BY <1>3, <1>4, <1>5

\* The least of a set of levels: the ceiling is the clearance of somebody who
\* attested, wherever somebody did.
LEMMA CeilingIsHeld ==
  ASSUME NEW m, m.attendance \in Seq(Attendee),
         \E i \in DOMAIN m.attendance : m.attendance[i].attested
  PROVE  \E i \in DOMAIN m.attendance :
           m.attendance[i].attested /\ Ceiling(m) = Cleared(m.attendance[i])
<1> DEFINE attested == { j \in DOMAIN m.attendance : m.attendance[j].attested }
           cleared == { Cleared(m.attendance[i]) : i \in attested }
<1>1. ASSUME NEW i \in DOMAIN m.attendance PROVE Cleared(m.attendance[i]) \in Levels
  <2>1. m.attendance[i] \in Attendee
    BY LenProperties, ElementOfSeq
  <2>2. m.attendance[i].clearance \in Levels \cup {None}
    BY <2>1 DEF Attendee
  <2> QED BY <2>2 DEF Cleared, Levels
<1>2. cleared \subseteq 0..3 /\ cleared # {}
  BY <1>1 DEF Levels
<1>3. ASSUME NEW S, S \subseteq 0..3, S # {} PROVE \E c \in S : \A d \in S : c <= d
  <2>1. \A d \in S : d \in {0, 1, 2, 3}
    BY <1>3
  <2>2. 0 \in S \/ 1 \in S \/ 2 \in S \/ 3 \in S
    BY <1>3, <2>1
  <2>3. PICK c \in S : \A d \in {0, 1, 2, 3} : d < c => d \notin S
    BY <2>2
  <2>4. \A d \in S : c <= d
    BY <2>1, <2>3
  <2> QED BY <2>4
<1>4. Ceiling(m) = CHOOSE c \in cleared : \A d \in cleared : c <= d
  BY <1>2 DEF Ceiling
<1>5. Ceiling(m) \in cleared
  <2> HIDE DEF cleared
  <2> QED BY <1>2, <1>3, <1>4
<1> QED BY <1>5

\* Whatever is called after a meeting is closed, it is inquorate exactly when
\* too few humans attested, and carries nothing above what its room may (MR-4).
THEOREM TheVerdictStands == Spec => []QuorumStands
<1>1. ShownIsSeen /\ QuorumInv /\ [Next]_vars => QuorumInv'
  BY QuorumStep
<1>2. ShownIsSeen /\ [Next]_vars => ShownIsSeen'
  BY StepShows
<1>3. QuorumInv => QuorumStands
  <2> SUFFICES ASSUME QuorumInv, NEW m \in Kept(mem) \cup Kept(disk), Closed(m)
               PROVE  /\ m.state = "inquorate" <=>
                           Cardinality({ i \in DOMAIN m.attendance :
                             m.attendance[i].human /\ m.attendance[i].attested }) < m.min
                      /\ m.state # "inquorate" => m.cls <= Ceiling(m)
    BY DEF QuorumStands
  <2>1. Judged(m)
    BY DEF QuorumInv, AllJudged, Kept
  <2>2. /\ AttestedHumans(m) \in Nat
        /\ AttestedHumans(m) # 0 => \E i \in DOMAIN m.attendance : m.attendance[i].attested
    BY <2>1, AttestedHumansCounted DEF Judged
  <2>3. m.state = "inquorate" <=> AttestedHumans(m) < m.min
    BY <2>1, <2>2 DEF Judged, IsQuorate
  <2>4. ASSUME m.state # "inquorate" PROVE m.cls <= Ceiling(m)
    <3>1. \E i \in DOMAIN m.attendance : m.attendance[i].attested
      BY <2>1, <2>2, <2>3, <2>4 DEF Judged
    <3>2. PICK i \in DOMAIN m.attendance :
            m.attendance[i].attested /\ Ceiling(m) = Cleared(m.attendance[i])
      BY <2>1, <3>1, CeilingIsHeld DEF Judged
    <3>3. Cleared(m.attendance[i]) >= m.cls /\ m.cls \in Levels
      BY <2>1, <3>2 DEF Judged, AdmitsCleared
    <3>4. Cleared(m.attendance[i]) \in Int
      <4>1. m.attendance[i] \in Attendee
        BY <2>1, LenProperties, ElementOfSeq DEF Judged
      <4> QED BY <4>1 DEF Attendee, Cleared, Levels
    <3> QED BY <3>2, <3>3, <3>4 DEF Levels
  <2>5. m.state = "inquorate" <=>
          Cardinality({ i \in DOMAIN m.attendance :
            m.attendance[i].human /\ m.attendance[i].attested }) < m.min
    BY <2>3 DEF AttestedHumans
  <2> QED BY <2>4, <2>5
<1> QED
  BY InitShows, InitQuorum, <1>1, <1>2, <1>3, PTL DEF Spec
-----------------------------------------------------------------------------
(* The minutes quote the log from the opening to the closing.              *)

\* What stands for "not opened" is not a position in the log.
NoneIsNoPosition == None \notin Nat

Running(set, id) == set[id] # None /\ set[id].state = "in-progress"
Over(set, id) == set[id] # None /\ Closed(set[id])

\* A meeting that is open remembers where the log stood when it was opened, and
\* one that is closed quotes the log from there to where it stood at the close.
Quotes(m, chain, s) ==
  /\ m.state = "in-progress" => m.opened = s.from
  /\ Closed(m) => m.minutes = Minutes(SubSeq(chain, s.from + 1, s.to))

AllQuote(set, chain, spans) ==
  \A id \in MeetingIds : set[id] # None => Quotes(set[id], chain, spans[id])

\* The disk may be behind memory in the life of a meeting, never ahead of it.
NotAhead(old, new) ==
  \A id \in MeetingIds :
    /\ Running(old, id) => Running(new, id) \/ Over(new, id)
    /\ Over(old, id) => Over(new, id)

WithinLog(spans, length) ==
  /\ DOMAIN spans = MeetingIds
  /\ \A id \in MeetingIds :
       /\ {"from", "to"} \subseteq DOMAIN spans[id]
       /\ spans[id].from \in Nat /\ spans[id].to \in 0..length

\* Until a write fails, memory and disk have the same chain; afterwards no more
\* operations start.
SameChain ==
  /\ degraded \in BOOLEAN
  /\ degraded => op.todo = <<>>
  /\ ~degraded => mem.chain = disk.chain

MinutesInv ==
  /\ AllQuote(mem.set, disk.chain, span) /\ AllQuote(disk.set, disk.chain, span)
  /\ NotAhead(disk.set, mem.set)
  /\ WithinLog(span, Len(disk.chain))
  /\ SameChain

LEMMA InitMinutes == Init => MinutesInv
<1> SUFFICES ASSUME Init PROVE MinutesInv
  OBVIOUS
<1>1. /\ mem.set = [id \in MeetingIds |-> None] /\ disk = mem /\ disk.chain = <<>>
      /\ op = [todo |-> <<>>, record |-> None] /\ degraded = FALSE
      /\ span = [id \in MeetingIds |-> [from |-> 0, to |-> 0]]
  BY DEF Init, InitLog, Idle
<1>2. WithinLog(span, Len(disk.chain))
  BY <1>1, Len(<<>>) = 0 DEF WithinLog
<1> QED BY <1>1, <1>2 DEF MinutesInv, AllQuote, NotAhead, Running, Over, SameChain

\* An operation changes one meeting, and perhaps where it stands in the log.
LEMMA MovesOne ==
  ASSUME MinutesInv, ShownIsSeen, NEW id \in MeetingIds, NEW m,
         mem' = [mem EXCEPT !.set = [mem.set EXCEPT ![id] = m]], disk' = disk,
         degraded' = degraded, degraded => op'.todo = <<>>,
         WithinLog(span', Len(disk.chain)), \A o \in MeetingIds \ {id} : span'[o] = span[o],
         m # None => Quotes(m, disk.chain, span'[id]),
         disk.set[id] # None => Quotes(disk.set[id], disk.chain, span'[id]),
         Running(disk.set, id) => m # None /\ (m.state = "in-progress" \/ Closed(m)),
         Over(disk.set, id) => m # None /\ Closed(m)
  PROVE  MinutesInv'
<1>1. mem'.set = [mem.set EXCEPT ![id] = m] /\ mem'.chain = mem.chain
  BY DEF ShownIsSeen
<1>2. mem'.set[id] = m /\ \A o \in MeetingIds \ {id} : mem'.set[o] = mem.set[o]
  BY <1>1 DEF ShownIsSeen, IsStore
<1>3. PICK new, later : new = mem'.set /\ later = span'
  OBVIOUS
<1>4. AllQuote(new, disk.chain, later)
  <2> SUFFICES ASSUME NEW o \in MeetingIds, new[o] # None
               PROVE  Quotes(new[o], disk.chain, later[o])
    BY DEF AllQuote
  <2>1. CASE o = id
    BY <2>1, <1>2, <1>3
  <2>2. CASE o # id
    <3>1. new[o] = mem.set[o] /\ later[o] = span[o]
      BY <2>2, <1>2, <1>3
    <3> QED BY <3>1 DEF MinutesInv, AllQuote
  <2> QED BY <2>1, <2>2
<1>5. AllQuote(disk.set, disk.chain, later)
  <2> SUFFICES ASSUME NEW o \in MeetingIds, disk.set[o] # None
               PROVE  Quotes(disk.set[o], disk.chain, later[o])
    BY DEF AllQuote
  <2>1. CASE o = id
    BY <2>1, <1>3
  <2>2. CASE o # id
    <3>1. later[o] = span[o]
      BY <2>2, <1>3
    <3> QED BY <3>1 DEF MinutesInv, AllQuote
  <2> QED BY <2>1, <2>2
<1>6. NotAhead(disk.set, new)
  <2> SUFFICES ASSUME NEW o \in MeetingIds
               PROVE  /\ Running(disk.set, o) => Running(new, o) \/ Over(new, o)
                      /\ Over(disk.set, o) => Over(new, o)
    BY DEF NotAhead
  <2>1. CASE o = id
    BY <2>1, <1>2, <1>3 DEF Running, Over
  <2>2. CASE o # id
    <3>1. new[o] = mem.set[o]
      BY <2>2, <1>2, <1>3
    <3> QED BY <3>1 DEF MinutesInv, NotAhead, Running, Over
  <2> QED BY <2>1, <2>2
<1>7. SameChain'
  BY <1>1 DEF MinutesInv, SameChain
<1> QED BY <1>3, <1>4, <1>5, <1>6, <1>7 DEF MinutesInv

\* The same, where the log position stays and the meeting quotes what it did.
LEMMA LeavesQuotes ==
  ASSUME MinutesInv, ShownIsSeen, NEW id \in MeetingIds, NEW m, mem.set[id] # None, m # None,
         mem' = [mem EXCEPT !.set = [mem.set EXCEPT ![id] = m]], disk' = disk, span' = span,
         degraded' = degraded, degraded => op'.todo = <<>>,
         m.minutes = mem.set[id].minutes, m.opened = mem.set[id].opened,
         m.state = "in-progress" <=> mem.set[id].state = "in-progress",
         Closed(m) <=> Closed(mem.set[id])
  PROVE  MinutesInv'
<1>1. Quotes(mem.set[id], disk.chain, span[id]) /\ WithinLog(span, Len(disk.chain))
  BY DEF MinutesInv, AllQuote
<1>2. Quotes(m, disk.chain, span[id])
  BY <1>1 DEF Quotes
<1>3. disk.set[id] # None => Quotes(disk.set[id], disk.chain, span[id])
  BY DEF MinutesInv, AllQuote
<1>4. /\ Running(disk.set, id) => m.state = "in-progress" \/ Closed(m)
      /\ Over(disk.set, id) => Closed(m)
  BY DEF MinutesInv, NotAhead, Running, Over
<1> QED BY <1>1, <1>2, <1>3, <1>4, MovesOne

LEMMA ScheduleMinutes ==
  ASSUME MinutesInv, ShownIsSeen, NEW id \in MeetingIds, NEW t \in Templates, Schedule(id, t)
  PROVE  MinutesInv'
<1> DEFINE m == [min |-> t.min, cls |-> t.cls, agenda |-> t.agenda, state |-> "scheduled",
                 frozen |-> None, opened |-> None, attendance |-> <<>>,
                 minutes |-> <<>>, decisions |-> <<>>, by |-> None]
<1>1. /\ mem' = [mem EXCEPT !.set = [mem.set EXCEPT ![id] = m]] /\ disk' = disk /\ span' = span
      /\ mem.set[id] = None /\ ~degraded /\ degraded' = degraded
  BY DEF Schedule, Save, Begin, Known, CheckNotDegraded
<1>2. Quotes(m, disk.chain, span[id])
  BY DEF Quotes, Closed
<1> HIDE DEF m
<1>3. ~Running(disk.set, id) /\ ~Over(disk.set, id)
  BY <1>1 DEF MinutesInv, NotAhead, Running, Over
<1>4. /\ WithinLog(span, Len(disk.chain))
      /\ disk.set[id] # None => Quotes(disk.set[id], disk.chain, span[id])
  BY DEF MinutesInv, AllQuote
<1> QED BY <1>1, <1>2, <1>3, <1>4, MovesOne

LEMMA AdmitMinutes ==
  ASSUME NoneIsNoMeeting, MinutesInv, ShownIsSeen, NEW id \in MeetingIds, NEW who,
         Admit(id, who)
  PROVE  MinutesInv'
<1> DEFINE m == [mem.set[id] EXCEPT !.attendance = Append(@, who)]
<1>1. /\ mem' = [mem EXCEPT !.set = [mem.set EXCEPT ![id] = m]] /\ disk' = disk /\ span' = span
      /\ mem.set[id] # None /\ ~degraded /\ degraded' = degraded
  BY DEF Admit, Save, Begin, Known, CheckNotDegraded
<1>2. Fields \subseteq DOMAIN mem.set[id]
  BY <1>1 DEF ShownIsSeen, IsStore
<1>3. /\ m.minutes = mem.set[id].minutes /\ m.opened = mem.set[id].opened
      /\ m.state = mem.set[id].state /\ "state" \in DOMAIN m
  BY <1>2 DEF Fields
<1> HIDE DEF m
<1> QED BY <1>1, <1>3, LeavesQuotes DEF Closed, NoneIsNoMeeting

LEMMA CloseRefusedMinutes ==
  ASSUME NoneIsNoMeeting, MinutesInv, ShownIsSeen, NEW id \in MeetingIds, CloseRefused(id)
  PROVE  MinutesInv'
<1> DEFINE kept == Decisions(OpenedAt(mem.set[id]), Window(mem.chain, OpenedAt(mem.set[id])))
           m == [mem.set[id] EXCEPT !.decisions = kept]
<1>1. /\ mem' = [mem EXCEPT !.set = [mem.set EXCEPT ![id] = m]] /\ disk' = disk /\ span' = span
      /\ mem.set[id] # None /\ ~degraded /\ degraded' = degraded
  BY DEF CloseRefused, Known, CheckNotDegraded
<1> HIDE DEF kept
<1>2. Fields \subseteq DOMAIN mem.set[id]
  BY <1>1 DEF ShownIsSeen, IsStore
<1>3. /\ m.minutes = mem.set[id].minutes /\ m.opened = mem.set[id].opened
      /\ m.state = mem.set[id].state /\ "state" \in DOMAIN m
  BY <1>2 DEF Fields
<1> HIDE DEF m
<1> QED BY <1>1, <1>3, LeavesQuotes DEF Closed, NoneIsNoMeeting

LEMMA RatifyMinutes ==
  ASSUME NoneIsNoMeeting, MinutesInv, ShownIsSeen, NEW id \in MeetingIds, NEW who,
         Ratify(id, who)
  PROVE  MinutesInv'
<1> DEFINE m == [mem.set[id] EXCEPT !.by = who, !.state = "ratified"]
<1>1. /\ mem' = [mem EXCEPT !.set = [mem.set EXCEPT ![id] = m]] /\ disk' = disk /\ span' = span
      /\ mem.set[id] # None /\ ~degraded /\ degraded' = degraded
      /\ mem.set[id].state = "awaiting"
  BY DEF Ratify, SaveAndRecord, Begin, Known, MayRatify, CheckNotDegraded
<1>2. Fields \subseteq DOMAIN mem.set[id]
  BY <1>1 DEF ShownIsSeen, IsStore
<1>3. /\ m.minutes = mem.set[id].minutes /\ m.opened = mem.set[id].opened
      /\ m.state = "ratified" /\ "state" \in DOMAIN m
  BY <1>2 DEF Fields
<1> HIDE DEF m
<1> QED BY <1>1, <1>3, LeavesQuotes DEF Closed, NoneIsNoMeeting
-----------------------------------------------------------------------------
\* Where a meeting stands in the log moves only when it opens, to the length the
\* meeting remembers, and when it closes, to the end of what it quotes.
LEMMA OpenMinutes ==
  ASSUME NoneIsNoMeeting, RecordInv, MinutesInv, NEW id \in MeetingIds, Open(id)
  PROVE  MinutesInv'
<1> DEFINE m == [mem.set[id] EXCEPT !.frozen = mem.set[id].agenda, !.state = "in-progress",
                                    !.opened = Len(mem.chain)]
<1>1. /\ mem' = [mem EXCEPT !.set = [mem.set EXCEPT ![id] = m]] /\ disk' = disk
      /\ span' = [span EXCEPT ![id].from = Len(disk.chain)]
      /\ mem.set[id] # None /\ ~degraded /\ degraded' = degraded
      /\ mem.set[id].state = "scheduled"
  BY DEF Open, Save, Begin, Known, MayOpen, CheckNotDegraded
<1>2. ShownIsSeen /\ Fields \subseteq DOMAIN mem.set[id]
  BY <1>1 DEF RecordInv, ShownIsSeen, IsStore
<1>3. m.opened = Len(mem.chain) /\ m.state = "in-progress" /\ "state" \in DOMAIN m
  BY <1>2 DEF Fields
<1> HIDE DEF m
<1>4. Len(disk.chain) \in Nat
  BY LenProperties DEF RecordInv, Formed
<1>5. WithinLog(span, Len(disk.chain))
  BY DEF MinutesInv
<1>6. /\ DOMAIN span' = MeetingIds /\ span'[id] = [span[id] EXCEPT !.from = Len(disk.chain)]
      /\ \A o \in MeetingIds \ {id} : span'[o] = span[o]
  BY <1>1, <1>5 DEF WithinLog
<1>7. /\ span'[id].from = Len(disk.chain) /\ span'[id].to = span[id].to
      /\ {"from", "to"} \subseteq DOMAIN span'[id]
  BY <1>5, <1>6 DEF WithinLog
<1>8. PICK later : later = span'
  OBVIOUS
<1>9. WithinLog(later, Len(disk.chain))
  <2>1. \A o \in MeetingIds : o = id \/ later[o] = span[o]
    BY <1>6, <1>8
  <2> QED BY <1>4, <1>5, <1>6, <1>7, <1>8, <2>1 DEF WithinLog
<1>10. Quotes(m, disk.chain, span'[id])
  BY <1>1, <1>3, <1>7 DEF Quotes, Closed, MinutesInv, SameChain
<1>11. ~Running(disk.set, id) /\ ~Over(disk.set, id)
  BY <1>1 DEF MinutesInv, NotAhead, Running, Over, Closed
<1>12. disk.set[id] # None => Quotes(disk.set[id], disk.chain, span'[id])
  BY <1>11 DEF Quotes, Running, Over
<1> QED BY <1>1, <1>2, <1>6, <1>8, <1>9, <1>10, <1>11, <1>12, MovesOne

LEMMA CloseMinutes ==
  ASSUME NoneIsNoMeeting, NoneIsNoPosition, RecordInv, MinutesInv, NEW id \in MeetingIds, Close(id)
  PROVE  MinutesInv'
<1> DEFINE judged == IF IsQuorate(mem.set[id]) THEN "awaiting" ELSE "inquorate"
           window == Window(mem.chain, OpenedAt(mem.set[id]))
           quoted == Minutes(window)
           m == [mem.set[id] EXCEPT !.decisions = Decisions(OpenedAt(mem.set[id]), window),
                                    !.minutes = quoted, !.state = judged]
<1>1. /\ mem' = [mem EXCEPT !.set = [mem.set EXCEPT ![id] = m]] /\ disk' = disk
      /\ span' = [span EXCEPT ![id].to = Len(disk.chain)]
      /\ mem.set[id] # None /\ ~degraded /\ degraded' = degraded
      /\ mem.set[id].state = "in-progress"
  BY DEF Close, Save, Begin, Known, CheckNotDegraded
<1>2. judged \in {"awaiting", "inquorate"}
  OBVIOUS
<1>3. ShownIsSeen /\ Fields \subseteq DOMAIN mem.set[id]
  BY <1>1 DEF RecordInv, ShownIsSeen, IsStore
<1>4. WithinLog(span, Len(disk.chain)) /\ Len(disk.chain) \in Nat
  BY LenProperties DEF MinutesInv, RecordInv, Formed
<1>5. /\ DOMAIN span' = MeetingIds /\ span'[id] = [span[id] EXCEPT !.to = Len(disk.chain)]
      /\ \A o \in MeetingIds \ {id} : span'[o] = span[o]
  BY <1>1, <1>4 DEF WithinLog
<1>6. /\ span'[id].to = Len(disk.chain) /\ span'[id].from = span[id].from
      /\ {"from", "to"} \subseteq DOMAIN span'[id]
  BY <1>4, <1>5 DEF WithinLog
<1>7. quoted = Minutes(SubSeq(disk.chain, span'[id].from + 1, span'[id].to))
  <2>1. mem.set[id].opened = span[id].from /\ mem.chain = disk.chain
    BY <1>1 DEF MinutesInv, AllQuote, Quotes, SameChain
  <2>2. OpenedAt(mem.set[id]) = span[id].from
    BY <1>4, <2>1 DEF OpenedAt, WithinLog, NoneIsNoPosition
  <2> QED BY <1>6, <2>1, <2>2 DEF Window
<1> HIDE DEF judged, quoted, window
<1>8. m.minutes = quoted /\ m.state = judged /\ "state" \in DOMAIN m
  BY <1>3 DEF Fields
<1> HIDE DEF m
<1>9. PICK later : later = span'
  OBVIOUS
<1>10. WithinLog(later, Len(disk.chain))
  <2>1. \A o \in MeetingIds : o = id \/ later[o] = span[o]
    BY <1>5, <1>9
  <2> QED BY <1>4, <1>5, <1>6, <1>9, <2>1 DEF WithinLog
<1>11. Quotes(m, disk.chain, span'[id]) /\ Closed(m) /\ m # None
  BY <1>2, <1>7, <1>8 DEF Quotes, Closed, NoneIsNoMeeting
<1>12. ~Over(disk.set, id)
  BY <1>1 DEF MinutesInv, NotAhead, Running, Over, Closed
<1>13. disk.set[id] # None => Quotes(disk.set[id], disk.chain, span'[id])
  BY <1>6, <1>12 DEF MinutesInv, AllQuote, Quotes, Over
<1> QED BY <1>1, <1>3, <1>5, <1>9, <1>10, <1>11, <1>12, <1>13, MovesOne
-----------------------------------------------------------------------------
\* What was quoted stays quoted: the log only grows, at its end.
LEMMA GrowsAtTheEnd ==
  ASSUME NEW S, NEW c \in Seq(S), NEW r, NEW from \in Nat, NEW to \in 0..Len(c)
  PROVE  SubSeq(Append(c, r), from + 1, to) = SubSeq(c, from + 1, to)
<1> DEFINE T == S \cup {r}
           d == Append(c, r)
<1>1. c \in Seq(T) /\ r \in T
  BY SeqMonotonic
<1> HIDE DEF T
<1>2. /\ d \in Seq(T) /\ Len(d) = Len(c) + 1 /\ Len(c) \in Nat
      /\ \A i \in 1..Len(c) : d[i] = c[i]
  BY <1>1, AppendProperties, LenProperties
<1> HIDE DEF d
<1>3. CASE from + 1 <= to
  <2>1. /\ SubSeq(d, from + 1, to) \in Seq(T) /\ SubSeq(c, from + 1, to) \in Seq(T)
        /\ Len(SubSeq(d, from + 1, to)) = to - (from + 1) + 1
        /\ Len(SubSeq(c, from + 1, to)) = to - (from + 1) + 1
        /\ \A i \in 1..(to - (from + 1) + 1) : SubSeq(d, from + 1, to)[i] = d[from + 1 + i - 1]
        /\ \A i \in 1..(to - (from + 1) + 1) : SubSeq(c, from + 1, to)[i] = c[from + 1 + i - 1]
    BY <1>1, <1>2, <1>3, SubSeqProperties
  <2>2. \A i \in 1..(to - (from + 1) + 1) : from + 1 + i - 1 \in 1..Len(c)
    BY <1>2
  <2> QED BY <1>2, <2>1, <2>2, SeqEqual
<1>4. CASE ~(from + 1 <= to)
  BY <1>1, <1>2, <1>4, SubSeqEmpty
<1> QED BY <1>3, <1>4 DEF d

LEMMA GainKeepsQuotes ==
  ASSUME RecordInv, MinutesInv, disk' = disk \/ DiskGains
  PROVE  /\ disk'.set = disk.set
         /\ AllQuote(mem.set, disk'.chain, span) /\ AllQuote(disk.set, disk'.chain, span)
         /\ WithinLog(span, Len(disk'.chain))
<1>1. CASE disk' = disk
  BY <1>1 DEF MinutesInv
<1>2. CASE DiskGains
  <2>1. PICK S : disk.chain \in Seq(S)
    BY DEF RecordInv, Formed
  <2>2. disk'.set = disk.set /\ disk'.chain = Append(disk.chain, op.record)
    BY <1>2 DEF DiskGains, RecordInv, ShownIsSeen
  <2>3. Len(disk'.chain) = Len(disk.chain) + 1 /\ Len(disk.chain) \in Nat
    <3>1. disk.chain \in Seq(S \cup {op.record})
      BY <2>1, SeqMonotonic
    <3> QED BY <2>2, <3>1, AppendProperties, LenProperties
  <2>4. WithinLog(span, Len(disk.chain)) /\ WithinLog(span, Len(disk'.chain))
    BY <2>3 DEF MinutesInv, WithinLog
  <2>5. \A id \in MeetingIds : SubSeq(disk'.chain, span[id].from + 1, span[id].to)
                               = SubSeq(disk.chain, span[id].from + 1, span[id].to)
    <3> SUFFICES ASSUME NEW id \in MeetingIds
                 PROVE  SubSeq(disk'.chain, span[id].from + 1, span[id].to)
                        = SubSeq(disk.chain, span[id].from + 1, span[id].to)
      OBVIOUS
    <3>1. span[id].from \in Nat /\ span[id].to \in 0..Len(disk.chain)
      BY <2>4 DEF WithinLog
    <3>2. SubSeq(Append(disk.chain, op.record), span[id].from + 1, span[id].to)
          = SubSeq(disk.chain, span[id].from + 1, span[id].to)
      BY <2>1, <3>1, GrowsAtTheEnd
    <3> QED BY <2>2, <3>2
  <2>6. PICK chain : chain = disk'.chain
    OBVIOUS
  <2>7. AllQuote(mem.set, chain, span) /\ AllQuote(disk.set, chain, span)
    BY <2>5, <2>6 DEF MinutesInv, AllQuote, Quotes
  <2> QED BY <2>2, <2>4, <2>6, <2>7
<1> QED BY <1>1, <1>2

LEMMA LogMinutes ==
  ASSUME RecordInv, RecordInv', MinutesInv, LogSteps, span' = span
  PROVE  MinutesInv'
<1>1. ShownIsSeen /\ Formed
  BY DEF RecordInv
<1>2. CASE SaveSet
  <2>1. /\ mem' = mem /\ disk'.set = mem.set /\ disk'.chain = disk.chain
        /\ degraded' = degraded /\ ~degraded
    BY <1>1, <1>2, HeadOf, PlansDiffer
    DEF SaveSet, ShownIsSeen, MinutesInv, SameChain, Writing
  <2> QED BY <2>1 DEF MinutesInv, AllQuote, NotAhead, SameChain
<1>3. CASE AppendRecord
  <2>1. /\ disk'.set = disk.set
        /\ AllQuote(mem.set, disk'.chain, span) /\ AllQuote(disk.set, disk'.chain, span)
        /\ WithinLog(span, Len(disk'.chain))
    BY <1>3, GainKeepsQuotes DEF AppendRecord
  <2>2. /\ mem'.set = mem.set /\ mem'.chain = Append(mem.chain, op.record)
        /\ disk'.chain = Append(disk.chain, op.record) /\ degraded' = degraded /\ ~degraded
    BY <1>1, <1>3 DEF AppendRecord, MemGains, DiskGains, ShownIsSeen, MinutesInv, SameChain, Writing
  <2>3. SameChain'
    BY <2>2 DEF MinutesInv, SameChain
  <2> QED BY <2>1, <2>2, <2>3 DEF MinutesInv, AllQuote, NotAhead
<1>4. CASE WriteFails
  <2>1. /\ disk'.set = disk.set
        /\ AllQuote(mem.set, disk'.chain, span) /\ AllQuote(disk.set, disk'.chain, span)
        /\ WithinLog(span, Len(disk'.chain))
    BY <1>4, GainKeepsQuotes DEF WriteFails, Interrupted
  <2>2. mem'.set = mem.set /\ degraded' = TRUE /\ op'.todo = <<>>
    BY <1>1, <1>4 DEF WriteFails, MemGains, ShownIsSeen, Idle
  <2> QED BY <2>1, <2>2 DEF MinutesInv, AllQuote, NotAhead, SameChain
<1>5. CASE Exit \/ Crash
  <2>1. /\ disk'.set = disk.set
        /\ AllQuote(mem.set, disk'.chain, span) /\ AllQuote(disk.set, disk'.chain, span)
        /\ WithinLog(span, Len(disk'.chain))
    BY <1>5, GainKeepsQuotes DEF Exit, Crash, Interrupted
  <2>2. mem' = disk' /\ degraded' = FALSE
    BY <1>5 DEF Exit, Crash, Ends
  <2> QED BY <2>1, <2>2 DEF MinutesInv, AllQuote, NotAhead, SameChain
<1>6. CASE Restart
  BY <1>6 DEF Restart, MinutesInv, SameChain
<1> QED BY <1>2, <1>3, <1>4, <1>5, <1>6 DEF LogSteps

LEMMA MinutesStep ==
  ASSUME NoneIsNoMeeting, NoneIsNoPosition, RecordInv, RecordInv', MinutesInv, [Next]_vars
  PROVE  MinutesInv'
<1>1. CASE \/ UNCHANGED vars
           \/ \E id \in MeetingIds : Show(id) \/ RegisterIntent(id)
  <2>1. UNCHANGED << mem, disk, op, degraded, span >>
    BY <1>1 DEF vars, logVars, Show, RegisterIntent
  <2> QED BY <2>1 DEF MinutesInv, SameChain
<1>2. CASE OtherAction
  <2>1. /\ mem'.set = mem.set /\ mem'.chain = mem.chain /\ ~degraded
        /\ UNCHANGED << disk, degraded, span >>
    BY <1>2 DEF OtherAction, Record, Begin, RecordInv, ShownIsSeen, CheckNotDegraded
  <2> QED BY <2>1 DEF MinutesInv, SameChain
<1>3. CASE LogStep
  BY <1>3, LogMinutes DEF LogStep
<1> QED
  BY <1>1, <1>2, <1>3, ScheduleMinutes, AdmitMinutes, OpenMinutes, CloseMinutes,
     CloseRefusedMinutes, RatifyMinutes
  DEF Next, RecordInv

\* Across every crash, failed write and reopening, what a closed meeting on disk
\* quotes is what the log gained between its opening and its closing.
THEOREM MinutesQuoteTheRecord ==
  NoneIsNoMeeting /\ NoneIsNoPosition => (Spec => []MinutesComplete)
<1> SUFFICES ASSUME NoneIsNoMeeting, NoneIsNoPosition PROVE Spec => []MinutesComplete
  OBVIOUS
<1>1. RecordInv /\ [Next]_vars => RecordInv'
  BY RecordStep
<1>2. RecordInv /\ RecordInv' /\ MinutesInv /\ [Next]_vars => MinutesInv'
  BY MinutesStep
<1>3. MinutesInv => MinutesComplete
  BY DEF MinutesInv, AllQuote, Quotes, MinutesComplete
<1> QED BY InitRecords, InitMinutes, <1>1, <1>2, <1>3, PTL DEF Spec
=============================================================================
