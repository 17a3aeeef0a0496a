------------------------------ MODULE Meetings ------------------------------
(***************************************************************************)
(* The meetings of one tenant: the lifecycle of the crate quorum-meetings  *)
(* as the backend drives it and store.rs keeps it, beside the evidence     *)
(* chain its minutes are composed from and its ratifications recorded in.  *)
(*                                                                         *)
(* The set of TenantLog is the file meetings.json.  A hash is the value    *)
(* that is hashed.  Titles, dates, the note of an attendee and the         *)
(* provenance line of the agenda are left out; dissent is always empty: no *)
(* operation of the backend records any.                                   *)
(***************************************************************************)
EXTENDS TenantLog, FiniteSets, TLC

CONSTANTS
  MeetingIds, Humans, Names, Agendas, Operator, Blank,
  Templates,   \* what a meeting may be scheduled as: [min, cls, agenda]
  Visitors,    \* who may be admitted: Attendees
  MaxSeats     \* bound: entries of one attendance list

Levels == 0..3          \* Public < Proprietary < CUI < ITAR
States == {"scheduled", "in-progress", "awaiting", "ratified", "inquorate"}

Attendee == [name : Names, human : BOOLEAN, attested : BOOLEAN,
             clearance : Levels \cup {None}]

ASSUME MeetingInputs ==
  /\ Templates \subseteq [min : Nat, cls : Levels, agenda : Agendas]
  /\ Visitors \subseteq Attendee
  /\ MaxSeats \in Nat /\ Humans \subseteq Names
  /\ Operator \in Humans \cup {None} /\ Blank \notin Humans
  /\ None \notin Humans \cup Agendas \cup MeetingIds

VARIABLES
  shown,       \* the content hash each open ceremony displays
  seen,        \* history: the content hashes a human was ever shown
  registered,  \* the meetings an on-chain registration was built for
  span         \* history: length of the log at the last opening and closing

vars == << logVars, shown, seen, registered, span >>

NothingShown == [id \in MeetingIds |-> None]

Init ==
  /\ InitLog([id \in MeetingIds |-> None])
  /\ shown = NothingShown /\ seen = {} /\ registered = {}
  /\ span = [id \in MeetingIds |-> [from |-> 0, to |-> 0]]
-----------------------------------------------------------------------------
Known(id) == mem.set[id] # None

Cleared(a) == IF a.clearance = None THEN 0 ELSE a.clearance
Attested(m) == SelectSeq(m.attendance, LAMBDA a : a.attested)

AttestedHumans(m) ==
  Cardinality({ i \in DOMAIN m.attendance : m.attendance[i].human /\ m.attendance[i].attested })

IsQuorate(m) == m.min >= 1 /\ AttestedHumans(m) >= m.min

\* MR-4: what the room may carry; an empty room may carry only Public.
Ceiling(m) ==
  LET cleared == { Cleared(m.attendance[i]) : i \in { j \in DOMAIN m.attendance : m.attendance[j].attested } }
  IN  IF cleared = {} THEN 0 ELSE CHOOSE c \in cleared : \A d \in cleared : c <= d

\* The content hash covers everything the minutes assert, and not who ratified.
Content(id, m) ==
  [id |-> id, cls |-> m.cls, agenda |-> m.frozen, minutes |-> m.minutes,
   decisions |-> m.decisions,
   attested |-> [i \in DOMAIN Attested(m) |-> Attested(m)[i].name]]

\* A record of the chain, and the line of the minutes it is quoted as.
ActionRecord == [class |-> "action", by |-> None, meeting |-> None, content |-> None]
RatifyRecord(id, content, who) ==
  [class |-> "meeting.ratify", by |-> who, meeting |-> id, content |-> content]
Line(r) == [class |-> r.class, by |-> r.by]
NoAction == [class |-> "No governed action was recorded", by |-> None]

Window(chain, from) == SubSeq(chain, from + 1, Len(chain))
Minutes(window) ==
  IF window = <<>> THEN <<NoAction>> ELSE [i \in DOMAIN window |-> Line(window[i])]
Decisions(from, window) == [i \in DOMAIN window |-> from + i]

\* Mutant: the opening position is not kept.
OpenedAtStart(m) == 0
OpenedAt(m) == IF m.opened = None THEN 0 ELSE m.opened
-----------------------------------------------------------------------------
\* A meeting id identifies one meeting, and a quorum of zero is refused.
Schedule(id, t) ==
  /\ Free /\ CheckNotDegraded
  /\ t.min # 0
  /\ ~Known(id)
  /\ Save([mem.set EXCEPT ![id] =
             [min |-> t.min, cls |-> t.cls, agenda |-> t.agenda, state |-> "scheduled",
              frozen |-> None, opened |-> None, attendance |-> <<>>,
              minutes |-> <<>>, decisions |-> <<>>, by |-> None]])
  /\ UNCHANGED << shown, seen, registered, span >>

AdmitsCleared(m, who) == who.attested => Cleared(who) >= m.cls

\* Mutant: only a meeting that is or may be ratified is closed to newcomers.
AdmitsLate(m) == m.state \notin {"awaiting", "ratified"}
AdmitsInTime(m) == m.state \in {"scheduled", "in-progress"}

Admit(id, who) ==
  /\ Free /\ CheckNotDegraded
  /\ Known(id) /\ Len(mem.set[id].attendance) < MaxSeats
  /\ AdmitsInTime(mem.set[id]) /\ AdmitsCleared(mem.set[id], who)
  /\ Save([mem.set EXCEPT ![id].attendance = Append(@, who)])
  /\ UNCHANGED << shown, seen, registered, span >>

MayOpen(m) == m.state = "scheduled"

\* The agenda freezes, and the window of the minutes begins.
Open(id) ==
  /\ Free /\ CheckNotDegraded
  /\ Known(id) /\ MayOpen(mem.set[id])
  /\ Save([mem.set EXCEPT ![id] = [@ EXCEPT !.frozen = mem.set[id].agenda, !.state = "in-progress",
                                            !.opened = Len(mem.chain)]])
  /\ span' = [span EXCEPT ![id].from = Len(disk.chain)]
  /\ UNCHANGED << shown, seen, registered >>

\* Quorum is judged here, against who attested.
Close(id) ==
  LET m      == mem.set[id]
      from   == OpenedAt(m)
      window == Window(mem.chain, from)
  IN  /\ Free /\ CheckNotDegraded
      /\ Known(id) /\ m.state = "in-progress"
      /\ Save([mem.set EXCEPT ![id] =
                 [m EXCEPT !.decisions = Decisions(from, window), !.minutes = Minutes(window),
                           !.state = IF IsQuorate(m) THEN "awaiting" ELSE "inquorate"]])
      /\ span' = [span EXCEPT ![id].to = Len(disk.chain)]
      /\ UNCHANGED << shown, seen, registered >>

\* The decisions are replaced before the transition is checked: a close that is
\* refused leaves the ones of the longer window behind, in memory.
CloseRefused(id) ==
  LET m    == mem.set[id]
      from == OpenedAt(m)
  IN  /\ Free /\ CheckNotDegraded
      /\ Known(id) /\ m.state # "in-progress"
      /\ mem' = [mem EXCEPT !.set[id].decisions = Decisions(from, Window(mem.chain, from))]
      /\ UNCHANGED << up, degraded, disk, op, crashes, failures >>
      /\ UNCHANGED << shown, seen, registered, span >>

\* A ratification ceremony opens on the hash the backend answers.
Show(id) ==
  /\ Free /\ Known(id)
  /\ shown' = [shown EXCEPT ![id] = Content(id, mem.set[id])]
  /\ seen' = seen \cup {Content(id, mem.set[id])}
  /\ UNCHANGED << logVars, registered, span >>

\* Mutant: the hash the signer was shown is not compared.
AnyHash(id) == TRUE
SameHash(id) == shown[id] = Content(id, mem.set[id])

MayRatify(m) == m.state = "awaiting"

\* An established operator is the only human a ratification may name.
Attributable(who) == Operator \in {None, who} /\ who # Blank

Ratify(id, who) ==
  /\ Free /\ CheckNotDegraded /\ CanRecord
  /\ Attributable(who)
  /\ Known(id) /\ shown[id] # None
  /\ MayRatify(mem.set[id]) /\ SameHash(id)
  /\ SaveAndRecord([mem.set EXCEPT ![id] = [@ EXCEPT !.by = who, !.state = "ratified"]],
                   RatifyRecord(id, shown[id], who))
  /\ UNCHANGED << shown, seen, registered, span >>

MayRegister(m) == m.state = "ratified"

\* The on-chain registration is built from the meeting as it is in memory,
\* by a process that may be degraded.
RegisterIntent(id) ==
  /\ Free
  /\ Known(id) /\ MayRegister(mem.set[id])
  /\ registered' = registered \cup {id}
  /\ UNCHANGED << logVars, shown, seen, span >>

\* Every other subsystem: a record of some governed action.
OtherAction ==
  /\ Free /\ CheckNotDegraded /\ CanRecord
  /\ Record(ActionRecord)
  /\ UNCHANGED << shown, seen, registered, span >>

\* The writes, failures and restarts of TenantLog; a ceremony dies with the process.
LogStep ==
  /\ LogSteps
  /\ shown' = IF up' THEN shown ELSE NothingShown
  /\ UNCHANGED << seen, registered, span >>
-----------------------------------------------------------------------------
Next ==
  \/ \E id \in MeetingIds, t \in Templates : Schedule(id, t)
  \/ \E id \in MeetingIds, who \in Visitors : Admit(id, who)
  \/ \E id \in MeetingIds : Open(id)
  \/ \E id \in MeetingIds : Close(id)
  \/ \E id \in MeetingIds : CloseRefused(id)
  \/ \E id \in MeetingIds : Show(id)
  \/ \E id \in MeetingIds, who \in Humans \cup {Blank} : Ratify(id, who)
  \/ \E id \in MeetingIds : RegisterIntent(id)
  \/ OtherAction
  \/ LogStep

Spec == Init /\ [][Next]_vars
-----------------------------------------------------------------------------
Closed(m) == m.state \in {"awaiting", "ratified", "inquorate"}
Kept(store) == { m \in { store.set[id] : id \in MeetingIds } : m # None }

\* Quorum is judged once, at close, and the judgement stays true: whatever is
\* called afterwards, nobody joins a closed meeting, and a meeting that waits
\* for or has a signature was attended by enough attested humans and (MR-4)
\* carries nothing above what its room may.
QuorumStands ==
  \A m \in Kept(mem) \cup Kept(disk) :
    Closed(m) =>
      /\ m.state = "inquorate" <=>
           Cardinality({ i \in DOMAIN m.attendance :
                           m.attendance[i].human /\ m.attendance[i].attested }) < m.min
      /\ m.state # "inquorate" => m.cls <= Ceiling(m)

\* The minutes are the governed record: across restarts, a closed meeting
\* quotes every record the log gained between its opening and its closing,
\* and no other.
MinutesComplete ==
  \A id \in MeetingIds :
    LET m == disk.set[id] IN
    m # None /\ Closed(m) =>
      m.minutes = Minutes(SubSeq(disk.chain, span[id].from + 1, span[id].to))

\* Nothing is signed that nobody saw: a meeting becomes ratified only with
\* content a ratification ceremony displayed.
RatifiedAsSeen ==
  [][\A id \in MeetingIds :
       op'.todo # <<>> /\ op.todo = <<>> /\ mem'.set[id] # None /\ mem.set[id] # None
         /\ mem'.set[id].state = "ratified" /\ mem.set[id].state # "ratified"
         => Content(id, mem'.set[id]) \in seen]_vars

Ratifications(id) ==
  { n \in DOMAIN disk.chain : disk.chain[n].class = "meeting.ratify" /\ disk.chain[n].meeting = id }

\* A ratification in the evidence is of a meeting that is ratified on disk, by
\* the same human, and no meeting is ratified twice; as long as nothing failed,
\* a ratified meeting has such a record (the save comes before it); and as long
\* as no save failed, what was registered on chain is ratified for good: the
\* registration looks only at the memory, which a failed save leaves ahead.
RatificationsOnRecord ==
  \A id \in MeetingIds :
    /\ \A n \in Ratifications(id) :
         disk.set[id] # None /\ disk.set[id].state = "ratified"
         /\ disk.set[id].by = disk.chain[n].by
    /\ Cardinality(Ratifications(id)) <= 1
    /\ Free /\ crashes = 0 /\ failures = 0 /\ disk.set[id] # None
            /\ disk.set[id].state = "ratified" => Ratifications(id) # {}
    /\ failures = 0 /\ id \in registered =>
         disk.set[id] # None /\ disk.set[id].state = "ratified"

\* A ratified meeting is immutable: its content is the one that was signed.
SignedMinutesStand ==
  \A id \in MeetingIds : \A n \in Ratifications(id) :
    up => Content(id, mem.set[id]) = disk.chain[n].content
=============================================================================
