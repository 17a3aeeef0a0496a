-------------------------------- MODULE Rooms ---------------------------------
(***************************************************************************)
(* Rooms (rooms.rs): MLS groups on a relay, in which the operator and the  *)
(* agents of this app hold a seat each.  A seat is a session with the      *)
(* relay; the app keeps the seats of all of them, the rooms with their     *)
(* rosters, and one transcript, behind one asynchronous mutex.             *)
(*                                                                         *)
(* The mutex is held across the calls to the relay, so operations do not   *)
(* interleave, but opening a room is made of many such calls, any of which *)
(* may fail and leave behind what was done before it.  Admission (MR-4) is *)
(* judged earlier, under the backend's mutex.                              *)
(*                                                                         *)
(* Of the sessions, which are not part of this repository, only what       *)
(* rooms.rs relies on is modelled: a session joins the group of the next   *)
(* Welcome it was pushed, sends to the group it entered last (send_text is *)
(* not told which), and decrypts what is sent to any group it is in.       *)
(* System lines of the transcript are left out.                            *)
(***************************************************************************)
EXTENDS Naturals, Sequences, FiniteSets

CONSTANTS
  Operators, Agents,
  Levels,        \* classifications, ordered
  Texts,
  None,
  MaxGroups,     \* bound: groups created
  MaxLogins,     \* bound: login ceremonies
  MaxAsked,      \* bound: requests to open that wait for the mutex
  MaxSaid,       \* bound: things said
  MaxChanges,    \* bound: changes of an agent's clearance
  MaxFailures    \* bound: openings that fail half way

Principals == Operators \cup Agents
GroupIds == 1..MaxGroups
Ceremonies == 1..MaxLogins

ASSUME SeatsDistinct == Operators \cap Agents = {}
ASSUME LevelsNat == Levels \subseteq Nat
ASSUME RoomBounds == {MaxGroups, MaxLogins, MaxAsked, MaxSaid, MaxChanges, MaxFailures}
                       \subseteq Nat

VARIABLES
  clears,      \* the highest ceiling among an agent's live grants, None without one
  seats,       \* principal -> its session, or None
  pending,     \* the login that waits for a signature
  logins,      \* login ceremonies so far; each is approved sooner or later, or not
  asked,       \* requests to open a room that passed MR-4 and wait for the mutex
  op,          \* the opening under way
  rooms,       \* group -> the room, or None
  groups,      \* groups created so far
  transcript,
  said,        \* history: what was said by whom, in which room it was meant, where it went
  changes, failures

talk == << transcript, said >>
bounds == << changes, failures >>
vars == << clears, seats, pending, logins, asked, op, rooms, groups, talk, bounds >>

Seat == [groups : SUBSET GroupIds, channel : GroupIds \cup {None}, welcomes : Seq(GroupIds),
         inbox : Seq([group : GroupIds, sender : Principals, text : Texts])]
Room == [cls : Levels, changed : SUBSET Agents, roster : SUBSET Principals]
ASSUME NoneIsNoSeat == None \notin Seat
ASSUME NoneIsNoRoom == None \notin Room

NewSeat == [groups |-> {}, channel |-> None, welcomes |-> <<>>, inbox |-> <<>>]
NoOp == [step |-> "none", req |-> None, left |-> {}]

Init ==
  /\ clears = [a \in Agents |-> None]
  /\ seats = [p \in Principals |-> None]
  /\ pending = None /\ logins = 0
  /\ asked = {} /\ op = NoOp
  /\ rooms = [g \in GroupIds |-> None] /\ groups = 0
  /\ transcript = <<>> /\ said = <<>>
  /\ changes = 0 /\ failures = 0

Free == op = NoOp
Seated(p) == seats[p] # None
-----------------------------------------------------------------------------
(* Grants are issued, revoked and expire under another mutex. *)

Cleared(a, cls) == clears[a] # None /\ clears[a] >= cls

\* Whoever was judged before, by the old grants, is marked.
Marked(room, a) == [room EXCEPT !.changed = @ \cup {a}]

GrantsChange(a, ceiling) ==
  /\ clears[a] # ceiling
  /\ changes < MaxChanges /\ changes' = changes + 1
  /\ clears' = [clears EXCEPT ![a] = ceiling]
  /\ asked' = { Marked(r, a) : r \in asked }
  /\ op' = IF Free THEN op ELSE [op EXCEPT !.req = Marked(@, a)]
  /\ rooms' = [g \in GroupIds |-> IF rooms[g] = None THEN None ELSE Marked(rooms[g], a)]
  /\ UNCHANGED << seats, pending, logins, groups, talk, failures >>
-----------------------------------------------------------------------------
(* The operator's own seat: a login in two phases. *)

\* Mutant: an operator may log in again over the seat it holds.
MayConnectAgain(o) == TRUE
MayConnect(o) == ~Seated(o)

\* A later intent takes the place of one that still waits.
ConnectIntent(o) ==
  /\ Free /\ MayConnect(o) /\ logins < MaxLogins
  /\ logins' = logins + 1
  /\ pending' = [who |-> o, ceremony |-> logins + 1]
  /\ UNCHANGED << clears, seats, asked, op, rooms, groups, talk, bounds >>

\* The signature of ceremony c arrives: whatever it turns out to be good for,
\* the pending login is used up.
ConnectComplete(c) ==
  /\ Free /\ pending # None /\ c <= logins
  /\ pending' = None
  /\ \/ UNCHANGED seats
     \/ /\ c = pending.ceremony
        /\ seats' = [seats EXCEPT ![pending.who] = NewSeat]
  /\ UNCHANGED << clears, logins, asked, op, rooms, groups, talk, bounds >>
-----------------------------------------------------------------------------
(* Opening a room. *)

\* Mutant: an agent that holds a seat already is not judged again.
AdmitsTheSeated(a, cls) == Seated(a) \/ Cleared(a, cls)
Admits(a, cls) == Cleared(a, cls)

\* MR-4, under the backend's mutex, before the rooms' own is waited for.
AskToOpen(o, agents, cls) ==
  /\ Cardinality(asked) < MaxAsked
  /\ \A a \in agents : Admits(a, cls)
  /\ asked' = asked \cup { [operator |-> o, agents |-> agents, cls |-> cls, changed |-> {}] }
  /\ UNCHANGED << clears, seats, pending, logins, op, rooms, groups, talk, bounds >>

StartOpen(req) ==
  /\ Free /\ groups < MaxGroups
  /\ asked' = asked \ {req}
  /\ op' = IF Seated(req.operator)
           THEN [step |-> "login", req |-> req, left |-> req.agents] ELSE NoOp
  /\ UNCHANGED << clears, seats, pending, logins, rooms, groups, talk, bounds >>

Opening(step) == op.step = step
Advance(step, left) == op' = [op EXCEPT !.step = step, !.left = left]

\* An agent that is not connected yet logs in and publishes its KeyPackage.
LoginAgent(a) ==
  /\ Opening("login") /\ a \in op.left
  /\ Advance("login", op.left \ {a})
  /\ seats' = IF Seated(a) THEN seats ELSE [seats EXCEPT ![a] = NewSeat]
  /\ UNCHANGED << clears, pending, logins, asked, rooms, groups, talk, bounds >>

Enters(seat, g) == [groups |-> seat.groups \cup {g}, channel |-> g,
                    welcomes |-> seat.welcomes, inbox |-> seat.inbox]

\* The operator creates the group; the relay pushes a Welcome to every agent.
CreateGroup ==
  /\ Opening("login") /\ op.left = {}
  /\ groups' = groups + 1
  /\ seats' = [p \in Principals |->
                 IF p = op.req.operator THEN Enters(seats[p], groups')
                 ELSE IF p \in op.req.agents
                      THEN [seats[p] EXCEPT !.welcomes = Append(@, groups')]
                 ELSE seats[p]]
  /\ Advance("join", op.req.agents)
  /\ UNCHANGED << clears, pending, logins, asked, rooms, talk, bounds >>

\* join_next_channel: the oldest Welcome the session has not used.
JoinAgent(a) ==
  /\ Opening("join") /\ a \in op.left
  /\ Advance("join", op.left \ {a})
  /\ seats' = [seats EXCEPT ![a] =
                 Enters([seats[a] EXCEPT !.welcomes = Tail(@)], Head(seats[a].welcomes))]
  /\ UNCHANGED << clears, pending, logins, asked, rooms, groups, talk, bounds >>

\* The last group created is the one being opened: the mutex is held.
OpenRoom ==
  /\ Opening("join") /\ op.left = {}
  /\ rooms' = [rooms EXCEPT ![groups] =
                 [cls |-> op.req.cls, changed |-> op.req.changed,
                  roster |-> {op.req.operator} \cup op.req.agents]]
  /\ op' = NoOp
  /\ UNCHANGED << clears, seats, pending, logins, asked, groups, talk, bounds >>

\* Any call to the vault or the relay may fail, and the opening ends there:
\* seats that logged in stay, agents that joined stay in the group.
OpenFails ==
  /\ ~Free /\ (op.left # {} \/ Opening("login")) /\ failures < MaxFailures
  /\ failures' = failures + 1
  /\ op' = NoOp
  /\ UNCHANGED << clears, seats, pending, logins, asked, rooms, groups, talk, changes >>
-----------------------------------------------------------------------------
(* Closing a room, and the kill switch. *)

\* Mutant: the room goes, the seats stay.
NoOrphans(open) == {}
\* Agents on no roster; the operator's seat is kept.
Orphans(open) ==
  { a \in Agents : Seated(a) /\ \A g \in GroupIds : open[g] # None => a \notin open[g].roster }

\* An orphan's seat is dropped, and its session with it.
Prune(open) ==
  /\ rooms' = open
  /\ seats' = [p \in Principals |-> IF p \in Orphans(open) THEN None ELSE seats[p]]

Leave(g) ==
  /\ Free /\ rooms[g] # None
  /\ Prune([rooms EXCEPT ![g] = None])
  /\ UNCHANGED << clears, pending, logins, asked, op, groups, talk, bounds >>

Evict(g, a) ==
  /\ Free /\ rooms[g] # None /\ a \in rooms[g].roster \ Operators
  /\ Prune([rooms EXCEPT ![g].roster = @ \ {a}])
  /\ UNCHANGED << clears, pending, logins, asked, op, groups, talk, bounds >>
-----------------------------------------------------------------------------
(* What is said and heard. *)

Line(room, who, known, text) == [room |-> room, who |-> who, known |-> known, text |-> text]

\* Whoever holds a seat may say something in any room it names; it goes to the
\* group of its session, and is written down here at once.
Say(p, room, text) ==
  /\ Free /\ Seated(p) /\ seats[p].channel # None
  /\ Len(said) < MaxSaid
  /\ LET to == seats[p].channel
         heard == [group |-> to, sender |-> p, text |-> text]
     IN  /\ seats' = [q \in Principals |->
                        IF q # p /\ Seated(q) /\ to \in seats[q].groups
                        THEN [seats[q] EXCEPT !.inbox = Append(@, heard)] ELSE seats[q]]
         /\ said' = Append(said, [who |-> p, text |-> text])
  /\ transcript' = Append(transcript, Line(room, p, TRUE, text))
  /\ UNCHANGED << clears, pending, logins, asked, op, rooms, groups, bounds >>

\* Mutant: every seat that decrypts it writes it down.
NotYetWritten(line) == TRUE
AlreadyWritten(line) == \E n \in DOMAIN transcript : transcript[n] = line
IsNew(line) == ~AlreadyWritten(line)

\* An agent has an address of its own; every operator logs in with the one
\* wallet of this app.
SameAddress(p, q) == p = q \/ {p, q} \subseteq Operators

\* A sender is shown as a principal whose seat has its address now, or else as
\* the address itself.
ShownAs(sender) ==
  LET holders == { q \in Principals : Seated(q) /\ SameAddress(q, sender) }
  IN  IF holders = {} THEN { <<sender, FALSE>> } ELSE { <<q, TRUE>> : q \in holders }

\* rooms_events takes what has arrived for each seat; here one envelope at a
\* time, which is a call that finds only one.
Drain(q) ==
  /\ Free /\ Seated(q) /\ seats[q].inbox # <<>>
  /\ \E shown \in ShownAs(Head(seats[q].inbox).sender) :
       LET heard == Head(seats[q].inbox)
           line == Line(heard.group, shown[1], shown[2], heard.text)
       IN  transcript' = IF IsNew(line) THEN Append(transcript, line) ELSE transcript
  /\ seats' = [seats EXCEPT ![q].inbox = Tail(@)]
  /\ UNCHANGED << clears, pending, logins, asked, op, rooms, groups, said, bounds >>
-----------------------------------------------------------------------------
Next ==
  \/ \E a \in Agents, ceiling \in Levels \cup {None} : GrantsChange(a, ceiling)
  \/ \E o \in Operators : ConnectIntent(o)
  \/ \E c \in Ceremonies : ConnectComplete(c)
  \/ \E o \in Operators, agents \in SUBSET Agents, cls \in Levels : AskToOpen(o, agents, cls)
  \/ \E req \in asked : StartOpen(req)
  \/ \E a \in Agents : LoginAgent(a) \/ JoinAgent(a)
  \/ CreateGroup \/ OpenRoom \/ OpenFails
  \/ \E g \in GroupIds : Leave(g) \/ \E a \in Agents : Evict(g, a)
  \/ \E p \in Principals, g \in 1..groups, text \in Texts : Say(p, g, text)
  \/ \E q \in Principals : Drain(q)

Spec == Init /\ [][Next]_vars
-----------------------------------------------------------------------------
Open(g) == rooms[g] # None
Hears(p, g) == Seated(p) /\ g \in seats[p].groups

\* MR-4 over the sessions that can decrypt, not over the rosters: an agent in
\* the group of an open room is cleared to the room's classification, unless
\* its grants changed after it was judged; half-failed openings, shared agents
\* and evictions included.
MembersCleared ==
  \A g \in GroupIds, a \in Agents :
    Open(g) /\ Hears(a, g) => a \in rooms[g].changed \/ Cleared(a, rooms[g].cls)

\* Whenever a room is closed or an agent evicted, no agent keeps a session
\* unless it is on the roster of an open room, seats that a failed opening left
\* behind included.
ClosingSweeps ==
  [][(\E g \in GroupIds :
         Open(g) /\ (rooms'[g] = None \/ rooms'[g].roster # rooms[g].roster))
       => \A a \in Agents : seats'[a] # None =>
            \E g \in GroupIds : rooms'[g] # None /\ a \in rooms'[g].roster]_vars

\* In no room does anybody appear to say a thing more often than they did,
\* although several seats decrypt the same message.
SaidOnce ==
  \A g \in GroupIds, p \in Principals, text \in Texts :
    Cardinality({ n \in DOMAIN transcript : transcript[n] = Line(g, p, TRUE, text) })
      <= Cardinality({ n \in DOMAIN said : said[n].who = p /\ said[n].text = text })

\* A room's roster is who is in it, through evictions, closed rooms and agents
\* shared between rooms, as long as no opening failed: one that did may leave a
\* Welcome behind, which the next opening takes for its own.
RosterIsLive ==
  failures = 0 => \A g \in GroupIds : Open(g) => \A p \in rooms[g].roster : Hears(p, g)
=============================================================================
