----------------------------- MODULE RoomsProofs ------------------------------
(***************************************************************************)
(* MR-4 over sessions, for any principals, levels, groups, failures and    *)
(* changes of grants: whoever can decrypt an open room was cleared for it, *)
(* or its grants changed after that was judged.                            *)
(*                                                                         *)
(* The invariant follows a session's way into a group: an agent is judged  *)
(* when a room is asked for, is sent a Welcome while the room is opened,   *)
(* and uses it then or at a later opening.                                 *)
(*                                                                         *)
(* That closing a room leaves no seat behind follows from the same         *)
(* invariant.  That a roster is who is in the room, as long as no opening  *)
(* failed, needs that nobody holds a Welcome but to the group being opened.*)
(***************************************************************************)
EXTENDS Rooms, FiniteSetTheorems, SequenceTheorems, TLAPS

Request == [operator : Operators, agents : SUBSET Agents, cls : Levels, changed : SUBSET Agents]
Running == [step : {"login", "join"}, req : Request, left : SUBSET Agents]

Typed ==
  /\ clears \in [Agents -> Levels \cup {None}]
  /\ seats \in [Principals -> Seat \cup {None}]
  /\ pending # None => pending.who \in Operators
  /\ asked \subseteq Request /\ op \in Running \cup {NoOp}
  /\ rooms \in [GroupIds -> Room \cup {None}] /\ groups \in 0..MaxGroups

\* Who was judged and not marked since is cleared.
Judged(agents, changed, cls) == \A a \in agents : a \in changed \/ Cleared(a, cls)
RequestsJudged == \A r \in asked : Judged(r.agents, r.changed, r.cls)
OpeningJudged == op # NoOp => Judged(op.req.agents, op.req.changed, op.req.cls)

\* Who an opening still needs holds a seat, and the Welcome it is to use.
Ready ==
  op # NoOp =>
    /\ Seated(op.req.operator) /\ op.left \subseteq op.req.agents
    /\ \A a \in op.req.agents : op.step = "join" \/ a \notin op.left => Seated(a)
    /\ op.step = "join" => \A a \in op.left : seats[a].welcomes # <<>>

\* Groups are numbered in order, and the one being opened is not a room yet.
Numbered ==
  /\ \A g \in GroupIds : g > groups => rooms[g] = None
  /\ op.step = "login" => groups < MaxGroups
  /\ op.step = "join" => groups > 0 /\ rooms[groups] = None

\* An agent in a group, or on its way into one, may be there.
Fits(a, g) ==
  /\ g <= groups
  /\ Open(g) => a \in rooms[g].changed \/ Cleared(a, rooms[g].cls)
  /\ op.step = "join" /\ g = groups => a \in op.req.agents
Held(seat) == seat.groups \cup { seat.welcomes[n] : n \in DOMAIN seat.welcomes }
AllFit == \A a \in Agents : Seated(a) => \A g \in Held(seats[a]) : Fits(a, g)

Admitted == Typed /\ RequestsJudged /\ OpeningJudged /\ Ready /\ Numbered /\ AllFit

LEMMA Bounds == MaxGroups \in Nat
BY RoomBounds

LEMMA NewSeatIsEmpty == NewSeat \in Seat /\ Held(NewSeat) = {} /\ NewSeat # None
<1>1. NewSeat \in Seat
  BY DEF NewSeat, Seat
<1>2. Held(NewSeat) = {}
  BY DEF NewSeat, Held
<1> QED
  BY <1>1, <1>2, NoneIsNoSeat

LEMMA HeldAreGroups ==
  ASSUME NEW seat \in Seat
  PROVE  Held(seat) \subseteq GroupIds
<1>1. seat.groups \subseteq GroupIds /\ seat.welcomes \in Seq(GroupIds)
  BY DEF Seat
<1>2. \A n \in DOMAIN seat.welcomes : seat.welcomes[n] \in GroupIds
  BY <1>1
<1> QED
  BY <1>1, <1>2 DEF Held

LEMMA InitAdmits == Init => Admitted
<1> SUFFICES ASSUME Init PROVE Admitted
  OBVIOUS
<1>1. Typed
  BY Bounds DEF Init, Typed, NoOp, GroupIds
<1> QED
  BY <1>1, Bounds
     DEF Init, Admitted, RequestsJudged, OpeningJudged, Ready, Numbered, AllFit, Seated, NoOp, GroupIds,
         Principals
-----------------------------------------------------------------------------
\* Nobody enters or is sent anything, and no seat but an operator's is new.
LEMMA NobodyEnters ==
  ASSUME AllFit,
         \A a \in Agents : Seated(a)' => \/ Seated(a) /\ Held(seats'[a]) \subseteq Held(seats[a])
                                         \/ Held(seats'[a]) = {},
         \A a \in Agents, g \in GroupIds : Fits(a, g) => Fits(a, g)',
         Typed
  PROVE  AllFit'
<1> SUFFICES ASSUME NEW a \in Agents, Seated(a)', NEW g \in Held(seats'[a])
             PROVE  Fits(a, g)'
  BY DEF AllFit
<1>1. Seated(a) /\ g \in Held(seats[a])
  OBVIOUS
<1>2. g \in GroupIds
  BY <1>1, HeldAreGroups DEF Typed, Seated, Principals
<1> QED
  BY <1>1, <1>2 DEF AllFit

LEMMA GrantsAdmit ==
  ASSUME Admitted, NEW a \in Agents, NEW ceiling \in Levels \cup {None}, GrantsChange(a, ceiling)
  PROVE  Admitted'
<1>1. /\ clears' = [clears EXCEPT ![a] = ceiling]
      /\ asked' = { Marked(r, a) : r \in asked }
      /\ op' = IF op = NoOp THEN op ELSE [op EXCEPT !.req = Marked(@, a)]
      /\ rooms' = [g \in GroupIds |-> IF rooms[g] = None THEN None ELSE Marked(rooms[g], a)]
      /\ seats' = seats /\ pending' = pending /\ groups' = groups
  BY DEF GrantsChange, Free
<1>2. \A b \in Agents : b # a => clears'[b] = clears[b]
  BY <1>1 DEF Admitted, Typed
<1>3. \A r \in Request \cup Room :
        /\ Marked(r, a).cls = r.cls /\ Marked(r, a).changed = r.changed \cup {a}
        /\ r \in Request => Marked(r, a) \in Request /\ Marked(r, a).agents = r.agents
                            /\ Marked(r, a).operator = r.operator
        /\ r \in Room => Marked(r, a) \in Room
  BY DEF Request, Room, Marked
<1>4. op # NoOp => /\ op \in Running /\ op.req \in Request
                   /\ op' \in Running /\ op'.req = Marked(op.req, a)
                   /\ op'.step = op.step /\ op'.left = op.left
  BY <1>1, <1>3 DEF Admitted, Typed, Running
<1>5. op = NoOp => op' = NoOp
  BY <1>1
<1>6. Typed'
  BY <1>1, <1>3, <1>4, <1>5 DEF Admitted, Typed
<1>7. RequestsJudged'
  BY <1>1, <1>2, <1>3 DEF Admitted, Typed, RequestsJudged, Judged, Request, Cleared
<1>8. op' # NoOp => op # NoOp
  BY <1>5
<1>9. OpeningJudged'
  BY <1>2, <1>3, <1>4, <1>8 DEF Admitted, OpeningJudged, Judged, Request, Cleared
<1>10. Ready'
  BY <1>1, <1>3, <1>4, <1>8 DEF Admitted, Ready, Seated
<1>11. op'.step = op.step
  BY <1>4, <1>5
<1>12. Numbered'
  BY <1>1, <1>11, Bounds DEF Admitted, Typed, Numbered, GroupIds
<1>13. ASSUME NEW b \in Agents, NEW g \in GroupIds, Fits(b, g) PROVE Fits(b, g)'
  <2>1. rooms'[g] # None =>
          /\ rooms[g] # None /\ rooms[g] \in Room
          /\ rooms'[g].cls = rooms[g].cls /\ rooms'[g].changed = rooms[g].changed \cup {a}
    BY <1>1, <1>3 DEF Admitted, Typed
  <2>2. (Open(g) => b \in rooms[g].changed \/ Cleared(b, rooms[g].cls))'
    BY <1>2, <1>13, <2>1 DEF Fits, Open, Cleared
  <2>3. op'.step = "join" => op # NoOp /\ op'.req.agents = op.req.agents
    BY <1>3, <1>4, <1>5 DEF NoOp
  <2> QED
    BY <1>1, <1>11, <1>13, <2>2, <2>3 DEF Fits, Open
<1>14. AllFit'
  BY <1>1, <1>13, NobodyEnters DEF Admitted, Seated
<1> QED
  BY <1>6, <1>7, <1>9, <1>10, <1>12, <1>14 DEF Admitted
-----------------------------------------------------------------------------
\* A login is of an operator: no agent's seat changes.
LEMMA ConnectsAdmit ==
  ASSUME Admitted,
         \/ \E o \in Operators : ConnectIntent(o)
         \/ \E c \in Ceremonies : ConnectComplete(c)
  PROVE  Admitted'
<1>1. UNCHANGED << clears, asked, op, rooms, groups >> /\ op = NoOp
  BY DEF ConnectIntent, ConnectComplete, Free
<1>2. pending' # None => pending'.who \in Operators
  BY DEF ConnectIntent, ConnectComplete
<1>3. seats' = seats \/ \E o \in Operators : seats' = [seats EXCEPT ![o] = NewSeat]
  BY DEF ConnectIntent, ConnectComplete, Admitted, Typed
<1>4. \A a \in Agents : seats'[a] = seats[a]
  BY <1>3, SeatsDistinct DEF Admitted, Typed, Principals
<1>5. Typed'
  BY <1>1, <1>2, <1>3, NewSeatIsEmpty DEF Admitted, Typed
<1>6. RequestsJudged' /\ OpeningJudged' /\ Ready' /\ Numbered'
  BY <1>1 DEF Admitted, RequestsJudged, OpeningJudged, Ready, Numbered, Judged, Cleared, NoOp
<1>7. AllFit'
  BY <1>1, <1>4, NobodyEnters DEF Admitted, Seated, Fits, Open, Cleared
<1> QED
  BY <1>5, <1>6, <1>7 DEF Admitted
-----------------------------------------------------------------------------
\* MR-4 is judged when a room is asked for.
LEMMA AskAdmits ==
  ASSUME Admitted, NEW o \in Operators, NEW agents \in SUBSET Agents, NEW cls \in Levels,
         AskToOpen(o, agents, cls)
  PROVE  Admitted'
<1> DEFINE req == [operator |-> o, agents |-> agents, cls |-> cls, changed |-> {}]
<1>1. /\ UNCHANGED << clears, seats, pending, op, rooms, groups >>
      /\ asked' = asked \cup {req}
      /\ \A a \in agents : Cleared(a, cls)
  BY DEF AskToOpen, Admits
<1>2. req \in Request
  BY DEF Request
<1>3. Typed'
  BY <1>1, <1>2 DEF Admitted, Typed
<1>4. RequestsJudged'
  BY <1>1 DEF Admitted, RequestsJudged, Judged, Cleared
<1>5. OpeningJudged' /\ Ready' /\ Numbered' /\ AllFit'
  BY <1>1 DEF Admitted, OpeningJudged, Ready, Numbered, AllFit, Judged, Cleared, Seated, Fits, Open
<1> QED
  BY <1>3, <1>4, <1>5 DEF Admitted

\* No agent needs a seat before the opening has logged it in.
LEMMA StartAdmits ==
  ASSUME Admitted, NEW req \in asked, StartOpen(req)
  PROVE  Admitted'
<1> DEFINE new == [step |-> "login", req |-> req, left |-> req.agents]
<1>1. /\ UNCHANGED << clears, seats, pending, rooms, groups >>
      /\ asked' = asked \ {req} /\ op = NoOp /\ groups < MaxGroups
      /\ op' = IF Seated(req.operator) THEN new ELSE NoOp
  BY DEF StartOpen, Free
<1>2. req \in Request /\ req.agents \subseteq Agents
  BY DEF Admitted, Typed, Request
<1>3. new \in Running
  BY <1>2 DEF Running
<1>4. Typed'
  BY <1>1, <1>3 DEF Admitted, Typed
<1>5. RequestsJudged' /\ OpeningJudged'
  BY <1>1 DEF Admitted, RequestsJudged, OpeningJudged, Judged, Cleared
<1>6. Ready' /\ Numbered'
  BY <1>1 DEF Admitted, Ready, Numbered, Seated, NoOp
<1>7. AllFit'
  BY <1>1 DEF Admitted, AllFit, Seated, Fits, Open, Cleared, NoOp
<1> QED
  BY <1>4, <1>5, <1>6, <1>7 DEF Admitted

\* The opening's record while it advances.
LEMMA Advances ==
  ASSUME op \in Running, NEW step \in {"login", "join"}, NEW left \in SUBSET Agents,
         Advance(step, left)
  PROVE  op' \in Running /\ op'.step = step /\ op'.left = left /\ op'.req = op.req
BY DEF Advance, Running

LEMMA OpeningRuns ==
  ASSUME Typed, Opening("login") \/ Opening("join")
  PROVE  op # NoOp /\ op \in Running /\ op.req \in Request /\ op.left \subseteq Agents
BY DEF Typed, Opening, NoOp, Running

LEMMA LoginAdmits ==
  ASSUME Admitted, NEW a \in Agents, LoginAgent(a)
  PROVE  Admitted'
<1>1. /\ UNCHANGED << clears, pending, asked, rooms, groups >>
      /\ Opening("login") /\ Advance("login", op.left \ {a})
      /\ seats' = IF Seated(a) THEN seats ELSE [seats EXCEPT ![a] = NewSeat]
  BY DEF LoginAgent
<1>2. op # NoOp /\ op \in Running /\ op.left \subseteq Agents /\ op.step = "login"
  BY <1>1, OpeningRuns DEF Admitted, Opening
<1>3. op' \in Running /\ op'.step = "login" /\ op'.left = op.left \ {a} /\ op'.req = op.req
  BY <1>1, <1>2, Advances
<1>4. /\ seats' \in [Principals -> Seat \cup {None}] /\ Seated(a)'
      /\ \A p \in Principals : p # a \/ Seated(p) => seats'[p] = seats[p]
      /\ ~Seated(a) => seats'[a] = NewSeat
  BY <1>1, NewSeatIsEmpty DEF Admitted, Typed, Seated, Principals
<1>5. Typed'
  BY <1>1, <1>3, <1>4 DEF Admitted, Typed
<1>6. RequestsJudged' /\ OpeningJudged' /\ Numbered'
  BY <1>1, <1>2, <1>3
     DEF Admitted, RequestsJudged, OpeningJudged, Numbered, Judged, Cleared
<1>7. Ready'
  <2>1. op.req.operator \in Principals /\ op.req.agents \subseteq Principals
    BY <1>2 DEF Running, Request, Principals
  <2> QED
    BY <1>2, <1>3, <1>4, <2>1 DEF Admitted, Ready, Seated
<1>8. AllFit'
  <2>1. \A b \in Agents : Seated(b)' => \/ Seated(b) /\ Held(seats'[b]) \subseteq Held(seats[b])
                                        \/ Held(seats'[b]) = {}
    BY <1>4, NewSeatIsEmpty DEF Principals, Seated
  <2>2. \A b \in Agents, g \in GroupIds : Fits(b, g) => Fits(b, g)'
    BY <1>1, <1>3 DEF Fits, Open, Cleared
  <2> QED
    BY <2>1, <2>2, NobodyEnters DEF Admitted
<1> QED
  BY <1>5, <1>6, <1>7, <1>8 DEF Admitted
-----------------------------------------------------------------------------
\* What entering a group, or a Welcome to one, makes of a seat.
LEMMA EntersKeeps ==
  ASSUME NEW seat \in Seat, NEW g \in GroupIds
  PROVE  /\ Enters(seat, g) \in Seat
         /\ Held(Enters(seat, g)) = Held(seat) \cup {g}
         /\ Enters(seat, g).welcomes = seat.welcomes
<1>1. Enters(seat, g) = [groups |-> seat.groups \cup {g}, channel |-> g,
                         welcomes |-> seat.welcomes, inbox |-> seat.inbox]
  BY DEF Enters
<1>2. Enters(seat, g) \in Seat
  BY <1>1 DEF Seat
<1> QED
  BY <1>1, <1>2 DEF Held

LEMMA WelcomesChange ==
  ASSUME NEW seat \in Seat, NEW welcomes
  PROVE  [seat EXCEPT !.welcomes = welcomes]
           = [groups |-> seat.groups, channel |-> seat.channel,
              welcomes |-> welcomes, inbox |-> seat.inbox]
BY DEF Seat

Invited(seat, g) == [seat EXCEPT !.welcomes = Append(@, g)]

LEMMA InvitedKeeps ==
  ASSUME NEW seat \in Seat, NEW g \in GroupIds
  PROVE  /\ Invited(seat, g) \in Seat
         /\ Held(Invited(seat, g)) = Held(seat) \cup {g}
         /\ Invited(seat, g).welcomes # <<>>
<1>1. seat.welcomes \in Seq(GroupIds)
  BY DEF Seat
<1>2. Invited(seat, g) = [groups |-> seat.groups, channel |-> seat.channel,
                          welcomes |-> Append(seat.welcomes, g), inbox |-> seat.inbox]
  BY WelcomesChange DEF Invited
<1>3. Append(seat.welcomes, g) \in Seq(GroupIds)
  BY <1>1
<1>4. Invited(seat, g) \in Seat
  BY <1>2, <1>3 DEF Seat
<1>5. /\ DOMAIN Append(seat.welcomes, g) = DOMAIN seat.welcomes \cup {Len(seat.welcomes) + 1}
      /\ Append(seat.welcomes, g)[Len(seat.welcomes) + 1] = g
      /\ \A n \in DOMAIN seat.welcomes : Append(seat.welcomes, g)[n] = seat.welcomes[n]
  BY <1>1
<1>6. { Append(seat.welcomes, g)[n] : n \in DOMAIN Append(seat.welcomes, g) }
        = { seat.welcomes[n] : n \in DOMAIN seat.welcomes } \cup {g}
  <2> DEFINE now == Append(seat.welcomes, g)
             before == seat.welcomes
  <2>1. /\ DOMAIN now = DOMAIN before \cup {Len(before) + 1} /\ now[Len(before) + 1] = g
        /\ \A n \in DOMAIN before : now[n] = before[n]
    BY <1>5
  <2> HIDE DEF now, before
  <2>2. { now[n] : n \in DOMAIN now } = { before[n] : n \in DOMAIN before } \cup {g}
    BY <2>1
  <2> QED
    BY <2>2 DEF now, before
<1>7. Append(seat.welcomes, g) # <<>>
  BY <1>1
<1>8. Invited(seat, g).groups = seat.groups /\ Invited(seat, g).welcomes = Append(seat.welcomes, g)
  BY <1>2
<1>9. Held(Invited(seat, g)) = Held(seat) \cup {g}
  BY <1>6, <1>8 DEF Held
<1> QED
  BY <1>4, <1>7, <1>8, <1>9

\* Using the oldest Welcome leads into a group the seat was on its way into.
Joined(seat) == Enters([seat EXCEPT !.welcomes = Tail(@)], Head(seat.welcomes))

LEMMA JoinedKeeps ==
  ASSUME NEW seat \in Seat, seat.welcomes # <<>>
  PROVE  Joined(seat) \in Seat /\ Held(Joined(seat)) \subseteq Held(seat)
<1> DEFINE before == seat.welcomes
           rest == [seat EXCEPT !.welcomes = Tail(@)]
<1>1. before \in Seq(GroupIds) /\ before # <<>>
  BY DEF Seat
<1>2. /\ Tail(before) \in Seq(GroupIds) /\ Head(before) \in GroupIds
      /\ Head(before) = before[1] /\ 1 \in DOMAIN before
      /\ \A n \in DOMAIN Tail(before) : n + 1 \in DOMAIN before /\ Tail(before)[n] = before[n + 1]
  BY <1>1
<1>3. rest = [groups |-> seat.groups, channel |-> seat.channel,
              welcomes |-> Tail(before), inbox |-> seat.inbox]
  BY WelcomesChange
<1>4. rest \in Seat
  BY <1>2, <1>3 DEF Seat
<1>5. Held(rest) \subseteq Held(seat)
  BY <1>2, <1>3 DEF Held
<1>6. Head(before) \in Held(seat)
  BY <1>2 DEF Held
<1> HIDE DEF before, rest
<1>7. Enters(rest, Head(before)) \in Seat /\ Held(Enters(rest, Head(before))) = Held(rest) \cup {Head(before)}
  BY <1>2, <1>4, EntersKeeps
<1> QED
  BY <1>5, <1>6, <1>7 DEF Joined, before, rest

LEMMA JoinAdmits ==
  ASSUME Admitted, NEW a \in Agents, JoinAgent(a)
  PROVE  Admitted'
<1>1. /\ UNCHANGED << clears, pending, asked, rooms, groups >>
      /\ Opening("join") /\ a \in op.left /\ Advance("join", op.left \ {a})
      /\ seats' = [seats EXCEPT ![a] = Joined(seats[a])]
  BY DEF JoinAgent, Joined
<1>2. op # NoOp /\ op \in Running /\ op.left \subseteq Agents /\ op.step = "join"
  BY <1>1, OpeningRuns DEF Admitted, Opening
<1>3. op' \in Running /\ op'.step = "join" /\ op'.left = op.left \ {a} /\ op'.req = op.req
  BY <1>1, <1>2, Advances
<1>4. Seated(a) /\ seats[a] \in Seat /\ seats[a].welcomes # <<>>
  BY <1>1, <1>2 DEF Admitted, Typed, Ready, Seated, Principals
<1>5. Joined(seats[a]) \in Seat /\ Held(Joined(seats[a])) \subseteq Held(seats[a])
      /\ Joined(seats[a]) # None
  BY <1>4, JoinedKeeps, NoneIsNoSeat
<1>6. /\ seats' \in [Principals -> Seat \cup {None}] /\ Seated(a)' /\ seats'[a] = Joined(seats[a])
      /\ \A p \in Principals \ {a} : seats'[p] = seats[p]
  BY <1>1, <1>5 DEF Admitted, Typed, Seated, Principals
<1>7. Typed'
  BY <1>1, <1>3, <1>6 DEF Admitted, Typed
<1>8. RequestsJudged' /\ OpeningJudged' /\ Numbered'
  BY <1>1, <1>2, <1>3
     DEF Admitted, RequestsJudged, OpeningJudged, Numbered, Judged, Cleared
<1>9. Ready'
  <2>1. op.req.operator \in Principals /\ op.req.agents \subseteq Principals
    BY <1>2 DEF Running, Request, Principals
  <2> QED
    BY <1>2, <1>3, <1>6, <2>1 DEF Admitted, Ready, Seated
<1>10. AllFit'
  <2>1. \A b \in Agents : Seated(b)' => Seated(b) /\ Held(seats'[b]) \subseteq Held(seats[b])
    BY <1>4, <1>5, <1>6 DEF Principals, Seated
  <2>2. \A b \in Agents, g \in GroupIds : Fits(b, g) => Fits(b, g)'
    BY <1>1, <1>2, <1>3 DEF Fits, Open, Cleared
  <2> QED
    BY <2>1, <2>2, NobodyEnters DEF Admitted
<1> QED
  BY <1>7, <1>8, <1>9, <1>10 DEF Admitted
-----------------------------------------------------------------------------
\* Those who are sent a Welcome to the new group were judged for its room.
LEMMA CreateAdmits ==
  ASSUME Admitted, CreateGroup
  PROVE  Admitted'
<1> DEFINE new == groups + 1
           agents == op.req.agents
           host == op.req.operator
<1>1. /\ UNCHANGED << clears, pending, asked, rooms >>
      /\ Opening("login") /\ op.left = {} /\ Advance("join", agents)
      /\ groups' = new
      /\ seats' = [p \in Principals |->
                     IF p = host THEN Enters(seats[p], new)
                     ELSE IF p \in agents THEN Invited(seats[p], new) ELSE seats[p]]
  BY DEF CreateGroup, Invited
<1>2. op # NoOp /\ op \in Running /\ op.req \in Request /\ op.step = "login"
  BY <1>1, OpeningRuns DEF Admitted, Opening
<1>3. host \in Operators /\ agents \subseteq Agents /\ host \notin agents
  BY <1>2, SeatsDistinct DEF Request
<1>4. op' \in Running /\ op'.step = "join" /\ op'.left = agents /\ op'.req = op.req
  BY <1>1, <1>2, <1>3, Advances
<1>5. new \in GroupIds /\ groups \in Nat /\ rooms[new] = None /\ new \in 0..MaxGroups
  BY <1>2, Bounds DEF Admitted, Typed, Numbered, GroupIds
<1>6. \A p \in agents \cup {host} : Seated(p) /\ seats[p] \in Seat
  BY <1>1, <1>2, <1>3 DEF Admitted, Ready, Typed, Seated, Principals
<1> HIDE DEF new
<1>7. /\ Enters(seats[host], new) \in Seat
      /\ \A a \in agents : /\ Invited(seats[a], new) \in Seat
                           /\ Held(Invited(seats[a], new)) = Held(seats[a]) \cup {new}
                           /\ Invited(seats[a], new).welcomes # <<>>
  BY <1>5, <1>6, EntersKeeps, InvitedKeeps
<1>8. /\ seats'[host] = Enters(seats[host], new)
      /\ \A a \in agents : seats'[a] = Invited(seats[a], new)
      /\ \A a \in Agents \ agents : seats'[a] = seats[a]
      /\ seats' \in [Principals -> Seat \cup {None}]
  <2>1. /\ seats'[host] = Enters(seats[host], new)
        /\ \A a \in agents : seats'[a] = Invited(seats[a], new)
        /\ \A a \in Agents \ agents : seats'[a] = seats[a]
    BY <1>1, <1>3, SeatsDistinct DEF Principals
  <2>2. \A p \in Principals : seats'[p] \in Seat \cup {None}
    BY <1>1, <1>7 DEF Admitted, Typed
  <2> QED
    BY <1>1, <2>1, <2>2
<1>9. Typed'
  BY <1>1, <1>4, <1>5, <1>8 DEF Admitted, Typed
<1>10. RequestsJudged' /\ OpeningJudged'
  BY <1>1, <1>2, <1>4 DEF Admitted, RequestsJudged, OpeningJudged, Judged, Cleared
<1>11. \A p \in agents \cup {host} : Seated(p)'
  BY <1>7, <1>8, NoneIsNoSeat DEF Seated
<1>12. Ready'
  BY <1>4, <1>7, <1>8, <1>11 DEF Ready
<1>13. Numbered'
  BY <1>1, <1>4, <1>5 DEF Admitted, Typed, Numbered, GroupIds, new
<1>14. ASSUME NEW a \in Agents, Seated(a)', NEW g \in Held(seats'[a]) PROVE Fits(a, g)'
  <2>1. CASE g \in Held(seats[a]) /\ Seated(a)
    <3>1. Fits(a, g) /\ g \in GroupIds
      BY <2>1, HeldAreGroups DEF Admitted, AllFit, Typed, Seated, Principals
    <3>2. g <= groups' /\ g # groups'
      BY <1>1, <1>5, <3>1 DEF Fits, GroupIds, new
    <3> QED
      BY <1>1, <3>1, <3>2 DEF Fits, Open, Cleared
  <2>2. CASE g = new /\ a \in agents
    BY <1>1, <1>4, <1>5, <2>2 DEF Fits, Open
  <2>3. CASE a \notin agents
    BY <1>8, <1>14, <2>1, <2>3 DEF Seated
  <2>4. CASE a \in agents
    BY <1>6, <1>7, <1>8, <1>14, <2>1, <2>2, <2>4
  <2> QED
    BY <2>3, <2>4
<1>15. AllFit'
  BY <1>14 DEF AllFit
<1> QED
  BY <1>9, <1>10, <1>12, <1>13, <1>15 DEF Admitted

\* The group becomes a room, and whoever is in it was asked for with the room.
LEMMA OpensAdmit ==
  ASSUME Admitted, OpenRoom
  PROVE  Admitted'
<1> DEFINE room == [cls |-> op.req.cls, changed |-> op.req.changed,
                    roster |-> {op.req.operator} \cup op.req.agents]
<1>1. /\ UNCHANGED << clears, seats, pending, asked, groups >>
      /\ Opening("join") /\ op' = NoOp
      /\ rooms' = [rooms EXCEPT ![groups] = room]
  BY DEF OpenRoom
<1>2. op # NoOp /\ op \in Running /\ op.req \in Request /\ op.step = "join"
  BY <1>1, OpeningRuns DEF Admitted, Opening
<1>3. room \in Room /\ room.cls = op.req.cls /\ room.changed = op.req.changed
  BY <1>2 DEF Request, Room, Principals
<1>4. groups \in GroupIds
  BY <1>2, Bounds DEF Admitted, Typed, Numbered, GroupIds
<1> HIDE DEF room
<1>5. rooms'[groups] = room /\ \A g \in GroupIds \ {groups} : rooms'[g] = rooms[g]
  BY <1>1, <1>4 DEF Admitted, Typed
<1>6. Typed'
  BY <1>1, <1>3 DEF Admitted, Typed
<1>7. RequestsJudged' /\ OpeningJudged' /\ Ready'
  BY <1>1 DEF Admitted, RequestsJudged, OpeningJudged, Ready, Judged, Cleared, NoOp
<1>8. Numbered'
  BY <1>1, <1>4, <1>5 DEF Admitted, Typed, Numbered, NoOp, GroupIds
<1>9. ASSUME NEW a \in Agents, NEW g \in GroupIds, Fits(a, g) PROVE Fits(a, g)'
  <2>1. CASE g = groups
    <3>1. a \in op.req.agents
      BY <1>2, <1>9, <2>1 DEF Fits
    <3>2. a \in op.req.changed \/ Cleared(a, op.req.cls)
      BY <1>2, <3>1 DEF Admitted, OpeningJudged, Judged
    <3> QED
      BY <1>1, <1>3, <1>5, <1>9, <2>1, <3>2 DEF Fits, Open, Cleared, NoOp
  <2>2. CASE g # groups
    BY <1>1, <1>5, <1>9, <2>2 DEF Fits, Open, Cleared, NoOp
  <2> QED
    BY <2>1, <2>2
<1>10. AllFit'
  BY <1>1, <1>9, NobodyEnters DEF Admitted, Seated
<1> QED
  BY <1>6, <1>7, <1>8, <1>10 DEF Admitted

\* A failed opening leaves seats and Welcomes behind, to a group that never
\* becomes a room.
LEMMA FailsAdmit ==
  ASSUME Admitted, OpenFails
  PROVE  Admitted'
<1>1. UNCHANGED << clears, seats, pending, asked, rooms, groups >> /\ op' = NoOp
  BY DEF OpenFails
<1>2. Typed'
  BY <1>1 DEF Admitted, Typed
<1>3. RequestsJudged' /\ OpeningJudged' /\ Ready' /\ Numbered'
  BY <1>1 DEF Admitted, RequestsJudged, OpeningJudged, Ready, Numbered, Judged, Cleared, NoOp
<1>4. AllFit'
  BY <1>1 DEF Admitted, AllFit, Seated, Fits, Open, Cleared, NoOp
<1> QED
  BY <1>2, <1>3, <1>4 DEF Admitted
-----------------------------------------------------------------------------
\* Closing a room or evicting an agent only takes seats away.
LEMMA PruneAdmits ==
  ASSUME Admitted, NEW open \in [GroupIds -> Room \cup {None}], Free, Prune(open),
         \A g \in GroupIds : open[g] # None =>
             Open(g) /\ open[g].cls = rooms[g].cls /\ open[g].changed = rooms[g].changed,
         UNCHANGED << clears, pending, asked, op, groups >>
  PROVE  Admitted'
<1>1. /\ rooms' = open /\ op = NoOp /\ op' = NoOp
      /\ seats' = [p \in Principals |-> IF p \in Orphans(open) THEN None ELSE seats[p]]
  BY DEF Prune, Free
<1>2. Typed'
  BY <1>1 DEF Admitted, Typed
<1>3. RequestsJudged' /\ OpeningJudged' /\ Ready'
  BY <1>1 DEF Admitted, RequestsJudged, OpeningJudged, Ready, Judged, Cleared
<1>4. Numbered'
  BY <1>1 DEF Admitted, Numbered, NoOp, Open
<1>5. AllFit'
  <2>1. \A a \in Agents : Seated(a)' => Seated(a) /\ seats'[a] = seats[a]
    BY <1>1 DEF Seated, Principals
  <2>2. \A a \in Agents, g \in GroupIds : Fits(a, g) => Fits(a, g)'
    BY <1>1 DEF Fits, Open, Cleared, NoOp
  <2> QED
    BY <2>1, <2>2, NobodyEnters DEF Admitted
<1> QED
  BY <1>2, <1>3, <1>4, <1>5 DEF Admitted

LEMMA LeaveAdmits ==
  ASSUME Admitted, NEW g \in GroupIds, Leave(g)
  PROVE  Admitted'
<1> DEFINE open == [rooms EXCEPT ![g] = None]
<1>1. Free /\ Prune(open) /\ UNCHANGED << clears, pending, asked, op, groups >>
  BY DEF Leave
<1>2. /\ open \in [GroupIds -> Room \cup {None}]
      /\ \A h \in GroupIds : open[h] # None => open[h] = rooms[h]
  BY DEF Admitted, Typed
<1> HIDE DEF open
<1> QED
  BY <1>1, <1>2, PruneAdmits DEF Open

LEMMA EvictAdmits ==
  ASSUME Admitted, NEW g \in GroupIds, NEW a \in Agents, Evict(g, a)
  PROVE  Admitted'
<1> DEFINE left == [rooms[g] EXCEPT !.roster = @ \ {a}]
           open == [rooms EXCEPT ![g] = left]
<1>1. /\ Free /\ Prune(open) /\ rooms[g] # None
      /\ UNCHANGED << clears, pending, asked, op, groups >>
  BY DEF Evict
<1>2. rooms[g] \in Room
  BY <1>1 DEF Admitted, Typed
<1>3. left \in Room /\ left.cls = rooms[g].cls /\ left.changed = rooms[g].changed
  BY <1>2 DEF Room
<1> HIDE DEF left
<1>4. /\ open \in [GroupIds -> Room \cup {None}]
      /\ open[g] = left /\ \A h \in GroupIds \ {g} : open[h] = rooms[h]
  BY <1>3 DEF Admitted, Typed
<1> HIDE DEF open
<1> QED
  BY <1>1, <1>3, <1>4, PruneAdmits DEF Open
-----------------------------------------------------------------------------
\* Talking changes what seats have heard.
Talks ==
  /\ Free /\ UNCHANGED << clears, pending, asked, op, rooms, groups, bounds >>
  /\ seats' \in [Principals -> Seat \cup {None}]
  /\ \A p \in Principals : (Seated(p)' <=> Seated(p))
                          /\ (Seated(p) => /\ seats'[p].groups = seats[p].groups
                                           /\ seats'[p].welcomes = seats[p].welcomes)

LEMMA TalkAdmits ==
  ASSUME Admitted, Talks
  PROVE  Admitted'
<1>1. Typed'
  BY DEF Talks, Admitted, Typed
<1>2. RequestsJudged' /\ OpeningJudged' /\ Ready' /\ Numbered'
  BY DEF Talks, Admitted, RequestsJudged, OpeningJudged, Ready, Numbered, Judged, Cleared, Free
<1>3. \A a \in Agents : Seated(a)' => Seated(a) /\ Held(seats'[a]) = Held(seats[a])
  BY DEF Talks, Held, Principals
<1>4. AllFit'
  BY <1>3, NobodyEnters DEF Talks, Admitted, Fits, Open, Cleared
<1> QED
  BY <1>1, <1>2, <1>4 DEF Admitted

\* A seat whose inbox changes.
LEMMA InboxChange ==
  ASSUME NEW seat \in Seat, NEW inbox \in Seq([group : GroupIds, sender : Principals, text : Texts])
  PROVE  /\ [seat EXCEPT !.inbox = inbox] \in Seat
         /\ [seat EXCEPT !.inbox = inbox].groups = seat.groups
         /\ [seat EXCEPT !.inbox = inbox].welcomes = seat.welcomes
<1>1. [seat EXCEPT !.inbox = inbox] = [groups |-> seat.groups, channel |-> seat.channel,
                                       welcomes |-> seat.welcomes, inbox |-> inbox]
  BY DEF Seat
<1>2. /\ seat.groups \in SUBSET GroupIds /\ seat.channel \in GroupIds \cup {None}
      /\ seat.welcomes \in Seq(GroupIds)
  BY DEF Seat
<1> QED
  BY <1>1, <1>2 DEF Seat

LEMMA SayTalks ==
  ASSUME Admitted, NEW p \in Principals, NEW room, NEW text \in Texts, Say(p, room, text)
  PROVE  Talks
<1> DEFINE to == seats[p].channel
           heard == [group |-> to, sender |-> p, text |-> text]
           Hearing(q) == q # p /\ Seated(q) /\ to \in seats[q].groups
           told(q) == [seats[q] EXCEPT !.inbox = Append(@, heard)]
<1>1. /\ Free /\ Seated(p) /\ to # None
      /\ UNCHANGED << clears, pending, asked, op, rooms, groups, bounds >>
      /\ seats' = [q \in Principals |-> IF Hearing(q) THEN told(q) ELSE seats[q]]
  BY DEF Say
<1>2. \A q \in Principals : Seated(q) => seats[q] \in Seat
  BY DEF Admitted, Typed, Seated
<1>3. heard \in [group : GroupIds, sender : Principals, text : Texts]
  BY <1>1, <1>2 DEF Seat
<1>4. ASSUME NEW q \in Principals, Seated(q)
      PROVE  /\ told(q) \in Seat /\ told(q).groups = seats[q].groups
             /\ told(q).welcomes = seats[q].welcomes
  <2>1. seats[q].inbox \in Seq([group : GroupIds, sender : Principals, text : Texts])
    BY <1>2, <1>4 DEF Seat
  <2>2. Append(seats[q].inbox, heard) \in Seq([group : GroupIds, sender : Principals, text : Texts])
    <3> HIDE DEF heard
    <3> QED
      BY <1>3, <2>1
  <2> QED
    BY <1>2, <1>4, <2>2, InboxChange
<1> HIDE DEF told
<1>5. seats' \in [Principals -> Seat \cup {None}]
  BY <1>1, <1>4 DEF Admitted, Typed
<1>6. \A q \in Principals : (Seated(q)' <=> Seated(q))
                          /\ (Seated(q) => /\ seats'[q].groups = seats[q].groups
                                           /\ seats'[q].welcomes = seats[q].welcomes)
  BY <1>1, <1>4, NoneIsNoSeat DEF Seated
<1> QED
  BY <1>1, <1>5, <1>6 DEF Talks

LEMMA DrainTalks ==
  ASSUME Admitted, NEW q \in Principals, Drain(q)
  PROVE  Talks
<1> DEFINE drained == [seats[q] EXCEPT !.inbox = Tail(@)]
<1>1. /\ Free /\ Seated(q) /\ seats[q].inbox # <<>>
      /\ UNCHANGED << clears, pending, asked, op, rooms, groups, bounds >>
      /\ seats' = [seats EXCEPT ![q] = drained]
  BY DEF Drain
<1>2. seats[q] \in Seat
  BY <1>1 DEF Admitted, Typed, Seated
<1>3. seats[q].inbox \in Seq([group : GroupIds, sender : Principals, text : Texts])
  BY <1>2 DEF Seat
<1>4. Tail(seats[q].inbox) \in Seq([group : GroupIds, sender : Principals, text : Texts])
  BY <1>1, <1>3
<1>5. /\ drained \in Seat /\ drained.groups = seats[q].groups
      /\ drained.welcomes = seats[q].welcomes
  BY <1>2, <1>4, InboxChange
<1> HIDE DEF drained
<1>6. seats' \in [Principals -> Seat \cup {None}] /\ seats'[q] = drained
      /\ \A p \in Principals \ {q} : seats'[p] = seats[p]
  BY <1>1, <1>5 DEF Admitted, Typed
<1>7. \A p \in Principals : (Seated(p)' <=> Seated(p))
                          /\ (Seated(p) => /\ seats'[p].groups = seats[p].groups
                                           /\ seats'[p].welcomes = seats[p].welcomes)
  BY <1>1, <1>5, <1>6, NoneIsNoSeat DEF Seated
<1> QED
  BY <1>1, <1>6, <1>7 DEF Talks
-----------------------------------------------------------------------------
LEMMA StepAdmits == Admitted /\ [Next]_vars => Admitted'
<1> SUFFICES ASSUME Admitted, [Next]_vars PROVE Admitted'
  OBVIOUS
<1>1. ASSUME NEW a \in Agents, NEW ceiling \in Levels \cup {None}, GrantsChange(a, ceiling)
      PROVE  Admitted'
  BY <1>1, GrantsAdmit
<1>2. ASSUME \/ \E o \in Operators : ConnectIntent(o)
             \/ \E c \in Ceremonies : ConnectComplete(c)
      PROVE  Admitted'
  BY <1>2, ConnectsAdmit
<1>3. ASSUME NEW o \in Operators, NEW agents \in SUBSET Agents, NEW cls \in Levels,
             AskToOpen(o, agents, cls)
      PROVE  Admitted'
  BY <1>3, AskAdmits
<1>4. ASSUME NEW req \in asked, StartOpen(req) PROVE Admitted'
  BY <1>4, StartAdmits
<1>5. ASSUME NEW a \in Agents, LoginAgent(a) \/ JoinAgent(a) PROVE Admitted'
  BY <1>5, LoginAdmits, JoinAdmits
<1>6. CASE CreateGroup \/ OpenRoom \/ OpenFails
  BY <1>6, CreateAdmits, OpensAdmit, FailsAdmit
<1>7. ASSUME NEW g \in GroupIds, Leave(g) \/ \E a \in Agents : Evict(g, a) PROVE Admitted'
  BY <1>7, LeaveAdmits, EvictAdmits
<1>8. ASSUME NEW p \in Principals, NEW g, NEW text \in Texts, Say(p, g, text) PROVE Admitted'
  BY <1>8, SayTalks, TalkAdmits
<1>9. ASSUME NEW q \in Principals, Drain(q) PROVE Admitted'
  BY <1>9, DrainTalks, TalkAdmits
<1>10. CASE UNCHANGED vars
  BY <1>10 DEF vars, Admitted, Typed, RequestsJudged, OpeningJudged, Ready, Numbered, AllFit,
               Judged, Cleared, Seated, Fits, Open
<1> QED
  BY <1>1, <1>2, <1>3, <1>4, <1>5, <1>6, <1>7, <1>8, <1>9, <1>10 DEF Next

\* MR-4 over the sessions that can decrypt: an agent in the group of an open room
\* is cleared to the room's classification, unless its grants changed after it
\* was judged, whatever openings failed and whoever was evicted.
THEOREM OnlyTheClearedHear == Spec => []MembersCleared
<1>1. Admitted => MembersCleared
  <2> SUFFICES ASSUME Admitted, NEW g \in GroupIds, NEW a \in Agents, Open(g), Hears(a, g)
               PROVE  a \in rooms[g].changed \/ Cleared(a, rooms[g].cls)
    BY DEF MembersCleared
  <2>1. Seated(a) /\ g \in Held(seats[a])
    BY DEF Hears, Held
  <2> QED
    BY <2>1 DEF Admitted, AllFit, Fits
<1> QED
  BY InitAdmits, StepAdmits, <1>1, PTL DEF Spec
-----------------------------------------------------------------------------
(* Closing sweeps: no seat outlasts the last room of its agent. *)

\* The rosters of a set of rooms that was pruned.
LEMMA PrunedIsSwept ==
  ASSUME Admitted, NEW open \in [GroupIds -> Room \cup {None}], Prune(open),
         NEW a \in Agents, seats'[a] # None
  PROVE  \E g \in GroupIds : rooms'[g] # None /\ a \in rooms'[g].roster
<1>1. rooms' = open /\ seats'[a] = IF a \in Orphans(open) THEN None ELSE seats[a]
  BY DEF Prune, Principals
<1>2. a \notin Orphans(open) /\ Seated(a)
  BY <1>1 DEF Seated
<1> QED
  BY <1>1, <1>2 DEF Orphans

\* Grants that change leave the rosters as they are.
LEMMA GrantsKeepRosters ==
  ASSUME Admitted, NEW a \in Agents, NEW ceiling, GrantsChange(a, ceiling), NEW g \in GroupIds
  PROVE  /\ Open(g)' <=> Open(g)
         /\ Open(g) => rooms'[g].roster = rooms[g].roster
<1>1. rooms'[g] = IF rooms[g] = None THEN None ELSE Marked(rooms[g], a)
  BY DEF GrantsChange
<1>2. CASE Open(g)
  <2>1. rooms[g] \in Room
    BY <1>2 DEF Admitted, Typed, Open
  <2>2. Marked(rooms[g], a) \in Room /\ Marked(rooms[g], a).roster = rooms[g].roster
    BY <2>1 DEF Marked, Room
  <2> QED
    BY <1>1, <1>2, <2>2, NoneIsNoRoom DEF Open
<1> QED
  BY <1>1, <1>2 DEF Open

\* Whenever a room is closed or an agent evicted, no agent keeps a session unless
\* it is on the roster of an open room, for any rooms, agents and failed openings.
THEOREM ClosingLeavesNoSeat == Spec => ClosingSweeps
<1> DEFINE Closed(g) == Open(g) /\ (rooms'[g] = None \/ rooms'[g].roster # rooms[g].roster)
           Swept == \A a \in Agents : seats'[a] # None =>
                      \E g \in GroupIds : rooms'[g] # None /\ a \in rooms'[g].roster
           Sweeps == (\E g \in GroupIds : Closed(g)) => Swept
<1>1. ASSUME Admitted, Next PROVE Sweeps
  <2>1. ASSUME NEW a \in Agents, NEW ceiling \in Levels \cup {None}, GrantsChange(a, ceiling)
        PROVE  Sweeps
    BY <1>1, <2>1, GrantsKeepRosters DEF Open
  <2>2. CASE OpenRoom
    <3>1. op.step = "join" /\ groups \in Nat /\ rooms[groups] = None
      BY <1>1, <2>2, Bounds DEF OpenRoom, Opening, Admitted, Numbered, Typed
    <3>2. \A g \in GroupIds \ {groups} : rooms'[g] = rooms[g]
      BY <1>1, <2>2 DEF OpenRoom, Admitted, Typed
    <3> QED
      BY <3>1, <3>2 DEF Open
  <2>3. ASSUME NEW g \in GroupIds, Leave(g) PROVE Swept
    <3> DEFINE open == [rooms EXCEPT ![g] = None]
    <3>1. Prune(open)
      BY <2>3 DEF Leave
    <3>2. open \in [GroupIds -> Room \cup {None}]
      BY <1>1 DEF Admitted, Typed
    <3> HIDE DEF open
    <3> QED
      BY <1>1, <3>1, <3>2, PrunedIsSwept
  <2>4. ASSUME NEW g \in GroupIds, NEW a \in Agents, Evict(g, a) PROVE Swept
    <3> DEFINE left == [rooms[g] EXCEPT !.roster = @ \ {a}]
               open == [rooms EXCEPT ![g] = left]
    <3>1. Prune(open) /\ rooms[g] # None
      BY <2>4 DEF Evict
    <3>2. rooms[g] \in Room
      BY <1>1, <3>1 DEF Admitted, Typed
    <3>3. left \in Room
      BY <3>2 DEF Room
    <3> HIDE DEF left
    <3>4. open \in [GroupIds -> Room \cup {None}]
      BY <1>1, <3>3 DEF Admitted, Typed
    <3> HIDE DEF open
    <3> QED
      BY <1>1, <3>1, <3>4, PrunedIsSwept
  <2>5. ASSUME UNCHANGED rooms PROVE Sweeps
    BY <2>5 DEF Open
  <2>6. ASSUME \/ \E o \in Operators : ConnectIntent(o)
               \/ \E c \in Ceremonies : ConnectComplete(c)
               \/ \E o \in Operators, agents \in SUBSET Agents, cls \in Levels :
                    AskToOpen(o, agents, cls)
               \/ \E req \in asked : StartOpen(req)
               \/ \E a \in Agents : LoginAgent(a) \/ JoinAgent(a)
               \/ CreateGroup \/ OpenFails
               \/ \E p \in Principals, g \in 1..groups, text \in Texts : Say(p, g, text)
               \/ \E q \in Principals : Drain(q)
        PROVE  UNCHANGED rooms
    BY <2>6 DEF ConnectIntent, ConnectComplete, AskToOpen, StartOpen, LoginAgent, JoinAgent,
       CreateGroup, OpenFails, Say, Drain
  <2> QED
    BY <1>1, <2>1, <2>2, <2>3, <2>4, <2>5, <2>6 DEF Next
<1>2. Admitted /\ [Next]_vars => [Sweeps]_vars
  BY <1>1
<1> QED
  BY InitAdmits, StepAdmits, <1>2, PTL DEF Spec, ClosingSweeps
-----------------------------------------------------------------------------
(* A roster is who is in the room. *)

\* An operator that waits for a signature has no seat; and as long as no opening
\* failed, whoever is done joining is in the group being opened, whoever is not
\* has its Welcome and no other, and nobody else has one.
Lonely == pending # None => ~Seated(pending.who)
JoinsInTurn ==
  op.step = "join" =>
    /\ Hears(op.req.operator, groups)
    /\ \A a \in op.req.agents \ op.left : Hears(a, groups)
Invitations(a) == IF op.step = "join" /\ a \in op.left THEN <<groups>> ELSE <<>>
NoStrayWelcome == \A a \in Agents : Seated(a) => seats[a].welcomes = Invitations(a)

LiveInv ==
  /\ failures \in Nat /\ Lonely
  /\ failures = 0 => RosterIsLive /\ JoinsInTurn /\ NoStrayWelcome

LEMMA InitLives == Init => LiveInv
<1> SUFFICES ASSUME Init PROVE LiveInv
  OBVIOUS
<1>1. Lonely /\ failures \in Nat /\ op.step = "none"
  BY DEF Init, Lonely, NoOp
<1>2. \A a \in Agents : ~Seated(a)
  BY DEF Init, Seated, Principals
<1>3. \A g \in GroupIds : ~Open(g)
  BY DEF Init, Open
<1> QED
  BY <1>1, <1>2, <1>3 DEF LiveInv, RosterIsLive, JoinsInTurn, NoStrayWelcome

\* A step that opens nothing new, where nobody in a group leaves it and no agent's
\* Welcomes change.
LEMMA StaysLive ==
  ASSUME Admitted, LiveInv, Lonely', UNCHANGED << failures, groups >>,
         op'.step = "join" => op.step = "join" /\ op'.req.operator = op.req.operator
                              /\ op'.req.agents = op.req.agents /\ op'.left = op.left,
         op.step = "join" => op'.step = "join",
         \A g \in GroupIds : Open(g)' => /\ Open(g)
                                         /\ rooms'[g].roster \subseteq rooms[g].roster
                                         /\ \A p \in rooms'[g].roster : Hears(p, g) => Hears(p, g)',
         op.step = "join" => \A p \in {op.req.operator} \cup op.req.agents :
                               Hears(p, groups) => Hears(p, groups)',
         \A a \in Agents : Seated(a)' =>
            \/ Seated(a) /\ seats'[a].welcomes = seats[a].welcomes
            \/ ~Seated(a) /\ seats'[a].welcomes = <<>> /\ op.step # "join"
  PROVE  LiveInv'
<1> SUFFICES ASSUME failures = 0 PROVE RosterIsLive' /\ JoinsInTurn' /\ NoStrayWelcome'
  BY DEF LiveInv
<1>1. RosterIsLive /\ JoinsInTurn /\ NoStrayWelcome
  BY DEF LiveInv
<1>2. RosterIsLive'
  BY <1>1 DEF RosterIsLive
<1>3. JoinsInTurn'
  BY <1>1 DEF JoinsInTurn
<1>4. NoStrayWelcome'
  BY <1>1 DEF NoStrayWelcome, Invitations
<1> QED
  BY <1>2, <1>3, <1>4

LEMMA GrantsLive ==
  ASSUME Admitted, LiveInv, NEW a \in Agents, NEW ceiling, GrantsChange(a, ceiling)
  PROVE  LiveInv'
<1>1. UNCHANGED << seats, pending, groups, failures >>
  BY DEF GrantsChange
<1>2. op'.step = op.step
      /\ (op.step = "join" => /\ op'.req.operator = op.req.operator
                              /\ op'.req.agents = op.req.agents /\ op'.left = op.left)
  <2>1. CASE op = NoOp
    BY <2>1 DEF GrantsChange, Free
  <2>2. CASE op # NoOp
    <3>1. op \in Running /\ op.req \in Request /\ op' = [op EXCEPT !.req = Marked(op.req, a)]
      BY <2>2 DEF GrantsChange, Free, Admitted, Typed, Running
    <3>2. /\ Marked(op.req, a).operator = op.req.operator
          /\ Marked(op.req, a).agents = op.req.agents
      BY <3>1 DEF Marked, Request
    <3> QED
      BY <3>1, <3>2 DEF Running
  <2> QED
    BY <2>1, <2>2
<1>3. \A g \in GroupIds : (Open(g)' <=> Open(g)) /\ (Open(g) => rooms'[g].roster = rooms[g].roster)
  BY GrantsKeepRosters
<1>4. Lonely'
  BY <1>1 DEF LiveInv, Lonely, Seated
<1> QED
  BY <1>1, <1>2, <1>3, <1>4, StaysLive DEF Hears, Seated

LEMMA ConnectsLive ==
  ASSUME Admitted, LiveInv,
         \/ \E o \in Operators : ConnectIntent(o)
         \/ \E c \in Ceremonies : ConnectComplete(c)
  PROVE  LiveInv'
<1>1. UNCHANGED << op, rooms, groups, failures >> /\ op.step = "none"
  BY DEF ConnectIntent, ConnectComplete, Free, bounds, NoOp
<1>2. /\ Lonely'
      /\ \A p \in Principals : Seated(p) => seats'[p] = seats[p]
      /\ \A a \in Agents : seats'[a] = seats[a]
  <2>1. ASSUME NEW o \in Operators, ConnectIntent(o) PROVE Lonely' /\ UNCHANGED seats
    BY <2>1 DEF ConnectIntent, MayConnect, Lonely, Seated
  <2>2. ASSUME NEW c \in Ceremonies, ConnectComplete(c)
        PROVE  /\ Lonely'
               /\ UNCHANGED seats \/ (/\ pending.who \in Operators /\ ~Seated(pending.who)
                                      /\ seats' = [seats EXCEPT ![pending.who] = NewSeat])
    BY <2>2 DEF ConnectComplete, LiveInv, Lonely, Admitted, Typed
  <2>3. \A p \in Principals : p \in DOMAIN seats
    BY DEF Admitted, Typed
  <2> QED
    BY <2>1, <2>2, <2>3, SeatsDistinct DEF Principals, Seated
<1>3. \A p \in Principals, g \in GroupIds : Hears(p, g) => Hears(p, g)'
  BY <1>2 DEF Hears, Seated
<1>4. \A g \in GroupIds : Open(g) => rooms[g].roster \subseteq Principals
  BY DEF Open, Admitted, Typed, Room
<1> QED
  BY <1>1, <1>2, <1>3, <1>4, StaysLive DEF Seated, Open

LEMMA RequestsLive ==
  ASSUME Admitted, LiveInv,
         \/ \E o \in Operators, agents \in SUBSET Agents, cls \in Levels : AskToOpen(o, agents, cls)
         \/ \E req \in asked : StartOpen(req)
  PROVE  LiveInv'
<1>1. UNCHANGED << seats, pending, rooms, groups, failures >>
  BY DEF AskToOpen, StartOpen, bounds
<1>2. op' = op \/ (op.step = "none" /\ op'.step # "join")
  <2>1. ASSUME NEW req \in asked, StartOpen(req) PROVE op.step = "none" /\ op'.step # "join"
    BY <2>1 DEF StartOpen, NoOp, Free
  <2> QED
    BY <2>1 DEF AskToOpen
<1>3. Lonely'
  BY <1>1 DEF LiveInv, Lonely, Seated
<1> QED
  BY <1>1, <1>2, <1>3, StaysLive DEF Hears, Seated, Open

LEMMA LoginLives ==
  ASSUME Admitted, LiveInv, NEW a \in Agents, LoginAgent(a)
  PROVE  LiveInv'
<1>1. /\ UNCHANGED << pending, rooms, groups, failures >>
      /\ op.step = "login" /\ op'.step # "join"
      /\ seats' = IF Seated(a) THEN seats ELSE [seats EXCEPT ![a] = NewSeat]
  <2>1. Opening("login") /\ Advance("login", op.left \ {a})
    BY DEF LoginAgent
  <2>2. op'.step = "login"
    BY <2>1, OpeningRuns, Advances DEF Admitted
  <2> QED
    BY <2>1, <2>2 DEF LoginAgent, Opening, bounds
<1>2. /\ \A p \in Principals : p # a \/ Seated(p) => seats'[p] = seats[p]
      /\ ~Seated(a) => seats'[a] = NewSeat
  BY <1>1 DEF Admitted, Typed, Principals
<1>3. \A p \in Principals, g \in GroupIds : Hears(p, g) => Hears(p, g)'
  BY <1>2 DEF Hears, Seated
<1>4. \A g \in GroupIds : Open(g) => rooms[g].roster \subseteq Principals
  BY DEF Open, Admitted, Typed, Room
<1>5. Lonely'
  <2>1. pending # None => pending.who \in Principals /\ pending.who # a
    BY SeatsDistinct DEF Admitted, Typed, Principals
  <2> QED
    BY <1>1, <1>2, <2>1 DEF LiveInv, Lonely, Seated
<1>6. \A b \in Agents : Seated(b)' =>
          \/ Seated(b) /\ seats'[b].welcomes = seats[b].welcomes
          \/ ~Seated(b) /\ seats'[b].welcomes = <<>>
  BY <1>2 DEF Principals, Seated, NewSeat
<1> QED
  BY <1>1, <1>3, <1>4, <1>5, <1>6, StaysLive DEF Open

\* What entering and being invited make of the Welcomes and the groups.
LEMMA SeatsMove ==
  ASSUME NEW seat \in Seat, NEW g \in GroupIds
  PROVE  /\ Enters(seat, g).groups = seat.groups \cup {g}
         /\ Enters(seat, g).welcomes = seat.welcomes
         /\ Invited(seat, g).groups = seat.groups
         /\ Invited(seat, g).welcomes = Append(seat.welcomes, g)
         /\ seat.welcomes = <<g>> =>
              /\ Joined(seat).groups = seat.groups \cup {g}
              /\ Joined(seat).welcomes = <<>>
<1>1. /\ Enters(seat, g).groups = seat.groups \cup {g}
      /\ Enters(seat, g).welcomes = seat.welcomes
  BY DEF Enters
<1>2. /\ Invited(seat, g).groups = seat.groups
      /\ Invited(seat, g).welcomes = Append(seat.welcomes, g)
  BY WelcomesChange DEF Invited
<1>3. ASSUME seat.welcomes = <<g>>
      PROVE  Joined(seat).groups = seat.groups \cup {g} /\ Joined(seat).welcomes = <<>>
  <2>1. Head(seat.welcomes) = g /\ Tail(seat.welcomes) = <<>>
    BY <1>3
  <2>2. [seat EXCEPT !.welcomes = <<>>]
          = [groups |-> seat.groups, channel |-> seat.channel, welcomes |-> <<>>, inbox |-> seat.inbox]
    BY WelcomesChange
  <2>3. Joined(seat) = Enters([seat EXCEPT !.welcomes = <<>>], g)
    BY <2>1 DEF Joined
  <2> QED
    BY <2>2, <2>3 DEF Enters
<1> QED
  BY <1>1, <1>2, <1>3

LEMMA CreateLives ==
  ASSUME Admitted, LiveInv, CreateGroup
  PROVE  LiveInv'
<1> DEFINE new == groups + 1
           agents == op.req.agents
           host == op.req.operator
<1>1. /\ UNCHANGED << pending, rooms, failures >>
      /\ Opening("login") /\ op.left = {} /\ Advance("join", agents)
      /\ groups' = new
      /\ seats' = [p \in Principals |->
                     IF p = host THEN Enters(seats[p], new)
                     ELSE IF p \in agents THEN Invited(seats[p], new) ELSE seats[p]]
  BY DEF CreateGroup, Invited, bounds
<1>2. op # NoOp /\ op \in Running /\ op.req \in Request /\ op.step = "login"
  BY <1>1, OpeningRuns DEF Admitted, Opening
<1>3. host \in Operators /\ agents \subseteq Agents /\ host \notin agents
  BY <1>2, SeatsDistinct DEF Request
<1>4. op'.step = "join" /\ op'.left = agents /\ op'.req = op.req
  BY <1>1, <1>2, <1>3, Advances
<1>5. new \in GroupIds /\ groups \in Nat
  BY <1>2, Bounds DEF Admitted, Typed, Numbered, GroupIds
<1>6. \A p \in agents \cup {host} : Seated(p) /\ seats[p] \in Seat
  BY <1>1, <1>2, <1>3 DEF Admitted, Ready, Typed, Seated, Principals
<1> HIDE DEF new
<1>7. /\ Enters(seats[host], new) \in Seat
      /\ Enters(seats[host], new).groups = seats[host].groups \cup {new}
      /\ \A a \in agents : /\ Invited(seats[a], new) \in Seat
                           /\ Invited(seats[a], new).groups = seats[a].groups
                           /\ Invited(seats[a], new).welcomes = Append(seats[a].welcomes, new)
  <2>1. ASSUME NEW seat \in Seat
        PROVE  /\ Enters(seat, new) \in Seat /\ Enters(seat, new).groups = seat.groups \cup {new}
               /\ Invited(seat, new) \in Seat /\ Invited(seat, new).groups = seat.groups
               /\ Invited(seat, new).welcomes = Append(seat.welcomes, new)
    BY <1>5, EntersKeeps, InvitedKeeps, SeatsMove
  <2> QED
    BY <1>6, <2>1
<1>8. /\ seats'[host] = Enters(seats[host], new)
      /\ \A a \in agents : seats'[a] = Invited(seats[a], new)
      /\ \A p \in Principals \ (agents \cup {host}) : seats'[p] = seats[p]
      /\ agents \cup {host} \subseteq Principals
  BY <1>1, <1>3 DEF Principals
<1>9. \A p \in Principals : /\ Seated(p)' <=> Seated(p)
                            /\ Seated(p) => seats[p].groups \subseteq seats'[p].groups
  BY <1>6, <1>7, <1>8, NoneIsNoSeat DEF Seated
<1>10. Lonely'
  BY <1>1, <1>9 DEF LiveInv, Lonely, Admitted, Typed, Principals
<1>11. ASSUME failures = 0 PROVE RosterIsLive' /\ JoinsInTurn' /\ NoStrayWelcome'
  <2>1. RosterIsLive /\ NoStrayWelcome
    BY <1>11 DEF LiveInv
  <2>2. RosterIsLive'
    <3>1. \A g \in GroupIds : Open(g) => rooms[g].roster \subseteq Principals
      BY DEF Open, Admitted, Typed, Room
    <3> QED
      BY <1>1, <1>9, <1>11, <2>1, <3>1 DEF RosterIsLive, Hears, Open
  <2>3. seats'[host] # None /\ new \in seats'[host].groups
    BY <1>7, <1>8, NoneIsNoSeat
  <2>4. JoinsInTurn'
    BY <1>1, <1>4, <2>3 DEF JoinsInTurn, Hears, Seated
  <2>5. ASSUME NEW a \in Agents, Seated(a)' PROVE seats'[a].welcomes = Invitations(a)'
    <3>1. Seated(a) /\ seats[a].welcomes = <<>>
      BY <1>2, <1>9, <2>1, <2>5 DEF NoStrayWelcome, Invitations, Principals
    <3>2. CASE a \in agents
      <4>1. seats'[a].welcomes = Append(<<>>, new)
        BY <1>7, <1>8, <3>1, <3>2
      <4>2. Append(<<>>, new) = <<new>>
        OBVIOUS
      <4> QED
        BY <1>1, <1>4, <3>2, <4>1, <4>2 DEF Invitations
    <3>3. CASE a \notin agents
      <4>1. a # host /\ a \in Principals
        BY <1>3, SeatsDistinct DEF Principals
      <4> QED
        BY <1>4, <1>8, <3>1, <3>3, <4>1 DEF Invitations
    <3> QED
      BY <3>2, <3>3
  <2> QED
    BY <2>2, <2>4, <2>5 DEF NoStrayWelcome
<1> QED
  BY <1>1, <1>10, <1>11 DEF LiveInv

LEMMA JoinLives ==
  ASSUME Admitted, LiveInv, NEW a \in Agents, JoinAgent(a)
  PROVE  LiveInv'
<1>1. /\ UNCHANGED << pending, rooms, groups, failures >>
      /\ Opening("join") /\ a \in op.left /\ Advance("join", op.left \ {a})
      /\ seats' = [seats EXCEPT ![a] = Joined(seats[a])]
  BY DEF JoinAgent, Joined, bounds
<1>2. op # NoOp /\ op \in Running /\ op.left \subseteq Agents /\ op.step = "join"
  BY <1>1, OpeningRuns DEF Admitted, Opening
<1>3. op'.step = "join" /\ op'.left = op.left \ {a} /\ op'.req = op.req
  BY <1>1, <1>2, Advances
<1>4. Seated(a) /\ seats[a] \in Seat /\ seats[a].welcomes # <<>> /\ groups \in GroupIds
  BY <1>1, <1>2, Bounds DEF Admitted, Typed, Ready, Numbered, Seated, Principals, GroupIds
<1>5. /\ seats'[a] = Joined(seats[a]) /\ Joined(seats[a]) # None
      /\ \A p \in Principals \ {a} : seats'[p] = seats[p]
  BY <1>1, <1>4, JoinedKeeps, NoneIsNoSeat DEF Admitted, Typed, Principals
<1>6. Lonely'
  BY <1>1, <1>5, SeatsDistinct DEF LiveInv, Lonely, Admitted, Typed, Principals, Seated
<1>7. ASSUME failures = 0 PROVE RosterIsLive' /\ JoinsInTurn' /\ NoStrayWelcome'
  <2>1. RosterIsLive /\ JoinsInTurn /\ NoStrayWelcome
    BY <1>7 DEF LiveInv
  <2>2. seats[a].welcomes = <<groups>>
    BY <1>1, <1>2, <1>4, <2>1 DEF NoStrayWelcome, Invitations
  <2>3. Joined(seats[a]).groups = seats[a].groups \cup {groups} /\ Joined(seats[a]).welcomes = <<>>
    BY <1>4, <2>2, SeatsMove
  <2>4. \A p \in Principals, g \in GroupIds : Hears(p, g) => Hears(p, g)'
    BY <1>4, <1>5, <2>3 DEF Hears, Seated
  <2>5. Hears(a, groups)'
    BY <1>1, <1>5, <2>3 DEF Hears, Seated
  <2>6. RosterIsLive'
    <3>1. \A g \in GroupIds : Open(g) => rooms[g].roster \subseteq Principals
      BY DEF Open, Admitted, Typed, Room
    <3> QED
      BY <1>1, <1>7, <2>1, <2>4, <3>1 DEF RosterIsLive, Open
  <2>7. JoinsInTurn'
    <3>1. {op.req.operator} \cup op.req.agents \subseteq Principals
      BY <1>2 DEF Running, Request, Principals
    <3>2. \A p \in {op.req.operator} \cup (op.req.agents \ op.left) : Hears(p, groups)'
      BY <1>1, <1>2, <1>4, <2>1, <2>4, <3>1 DEF JoinsInTurn, Hears, Seated
    <3> QED
      BY <1>1, <1>3, <2>5, <3>2 DEF JoinsInTurn, Hears, Seated
  <2>8. NoStrayWelcome'
    BY <1>1, <1>2, <1>3, <1>5, <2>1, <2>3 DEF NoStrayWelcome, Invitations, Seated, Principals
  <2> QED
    BY <2>6, <2>7, <2>8
<1> QED
  BY <1>1, <1>6, <1>7 DEF LiveInv

LEMMA OpensLive ==
  ASSUME Admitted, LiveInv, OpenRoom \/ OpenFails
  PROVE  LiveInv'
<1>1. Lonely'
  BY DEF OpenRoom, OpenFails, LiveInv, Lonely, Seated
<1>2. CASE OpenFails
  <2>1. failures' \in Nat /\ failures' # 0
    BY <1>2 DEF OpenFails, LiveInv
  <2> QED
    BY <1>1, <2>1 DEF LiveInv
<1>3. CASE OpenRoom
  <2> DEFINE room == [cls |-> op.req.cls, changed |-> op.req.changed,
                      roster |-> {op.req.operator} \cup op.req.agents]
  <2>1. /\ UNCHANGED << seats, groups, failures >> /\ op.step = "join" /\ op.left = {}
        /\ op'.step = "none" /\ rooms' = [rooms EXCEPT ![groups] = room]
    BY <1>3 DEF OpenRoom, Opening, NoOp, bounds
  <2>2. groups \in GroupIds /\ room.roster = {op.req.operator} \cup op.req.agents
    BY <2>1, Bounds DEF Admitted, Typed, Numbered, GroupIds
  <2> HIDE DEF room
  <2>3. rooms'[groups] = room /\ \A g \in GroupIds \ {groups} : rooms'[g] = rooms[g]
    BY <2>1, <2>2 DEF Admitted, Typed
  <2>4. ASSUME failures = 0 PROVE RosterIsLive' /\ JoinsInTurn' /\ NoStrayWelcome'
    <3>1. RosterIsLive /\ JoinsInTurn /\ NoStrayWelcome
      BY <2>4 DEF LiveInv
    <3>2. RosterIsLive'
      BY <2>1, <2>2, <2>3, <2>4, <3>1 DEF RosterIsLive, JoinsInTurn, Hears, Seated, Open
    <3>3. JoinsInTurn' /\ NoStrayWelcome'
      BY <2>1, <3>1 DEF JoinsInTurn, NoStrayWelcome, Invitations, Seated
    <3> QED
      BY <3>2, <3>3
  <2> QED
    BY <1>1, <2>1, <2>4 DEF LiveInv
<1> QED
  BY <1>2, <1>3

\* Pruning takes no seat from a roster that is left.
LEMMA PruneLives ==
  ASSUME Admitted, LiveInv, NEW open \in [GroupIds -> Room \cup {None}], Free, Prune(open),
         \A g \in GroupIds : open[g] # None => Open(g) /\ open[g].roster \subseteq rooms[g].roster,
         UNCHANGED << pending, op, groups, failures >>
  PROVE  LiveInv'
<1>1. /\ rooms' = open /\ op.step = "none"
      /\ seats' = [p \in Principals |-> IF p \in Orphans(open) THEN None ELSE seats[p]]
  BY DEF Prune, Free, NoOp
<1>2. Lonely'
  BY <1>1 DEF LiveInv, Lonely, Seated, Admitted, Typed, Principals
<1>3. \A g \in GroupIds : Open(g)' =>
         /\ Open(g) /\ rooms'[g].roster \subseteq rooms[g].roster
         /\ \A p \in rooms'[g].roster : Hears(p, g) => Hears(p, g)'
  <2> SUFFICES ASSUME NEW g \in GroupIds, open[g] # None, NEW p \in open[g].roster
               PROVE  seats'[p] = seats[p]
    BY <1>1 DEF Open, Hears, Seated
  <2>1. p \notin Orphans(open)
    BY DEF Orphans
  <2>2. p \in Principals
    BY DEF Room
  <2> QED
    BY <1>1, <2>1, <2>2
<1>4. \A a \in Agents : Seated(a)' => Seated(a) /\ seats'[a].welcomes = seats[a].welcomes
  BY <1>1 DEF Seated, Principals
<1> QED
  BY <1>1, <1>2, <1>3, <1>4, StaysLive

LEMMA LeaveLives ==
  ASSUME Admitted, LiveInv, NEW g \in GroupIds, Leave(g)
  PROVE  LiveInv'
<1> DEFINE open == [rooms EXCEPT ![g] = None]
<1>1. Free /\ Prune(open) /\ UNCHANGED << pending, op, groups, failures >>
  BY DEF Leave, bounds
<1>2. /\ open \in [GroupIds -> Room \cup {None}]
      /\ \A h \in GroupIds : open[h] # None => open[h] = rooms[h]
  BY DEF Admitted, Typed
<1> HIDE DEF open
<1> QED
  BY <1>1, <1>2, PruneLives DEF Open

LEMMA EvictLives ==
  ASSUME Admitted, LiveInv, NEW g \in GroupIds, NEW a \in Agents, Evict(g, a)
  PROVE  LiveInv'
<1> DEFINE left == [rooms[g] EXCEPT !.roster = @ \ {a}]
           open == [rooms EXCEPT ![g] = left]
<1>1. Free /\ Prune(open) /\ rooms[g] # None /\ UNCHANGED << pending, op, groups, failures >>
  BY DEF Evict, bounds
<1>2. rooms[g] \in Room
  BY <1>1 DEF Admitted, Typed
<1>3. left \in Room /\ left.roster \subseteq rooms[g].roster
  BY <1>2 DEF Room
<1> HIDE DEF left
<1>4. /\ open \in [GroupIds -> Room \cup {None}]
      /\ open[g] = left /\ \A h \in GroupIds \ {g} : open[h] = rooms[h]
  BY <1>3 DEF Admitted, Typed
<1> HIDE DEF open
<1> QED
  BY <1>1, <1>3, <1>4, PruneLives DEF Open

LEMMA TalkLives ==
  ASSUME Admitted, LiveInv, Talks
  PROVE  LiveInv'
<1>1. Lonely'
  BY DEF Talks, LiveInv, Lonely, Admitted, Typed, Principals
<1>2. \A p \in Principals, g \in GroupIds : Hears(p, g) => Hears(p, g)'
  BY DEF Talks, Hears
<1>3. \A g \in GroupIds : Open(g) => rooms[g].roster \subseteq Principals
  BY DEF Open, Admitted, Typed, Room
<1>4. op.step = "none" /\ UNCHANGED << op, rooms, groups, failures >>
  BY DEF Talks, Free, NoOp, bounds
<1>5. \A a \in Agents : Seated(a)' => Seated(a) /\ seats'[a].welcomes = seats[a].welcomes
  BY DEF Talks, Principals
<1> QED
  BY <1>1, <1>2, <1>3, <1>4, <1>5, StaysLive DEF Open

LEMMA StepLives == Admitted /\ LiveInv /\ [Next]_vars => LiveInv'
<1> SUFFICES ASSUME Admitted, LiveInv, [Next]_vars PROVE LiveInv'
  OBVIOUS
<1>1. ASSUME NEW a \in Agents, NEW ceiling \in Levels \cup {None}, GrantsChange(a, ceiling)
      PROVE  LiveInv'
  BY <1>1, GrantsLive
<1>2. ASSUME \/ \E o \in Operators : ConnectIntent(o)
             \/ \E c \in Ceremonies : ConnectComplete(c)
      PROVE  LiveInv'
  BY <1>2, ConnectsLive
<1>3. ASSUME \/ \E o \in Operators, agents \in SUBSET Agents, cls \in Levels :
                  AskToOpen(o, agents, cls)
             \/ \E req \in asked : StartOpen(req)
      PROVE  LiveInv'
  BY <1>3, RequestsLive
<1>4. ASSUME NEW a \in Agents, LoginAgent(a) \/ JoinAgent(a) PROVE LiveInv'
  BY <1>4, LoginLives, JoinLives
<1>5. CASE CreateGroup \/ OpenRoom \/ OpenFails
  BY <1>5, CreateLives, OpensLive
<1>6. ASSUME NEW g \in GroupIds, Leave(g) \/ \E a \in Agents : Evict(g, a) PROVE LiveInv'
  BY <1>6, LeaveLives, EvictLives
<1>7. ASSUME NEW p \in Principals, NEW g, NEW text \in Texts, Say(p, g, text) PROVE LiveInv'
  BY <1>7, SayTalks, TalkLives
<1>8. ASSUME NEW q \in Principals, Drain(q) PROVE LiveInv'
  BY <1>8, DrainTalks, TalkLives
<1>9. CASE UNCHANGED vars
  BY <1>9 DEF vars, bounds, LiveInv, Lonely, RosterIsLive, JoinsInTurn, NoStrayWelcome,
              Invitations, Hears, Seated, Open
<1> QED
  BY <1>1, <1>2, <1>3, <1>4, <1>5, <1>6, <1>7, <1>8, <1>9 DEF Next

\* A room's roster is who is in it, through evictions, closed rooms and agents
\* shared between rooms, as long as no opening failed.
THEOREM RostersAreLive == Spec => []RosterIsLive
<1>1. LiveInv => RosterIsLive
  BY DEF LiveInv, RosterIsLive
<1> QED
  BY InitAdmits, StepAdmits, InitLives, StepLives, <1>1, PTL DEF Spec
-----------------------------------------------------------------------------
(* What is shown as said was said.                                         *)

\* Every operator logs in with the one wallet of this app: with one operator, an
\* address is that of one principal.
OneOperator == \A o, p \in Operators : o = p

Shown(lines, line) == { n \in DOMAIN lines : lines[n] = line }
SaidAs(sayings, p, text) ==
  { n \in DOMAIN sayings : sayings[n].who = p /\ sayings[n].text = text }

\* What a seat was sent, somebody said.
WasSaid(heard, sayings) == SaidAs(sayings, heard.sender, heard.text) # {}
AllWereSaid ==
  \A q \in Principals : Seated(q) =>
    \A n \in DOMAIN seats[q].inbox : WasSaid(seats[q].inbox[n], said)

TalkInv ==
  /\ \E S : transcript \in Seq(S)
  /\ \E S : said \in Seq(S)
  /\ AllWereSaid
  /\ SaidOnce

\* A list that grows by one has that place more, if what came is what is counted.
LEMMA ShownGrows ==
  ASSUME NEW S, NEW lines \in Seq(S), NEW new, NEW line
  PROVE  /\ Cardinality(Shown(lines, line)) \in Nat
         /\ new # line => Shown(Append(lines, new), line) = Shown(lines, line)
         /\ new = line => Cardinality(Shown(Append(lines, new), line))
                            = Cardinality(Shown(lines, line)) + 1
<1> DEFINE next == Append(lines, new)
<1>1. /\ Len(lines) \in Nat /\ DOMAIN lines = 1..Len(lines)
      /\ DOMAIN next = 1..(Len(lines) + 1)
      /\ \A n \in 1..Len(lines) : next[n] = lines[n]
      /\ next[Len(lines) + 1] = new
  OBVIOUS
<1>2. IsFiniteSet(Shown(lines, line)) /\ Cardinality(Shown(lines, line)) \in Nat
  <2>1. IsFiniteSet(1..Len(lines))
    BY <1>1, FS_Interval
  <2> QED
    BY <1>1, <2>1, FS_Subset, FS_CardinalityType DEF Shown
<1>3. \A n : n \in 1..(Len(lines) + 1) <=> n \in 1..Len(lines) \/ n = Len(lines) + 1
  BY <1>1
<1>4. Len(lines) + 1 \notin Shown(lines, line)
  BY <1>1 DEF Shown
<1> HIDE DEF next
<1>5. CASE new # line
  BY <1>1, <1>2, <1>3, <1>5 DEF Shown, next
<1>6. CASE new = line
  <2>1. Shown(next, line) = Shown(lines, line) \cup {Len(lines) + 1}
    BY <1>1, <1>3, <1>6 DEF Shown
  <2> QED
    BY <1>2, <1>4, <1>6, <2>1, FS_AddElement DEF next
<1> QED
  BY <1>5, <1>6

LEMMA SaidGrows ==
  ASSUME NEW S, NEW sayings \in Seq(S), NEW new, NEW p, NEW text
  PROVE  /\ Cardinality(SaidAs(sayings, p, text)) \in Nat
         /\ SaidAs(sayings, p, text) # {} => Cardinality(SaidAs(sayings, p, text)) >= 1
         /\ SaidAs(sayings, p, text) \subseteq SaidAs(Append(sayings, new), p, text)
         /\ Cardinality(SaidAs(sayings, p, text))
              <= Cardinality(SaidAs(Append(sayings, new), p, text))
         /\ new.who = p /\ new.text = text =>
              Cardinality(SaidAs(Append(sayings, new), p, text))
                = Cardinality(SaidAs(sayings, p, text)) + 1
<1> DEFINE next == Append(sayings, new)
           Old == SaidAs(sayings, p, text)
<1>1. /\ Len(sayings) \in Nat /\ DOMAIN sayings = 1..Len(sayings)
      /\ DOMAIN next = 1..(Len(sayings) + 1)
      /\ \A n \in 1..Len(sayings) : next[n] = sayings[n]
      /\ next[Len(sayings) + 1] = new
  OBVIOUS
<1>2. IsFiniteSet(Old) /\ Cardinality(Old) \in Nat
  <2>1. IsFiniteSet(1..Len(sayings))
    BY <1>1, FS_Interval
  <2> QED
    BY <1>1, <2>1, FS_Subset, FS_CardinalityType DEF SaidAs
<1>3. \A n : n \in 1..(Len(sayings) + 1) <=> n \in 1..Len(sayings) \/ n = Len(sayings) + 1
  BY <1>1
<1>4. Len(sayings) + 1 \notin Old
  BY <1>1 DEF SaidAs
<1>5. Old # {} => Cardinality(Old) >= 1
  <2>1. Cardinality(Old) = 0 <=> Old = {}
    BY <1>2, FS_EmptySet
  <2> QED
    BY <1>2, <2>1
<1> HIDE DEF next
<1>6. CASE ~(new.who = p /\ new.text = text)
  <2>1. SaidAs(next, p, text) = Old
    BY <1>1, <1>3, <1>6 DEF SaidAs
  <2> QED
    BY <1>2, <1>5, <1>6, <2>1 DEF next
<1>7. CASE new.who = p /\ new.text = text
  <2>1. SaidAs(next, p, text) = Old \cup {Len(sayings) + 1}
    BY <1>1, <1>3, <1>7 DEF SaidAs
  <2>2. Cardinality(SaidAs(next, p, text)) = Cardinality(Old) + 1
    BY <1>2, <1>4, <2>1, FS_AddElement
  <2> QED
    BY <1>2, <1>5, <1>7, <2>1, <2>2 DEF next
<1> QED
  BY <1>6, <1>7

LEMMA InitTalks == Init => TalkInv
<1> SUFFICES ASSUME Init PROVE TalkInv
  OBVIOUS
<1>1. transcript = <<>> /\ said = <<>>
  BY DEF Init
<1>2. <<>> \in Seq({})
  OBVIOUS
<1>3. AllWereSaid
  BY DEF Init, AllWereSaid, Seated
<1>4. SaidOnce
  <2>1. Cardinality({}) = 0
    BY FS_EmptySet
  <2>2. DOMAIN transcript = {} /\ DOMAIN said = {}
    BY <1>1
  <2>3. \A line : Shown(transcript, line) = {}
    BY <2>2 DEF Shown
  <2>4. \A p, text : SaidAs(said, p, text) = {}
    BY <2>2 DEF SaidAs
  <2>5. \A line : Cardinality(Shown(transcript, line)) = 0
    BY <2>1, <2>3, Zenon
  <2>6. \A p, text : Cardinality(SaidAs(said, p, text)) = 0
    BY <2>1, <2>4, Zenon
  <2>7. \A line, p, text :
          Cardinality(Shown(transcript, line)) <= Cardinality(SaidAs(said, p, text))
    BY <2>5, <2>6
  <2> SUFFICES ASSUME NEW g \in GroupIds, NEW p \in Principals, NEW text \in Texts
               PROVE  Cardinality(Shown(transcript, Line(g, p, TRUE, text)))
                        <= Cardinality(SaidAs(said, p, text))
    BY Zenon DEF SaidOnce, Shown, SaidAs
  <2>8. PICK line : line = Line(g, p, TRUE, text)
    OBVIOUS
  <2> QED
    BY <2>7, <2>8, Zenon
<1> QED
  BY <1>1, <1>2, <1>3, <1>4 DEF TalkInv

\* Nothing is said or shown; a seat that is new has heard nothing, and every other
\* seat what it had.
LEMMA QuietTalks ==
  ASSUME TalkInv, UNCHANGED talk,
         \A q \in Principals : seats'[q] # None =>
           \/ seats'[q].inbox = <<>>
           \/ seats[q] # None /\ seats'[q].inbox = seats[q].inbox
  PROVE  TalkInv'
<1>1. transcript' = transcript /\ said' = said
  BY DEF talk
<1>2. AllWereSaid'
  BY <1>1 DEF TalkInv, AllWereSaid, Seated
<1> QED
  BY <1>1, <1>2 DEF TalkInv, SaidOnce

LEMMA SeatKeepsInbox ==
  ASSUME Typed, NEW p \in Principals, seats[p] # None
  PROVE  /\ seats[p] \in Seat
         /\ \A w : [seats[p] EXCEPT !.welcomes = w].inbox = seats[p].inbox
         /\ \A g : Enters(seats[p], g).inbox = seats[p].inbox
         /\ \A w, g : Enters([seats[p] EXCEPT !.welcomes = w], g).inbox = seats[p].inbox
<1>1. seats[p] \in Seat
  BY DEF Typed
<1> QED
  BY <1>1 DEF Seat, Enters

\* Whoever says something is heard to have said it, by others and here.
LEMMA SayIsTold ==
  ASSUME TalkInv, Typed, NEW p \in Principals, NEW room, NEW text, Say(p, room, text)
  PROVE  TalkInv'
<1>0. PICK to : to = seats[p].channel
  OBVIOUS
<1> DEFINE heard == [group |-> to, sender |-> p, text |-> text]
           new == [who |-> p, text |-> text]
           line == Line(room, p, TRUE, text)
<1>1. /\ transcript' = Append(transcript, line) /\ said' = Append(said, new)
      /\ seats' = [q \in Principals |->
                     IF q # p /\ Seated(q) /\ to \in seats[q].groups
                     THEN [seats[q] EXCEPT !.inbox = Append(@, heard)] ELSE seats[q]]
  BY <1>0 DEF Say
<1>2. PICK S, T : transcript \in Seq(S) /\ said \in Seq(T)
  BY DEF TalkInv
<1>3. transcript' \in Seq(S \cup {line}) /\ said' \in Seq(T \cup {new})
  <2>1. transcript' = Append(transcript, line) /\ said' = Append(said, new)
    BY <1>1
  <2> HIDE DEF line, new
  <2> QED
    BY <1>2, <2>1
<1>4. \A q, t : SaidAs(said, q, t) \subseteq SaidAs(said', q, t)
  BY <1>1, <1>2, SaidGrows
<1>5. WasSaid(heard, said')
  <2>1. Len(said) + 1 \in DOMAIN said' /\ said'[Len(said) + 1] = new
    BY <1>1, <1>2
  <2>2. heard.sender = p /\ heard.text = text /\ new.who = p /\ new.text = text
    OBVIOUS
  <2> QED
    BY <2>1, <2>2 DEF WasSaid, SaidAs
<1>6. AllWereSaid'
  <2> SUFFICES ASSUME NEW q \in Principals, seats'[q] # None, NEW n \in DOMAIN seats'[q].inbox
               PROVE  WasSaid(seats'[q].inbox[n], said')
    BY DEF AllWereSaid, Seated
  <2>1. \A h : WasSaid(h, said) => WasSaid(h, said')
    BY <1>4 DEF WasSaid
  <2>2. CASE seats'[q] = seats[q]
    BY <2>1, <2>2 DEF TalkInv, AllWereSaid, Seated
  <2>3. CASE seats'[q] # seats[q]
    <3>1. seats[q] # None /\ seats'[q] = [seats[q] EXCEPT !.inbox = Append(@, heard)]
      BY <1>1, <2>3 DEF Seated
    <3>2. seats[q] \in Seat
      BY <3>1 DEF Typed
    <3>3. PICK M : seats[q].inbox \in Seq(M)
      BY <3>2 DEF Seat
    <3>4. seats'[q].inbox = Append(seats[q].inbox, heard)
      BY <3>1, <3>2 DEF Seat
    <3> HIDE DEF heard
    <3>5. \/ n \in DOMAIN seats[q].inbox /\ seats'[q].inbox[n] = seats[q].inbox[n]
          \/ seats'[q].inbox[n] = heard
      BY <3>3, <3>4
    <3> QED
      BY <1>5, <2>1, <3>1, <3>5 DEF TalkInv, AllWereSaid, Seated
  <2> QED
    BY <2>2, <2>3
<1>7. SaidOnce'
  <2> SUFFICES ASSUME NEW g \in GroupIds, NEW q \in Principals, NEW t \in Texts
               PROVE  Cardinality(Shown(transcript', Line(g, q, TRUE, t)))
                        <= Cardinality(SaidAs(said', q, t))
    BY DEF SaidOnce, Shown, SaidAs
  <2> DEFINE asked1 == Line(g, q, TRUE, t)
  <2>1. Cardinality(Shown(transcript, asked1)) <= Cardinality(SaidAs(said, q, t))
    BY DEF TalkInv, SaidOnce, Shown, SaidAs
  <2> HIDE DEF asked1, line, new
  <2>2. /\ Cardinality(Shown(transcript, asked1)) \in Nat
        /\ line # asked1 => Shown(transcript', asked1) = Shown(transcript, asked1)
        /\ line = asked1 => Cardinality(Shown(transcript', asked1))
                              = Cardinality(Shown(transcript, asked1)) + 1
    BY <1>1, <1>2, ShownGrows
  <2>3. /\ Cardinality(SaidAs(said, q, t)) \in Nat
        /\ Cardinality(SaidAs(said, q, t)) <= Cardinality(SaidAs(said', q, t))
        /\ new.who = q /\ new.text = t =>
             Cardinality(SaidAs(said', q, t)) = Cardinality(SaidAs(said, q, t)) + 1
    BY <1>1, <1>2, SaidGrows
  <2>4. line = asked1 => new.who = q /\ new.text = t
    BY DEF line, asked1, new, Line
  <2>5. Cardinality(SaidAs(said', q, t)) \in Nat
    <3>1. said' \in Seq(T \cup {new})
      BY <1>1, <1>2
    <3> QED
      BY <3>1, SaidGrows
  <2>6. Cardinality(Shown(transcript', asked1)) <= Cardinality(SaidAs(said', q, t))
    BY <2>1, <2>2, <2>3, <2>4, <2>5
  <2> QED
    BY <2>6 DEF asked1
<1>8. (\E U : transcript' \in Seq(U)) /\ (\E U : said' \in Seq(U))
  BY <1>3
<1> QED
  BY <1>6, <1>7, <1>8 DEF TalkInv

\* What a seat heard is shown once, and as said by who did say it.
LEMMA DrainShowsOnce ==
  ASSUME OneOperator, TalkInv, Typed, NEW q \in Principals, Drain(q)
  PROVE  TalkInv'
<1>1. seats[q] \in Seat /\ seats[q].inbox # <<>>
  BY DEF Drain, Seated, Typed
<1>2. PICK heard : heard = Head(seats[q].inbox)
  OBVIOUS
<1>3. PICK shown \in ShownAs(heard.sender) :
        LET line == Line(heard.group, shown[1], shown[2], heard.text)
        IN  transcript' = IF IsNew(line) THEN Append(transcript, line) ELSE transcript
  BY <1>2 DEF Drain
<1> DEFINE line == Line(heard.group, shown[1], shown[2], heard.text)
<1>4. transcript' = IF IsNew(line) THEN Append(transcript, line) ELSE transcript
  BY <1>3
<1>5. said' = said /\ seats' = [seats EXCEPT ![q] = [seats[q] EXCEPT !.inbox = Tail(@)]]
  BY DEF Drain
<1>6. PICK S, T : transcript \in Seq(S) /\ said \in Seq(T)
  BY DEF TalkInv
<1>7. PICK M : seats[q].inbox \in Seq(M)
  BY <1>1 DEF Seat
<1>8. WasSaid(heard, said)
  <2>1. 1 \in DOMAIN seats[q].inbox /\ heard = seats[q].inbox[1]
    BY <1>1, <1>2, <1>7
  <2> QED
    BY <2>1 DEF TalkInv, AllWereSaid, Seated, Drain
<1>9. shown[2] = TRUE => shown[1] = heard.sender
  <2>1. \A p : SameAddress(p, heard.sender) => p = heard.sender
    BY DEF SameAddress, OneOperator
  <2> DEFINE holders == { p \in Principals : Seated(p) /\ SameAddress(p, heard.sender) }
  <2>2. \/ shown = <<heard.sender, FALSE>>
        \/ \E p \in holders : shown = <<p, TRUE>>
    BY <1>3, Zenon DEF ShownAs
  <2>3. CASE shown = <<heard.sender, FALSE>>
    BY <2>3
  <2>4. ASSUME NEW p \in holders, shown = <<p, TRUE>> PROVE shown[1] = heard.sender
    BY <2>1, <2>4
  <2> QED
    BY <2>2, <2>3, <2>4, Zenon
<1> HIDE DEF line
<1>10. \E U : transcript' \in Seq(U)
  <2>1. transcript' \in Seq(S \cup {line})
    BY <1>4, <1>6
  <2> QED
    BY <2>1
<1>11. AllWereSaid'
  <2> SUFFICES ASSUME NEW r \in Principals, seats'[r] # None, NEW n \in DOMAIN seats'[r].inbox
               PROVE  WasSaid(seats'[r].inbox[n], said)
    BY <1>5 DEF AllWereSaid, Seated
  <2>1. CASE r # q
    <3>1. seats'[r] = seats[r]
      BY <1>5, <2>1 DEF Typed
    <3> QED
      BY <3>1 DEF TalkInv, AllWereSaid, Seated
  <2>2. CASE r = q
    <3>1. seats'[q].inbox = Tail(seats[q].inbox)
      BY <1>1, <1>5 DEF Seat, Typed
    <3>2. n + 1 \in DOMAIN seats[q].inbox /\ seats'[q].inbox[n] = seats[q].inbox[n + 1]
      BY <1>1, <1>7, <2>2, <3>1
    <3> QED
      BY <2>2, <3>2 DEF TalkInv, AllWereSaid, Seated, Drain
  <2> QED
    BY <2>1, <2>2
<1>12. SaidOnce'
  <2> SUFFICES ASSUME NEW g \in GroupIds, NEW p \in Principals, NEW t \in Texts
               PROVE  Cardinality(Shown(transcript', Line(g, p, TRUE, t)))
                        <= Cardinality(SaidAs(said, p, t))
    BY <1>5 DEF SaidOnce, Shown, SaidAs
  <2> DEFINE asked1 == Line(g, p, TRUE, t)
  <2>1. Cardinality(Shown(transcript, asked1)) <= Cardinality(SaidAs(said, p, t))
    BY DEF TalkInv, SaidOnce, Shown, SaidAs
  <2>2. line = asked1 => p = heard.sender /\ t = heard.text
    <3>1. line = asked1 => shown[2] = TRUE /\ shown[1] = p /\ heard.text = t
      BY DEF line, Line
    <3> QED
      BY <1>9, <3>1
  <2> HIDE DEF asked1
  <2>3. CASE transcript' = transcript
    BY <2>1, <2>3 DEF asked1
  <2>4. CASE transcript' = Append(transcript, line) /\ line # asked1
    <3>1. Shown(transcript', asked1) = Shown(transcript, asked1)
      BY <1>6, <2>4, ShownGrows
    <3> QED
      BY <2>1, <3>1 DEF asked1
  <2>5. CASE transcript' = Append(transcript, line) /\ line = asked1 /\ IsNew(line)
    <3>1. Shown(transcript, asked1) = {}
      BY <2>5 DEF IsNew, AlreadyWritten, Shown
    <3>2. Cardinality(Shown(transcript', asked1)) = Cardinality(Shown(transcript, asked1)) + 1
      BY <1>6, <2>5, ShownGrows
    <3>3. Cardinality(Shown(transcript', asked1)) = 1
      BY <3>1, <3>2, FS_EmptySet
    <3>4. SaidAs(said, p, t) # {}
      BY <1>8, <2>2, <2>5 DEF WasSaid
    <3>5. Cardinality(SaidAs(said, p, t)) >= 1 /\ Cardinality(SaidAs(said, p, t)) \in Nat
      BY <1>6, <3>4, SaidGrows
    <3> QED
      BY <3>3, <3>5 DEF asked1
  <2> QED
    BY <1>4, <2>3, <2>4, <2>5
<1>13. \E U : said' \in Seq(U)
  BY <1>5, <1>6
<1> QED
  BY <1>10, <1>11, <1>12, <1>13 DEF TalkInv

LEMMA StepTalks ==
  ASSUME OneOperator, TalkInv, Admitted, [Next]_vars
  PROVE  TalkInv'
<1>1. Typed
  BY DEF Admitted
<1>2. NewSeat.inbox = <<>>
  BY DEF NewSeat
<1>3. ASSUME UNCHANGED << seats, talk >> PROVE TalkInv'
  BY <1>3, QuietTalks
<1>4. ASSUME NEW c \in Ceremonies, ConnectComplete(c) PROVE TalkInv'
  BY <1>1, <1>2, <1>4, QuietTalks DEF ConnectComplete, Typed, Principals
<1>5. ASSUME NEW a \in Agents, LoginAgent(a) PROVE TalkInv'
  BY <1>1, <1>2, <1>5, QuietTalks DEF LoginAgent, Typed, Principals, Seated
<1>6. ASSUME NEW a \in Agents, JoinAgent(a) PROVE TalkInv'
  <2>1. Seated(a) /\ a \in Principals
    BY <1>6 DEF Admitted, Ready, JoinAgent, Opening, NoOp, Principals
  <2>2. PICK w, g : seats' = [seats EXCEPT ![a] = Enters([seats[a] EXCEPT !.welcomes = w], g)]
    BY <1>6 DEF JoinAgent
  <2>3. Enters([seats[a] EXCEPT !.welcomes = w], g).inbox = seats[a].inbox
    BY <1>1, <2>1, SeatKeepsInbox DEF Seated
  <2>4. UNCHANGED talk
    BY <1>6 DEF JoinAgent
  <2> QED
    BY <1>1, <2>1, <2>2, <2>3, <2>4, QuietTalks DEF Typed, Seated
<1>7. CASE CreateGroup
  <2>1. /\ Seated(op.req.operator) /\ \A a \in op.req.agents : Seated(a)
        /\ UNCHANGED talk
    BY <1>7 DEF Admitted, Ready, CreateGroup, Opening, NoOp
  <2>2. ASSUME NEW q \in Principals, seats'[q] # None
        PROVE  seats[q] # None /\ seats'[q].inbox = seats[q].inbox
    <3>1. PICK g : g = groups'
      OBVIOUS
    <3>2. \/ q = op.req.operator /\ seats'[q] = Enters(seats[q], g)
          \/ /\ q \in op.req.agents
             /\ \E w : seats'[q] = [seats[q] EXCEPT !.welcomes = w]
          \/ seats'[q] = seats[q]
      BY <1>7, <3>1 DEF CreateGroup
    <3>3. seats[q] # None
      BY <2>1, <2>2, <3>2 DEF Seated
    <3>4. /\ \A w : [seats[q] EXCEPT !.welcomes = w].inbox = seats[q].inbox
          /\ Enters(seats[q], g).inbox = seats[q].inbox
      BY <1>1, <3>3, SeatKeepsInbox
    <3> QED
      BY <3>2, <3>3, <3>4, Zenon
  <2> QED
    BY <2>1, <2>2, QuietTalks
<1>8. ASSUME NEW open, Prune(open), UNCHANGED talk PROVE TalkInv'
  BY <1>8, QuietTalks DEF Prune
<1>9. CASE UNCHANGED vars
  BY <1>3, <1>9 DEF vars
<1>10. CASE Next
  <2>1. ASSUME NEW a \in Agents, NEW ceiling \in Levels \cup {None}, GrantsChange(a, ceiling)
        PROVE  TalkInv'
    BY <1>3, <2>1 DEF GrantsChange
  <2>2. ASSUME NEW o \in Operators, ConnectIntent(o) PROVE TalkInv'
    BY <1>3, <2>2 DEF ConnectIntent
  <2>3. ASSUME NEW o \in Operators, NEW agents \in SUBSET Agents, NEW cls \in Levels,
               AskToOpen(o, agents, cls)
        PROVE  TalkInv'
    BY <1>3, <2>3 DEF AskToOpen
  <2>4. ASSUME NEW req \in asked, StartOpen(req) PROVE TalkInv'
    BY <1>3, <2>4 DEF StartOpen
  <2>5. CASE OpenRoom \/ OpenFails
    BY <1>3, <2>5 DEF OpenRoom, OpenFails
  <2>6. ASSUME NEW g \in GroupIds, Leave(g) \/ \E a \in Agents : Evict(g, a) PROVE TalkInv'
    BY <1>8, <2>6 DEF Leave, Evict
  <2>7. ASSUME NEW p \in Principals, NEW g \in 1..groups, NEW text \in Texts, Say(p, g, text)
        PROVE  TalkInv'
    BY <1>1, <2>7, SayIsTold
  <2>8. ASSUME NEW q \in Principals, Drain(q) PROVE TalkInv'
    BY <1>1, <2>8, DrainShowsOnce
  <2> QED
    BY <1>4, <1>5, <1>6, <1>7, <1>10, <2>1, <2>2, <2>3, <2>4, <2>5, <2>6, <2>7, <2>8 DEF Next
<1> QED
  BY <1>9, <1>10

\* "Only record a message once": for any agents, rooms, failed openings, evictions
\* and lost seats, and one operator, nobody appears to say a thing in a room more
\* often than they said it, however many seats decrypt it (rooms.rs: rooms_say,
\* rooms_events).  With two operators on one wallet the first seat found would be
\* named for either.
THEOREM NothingIsShownTwice == OneOperator => (Spec => []SaidOnce)
<1> SUFFICES ASSUME OneOperator PROVE Spec => []SaidOnce
  OBVIOUS
<1>1. Init => Admitted /\ TalkInv
  BY InitAdmits, InitTalks
<1>2. Admitted /\ TalkInv /\ [Next]_vars => Admitted' /\ TalkInv'
  BY StepAdmits, StepTalks
<1>3. TalkInv => SaidOnce
  BY DEF TalkInv
<1> QED
  BY <1>1, <1>2, <1>3, PTL DEF Spec
=============================================================================
