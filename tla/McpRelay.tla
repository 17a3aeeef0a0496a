------------------------------ MODULE McpRelay -------------------------------
(***************************************************************************)
(* The MCP proxies of quorum-adapter, which stand between one client and   *)
(* one server and ask the gate before each tool call.  Over stdio, a loop  *)
(* relays what the client sends while a second thread pumps back what the  *)
(* server says, through pipes that fill up.  Over HTTP, one exchange at a  *)
(* time is made on a connection of its own, to the end of its response.    *)
(*                                                                         *)
(* The gate is AgentGate's; here it only takes its time and gives a        *)
(* ruling.  The client and the server are outside this repository.         *)
(***************************************************************************)
EXTENDS Integers, Sequences, FiniteSets, SequencesExt, Functions

CONSTANTS
  None,
  Msgs,         \* what the client may send: a sequence of messages
  Override,     \* the name given with --agent, or None
  Default,      \* the name of a client that gives none
  Cap,          \* what a pipe holds, and the server works on, before a writer blocks
  MaxDeaths     \* bound: servers that die

ASSUME RelayBounds == Cap \in Nat \ {0} /\ MaxDeaths \in Nat

Sent == DOMAIN Msgs

\* A message: whether it parses, its method and id, what it says of the client,
\* whether a routing header announces a tool call, and, of a batch, its items.
Message(method, id) ==
  [method |-> method, id |-> id, client |-> None, header |-> method = "tools/call",
   form |-> "single", items |-> <<>>]
Blank == [Message("none", None) EXCEPT !.form = "blank"]
Garbage == [Message("none", None) EXCEPT !.form = "garbage"]
Batch(items) == [Message("none", None) EXCEPT !.form = "batch", !.items = items]
Naming(m, client) == [m EXCEPT !.client = client]
-----------------------------------------------------------------------------
VARIABLES
  transport, governed,
  sent,         \* history: what the client has sent, in order
  inbox,        \* sent and not yet read: a pipe, or the accept backlog
  closed,       \* the client has closed its end
  pc, at,       \* what the relay is doing, and with which message
  identity,     \* the client's name as the relay has learned it
  toServer, working, fromServer, up,
  received,     \* history: what the server was given, in order
  out,          \* history: what the client was answered, in order
  intents,      \* history: the agent that each call was judged as
  rulings,      \* history: the calls that the gate let proceed
  deaths

client == << sent, closed >>
server == << toServer, working, fromServer, up, received, deaths >>
vars == << transport, governed, client, inbox, pc, at, identity, server, out, intents, rulings >>

Init ==
  /\ transport \in {"stdio", "http"} /\ governed \in BOOLEAN
  /\ sent = <<>> /\ inbox = <<>> /\ closed = FALSE
  /\ pc = "reading" /\ at = None /\ identity = None
  /\ toServer = <<>> /\ working = {} /\ fromServer = <<>> /\ up = TRUE
  /\ received = <<>> /\ out = <<>> /\ intents = <<>> /\ rulings = {} /\ deaths = 0
-----------------------------------------------------------------------------
(* What the relay makes of a message. *)

\* A notification has no id and is no tool call.
IsToolCall(m) == m.method = "tools/call" /\ m.id # None
HidesToolCall(m) == \E n \in DOMAIN m.items : IsToolCall(m.items[n])

\* Mutant: only the handshake is listened to.
FromHandshake(known, m) == IF m.method = "initialize" THEN m.client ELSE known
\* Any message may say in its metadata who the client is, and the handshake does.
Observe(known, m) == IF m.form = "single" /\ m.client # None THEN m.client ELSE known

AgentOf(known) ==
  IF Override # None THEN Override ELSE IF known # None THEN known ELSE Default

\* The HTTP proxy only looks closer at what the header or the body announces.
ShouldGate(m) == m.header \/ IsToolCall(m) \/ HidesToolCall(m)
Looks(m) == governed /\ (transport = "http" => ShouldGate(m))

\* Mutant: a batch is passed on unread.
BatchesPass(m) == IF IsToolCall(m) THEN "asking" ELSE "forwarding"
RelayDecision(m) ==
  IF HidesToolCall(m) THEN "refusing"
  ELSE IF IsToolCall(m) THEN "asking" ELSE "forwarding"
-----------------------------------------------------------------------------
(* The client. *)

Sends(n) ==
  /\ ~closed /\ ~Contains(sent, n) /\ pc # "stopped"
  /\ (transport = "stdio" => Len(inbox) < Cap)
  /\ sent' = Append(sent, n) /\ inbox' = Append(inbox, n)
  /\ UNCHANGED << transport, governed, closed, pc, at, identity, server, out, intents, rulings >>

Closes ==
  /\ transport = "stdio" /\ ~closed /\ closed' = TRUE
  /\ UNCHANGED << transport, governed, sent, inbox, pc, at, identity, server, out, intents, rulings >>

Answers(id, by) == out' = Append(out, [id |-> id, by |-> by])
-----------------------------------------------------------------------------
(* The relay. *)

\* Over HTTP each request is judged by what it says itself.
Known == IF transport = "http" THEN None ELSE identity
Learns(m) ==
  /\ identity' = IF transport = "http" THEN None ELSE Observe(identity, m)
  /\ intents' = IF Looks(m) /\ IsToolCall(m)
                THEN Append(intents, [at |-> Len(sent) - Len(inbox) + 1,
                                      agent |-> AgentOf(Observe(Known, m))])
                ELSE intents

\* A message is read.  A blank one is skipped, and one that does not parse is
\* passed on for the server to reject.
Read ==
  LET m == Msgs[Head(inbox)] IN
  /\ pc = "reading" /\ inbox # <<>>
  /\ inbox' = Tail(inbox) /\ at' = Head(inbox)
  /\ Learns(m)
  /\ pc' = IF m.form = "blank" THEN "reading"
           ELSE IF Looks(m) THEN RelayDecision(m) ELSE "forwarding"
  /\ UNCHANGED << transport, governed, client, server, out, rulings >>

\* The gate has come to an outcome; nothing else was read in the meantime.
GateAnswers(outcome) ==
  /\ pc = "asking"
  /\ IF outcome = "refuse" THEN pc' = "refusing" /\ UNCHANGED rulings
     ELSE pc' = "forwarding" /\ rulings' = rulings \cup {at}
  /\ UNCHANGED << transport, governed, client, inbox, at, identity, server, out, intents >>

RefusalId(m) == m.id
\* Mutant: what was refused is passed on as well.
FallsThrough == "forwarding"
AfterRefusal == "reading"

Refuses ==
  /\ pc = "refusing" /\ Answers(RefusalId(Msgs[at]), "gate") /\ pc' = AfterRefusal
  /\ UNCHANGED << transport, governed, client, inbox, at, identity, server, intents, rulings >>

\* The message is written to the server, as it came.
Forwards ==
  /\ pc = "forwarding" /\ up /\ Len(toServer) < Cap
  /\ toServer' = Append(toServer, at)
  /\ pc' = IF transport = "http" THEN "copying" ELSE "reading"
  /\ UNCHANGED << transport, governed, client, inbox, at, identity, working, fromServer, up,
                  received, deaths, out, intents, rulings >>

\* There is no server to write to: over HTTP the client is told, over stdio the
\* relay ends, unless it could not read the message in the first place.
CannotForward ==
  /\ pc = "forwarding" /\ ~up
  /\ IF transport = "http" THEN Answers(Msgs[at].id, "proxy") /\ pc' = "reading"
     ELSE /\ pc' = IF Msgs[at].form = "garbage" THEN "reading" ELSE "ending"
          /\ UNCHANGED out
  /\ UNCHANGED << transport, governed, client, inbox, at, identity, server, intents, rulings >>

\* Mutant: one thread relays both ways.
OneThread == pc # "forwarding"
OwnThread == TRUE

\* Server to client, by a thread of its own or to the end of the exchange.
Pump ==
  /\ OwnThread /\ fromServer # <<>> /\ fromServer' = Tail(fromServer)
  /\ Answers(Msgs[Head(fromServer)].id, "server")
  /\ pc' = IF pc = "copying" THEN "reading" ELSE pc
  /\ UNCHANGED << transport, governed, client, inbox, at, identity, toServer, working, up,
                  received, deaths, intents, rulings >>

\* The server went away in the middle of an exchange.
CutShort ==
  /\ pc = "copying" /\ ~up /\ fromServer = <<>> /\ pc' = "reading"
  /\ UNCHANGED << transport, governed, client, inbox, at, identity, server, out, intents, rulings >>

\* The client is gone and all it sent was read.
EndOfInput ==
  /\ pc = "reading" /\ inbox = <<>> /\ closed /\ pc' = "ending"
  /\ UNCHANGED << transport, governed, client, inbox, at, identity, server, out, intents, rulings >>

\* Mutant: the process does not wait for the pump.
NotJoined == TRUE
Joined == fromServer = <<>>

\* The server's input is closed, the server is waited for, then the pump.
Stops ==
  /\ pc = "ending" /\ ~up /\ Joined /\ pc' = "stopped" /\ fromServer' = <<>>
  /\ UNCHANGED << transport, governed, client, inbox, at, identity, toServer, working, up,
                  received, deaths, out, intents, rulings >>
-----------------------------------------------------------------------------
(* The server: it reads in order, answers every request in some order, and *)
(* ends when its input does.                                               *)

IsRequest(m) == m.id # None \/ m.form # "single"

ServerTakes ==
  /\ up /\ toServer # <<>> /\ Cardinality(working) < Cap
  /\ toServer' = Tail(toServer) /\ received' = Append(received, Head(toServer))
  /\ working' = IF IsRequest(Msgs[Head(toServer)]) \/ transport = "http"
                THEN working \cup {Head(toServer)} ELSE working
  /\ UNCHANGED << transport, governed, client, inbox, pc, at, identity, fromServer, up, deaths,
                  out, intents, rulings >>

ServerAnswers(n) ==
  /\ up /\ n \in working /\ Len(fromServer) < Cap
  /\ working' = working \ {n} /\ fromServer' = Append(fromServer, n)
  /\ UNCHANGED << transport, governed, client, inbox, pc, at, identity, toServer, up, received,
                  deaths, out, intents, rulings >>

Gone == up' = FALSE /\ toServer' = <<>> /\ working' = {}

ServerEnds ==
  /\ up /\ pc = "ending" /\ toServer = <<>> /\ working = {} /\ Gone
  /\ UNCHANGED << transport, governed, client, inbox, pc, at, identity, fromServer, received,
                  deaths, out, intents, rulings >>

ServerDies ==
  /\ up /\ deaths < MaxDeaths /\ deaths' = deaths + 1 /\ Gone
  /\ UNCHANGED << transport, governed, client, inbox, pc, at, identity, fromServer, received,
                  out, intents, rulings >>

Rule == \E outcome \in {"proceed", "notGoverned", "refuse"} : GateAnswers(outcome)
Relays == Read \/ Refuses \/ Forwards \/ CannotForward \/ CutShort \/ EndOfInput \/ Stops

Next ==
  \/ \E n \in Sent : Sends(n) \/ ServerAnswers(n)
  \/ Closes \/ Rule \/ Relays \/ Pump \/ ServerTakes \/ ServerEnds \/ ServerDies

\* Threads run, the gate's calls end (AgentGate), and the server is fair to its
\* client.  Nothing is assumed of the client.
Fairness ==
  /\ WF_vars(Relays) /\ WF_vars(Pump) /\ WF_vars(Rule)
  /\ WF_vars(ServerTakes) /\ WF_vars(ServerEnds) /\ \A n \in Sent : WF_vars(ServerAnswers(n))

Spec == Init /\ [][Next]_vars
FairSpec == Spec /\ Fairness
-----------------------------------------------------------------------------
IsAnswered(n) == \E k \in DOMAIN out : out[k].id = Msgs[n].id
Single(n) == Msgs[n].form = "single"

\* While the gate is there, the server is never given a tool call that the gate
\* did not let proceed, not even one in a batch, whatever order things arrive in.
NothingUnruled ==
  governed => \A k \in DOMAIN received :
    /\ IsToolCall(Msgs[received[k]]) => received[k] \in rulings
    /\ ~HidesToolCall(Msgs[received[k]])

\* One sequence has what another has at these places, in its order.
TakenFrom(s, t, places) ==
  \E place \in [DOMAIN s -> places] :
    /\ Range(place) = places
    /\ \A j, k \in DOMAIN place : j < k => place[j] < place[k]
    /\ \A k \in DOMAIN place : s[k] = t[place[k]]

\* Over stdio nothing is lost, repeated or overtaken on the way to a living
\* server: what it has and what is on its way are what the client sent, in
\* order, without what was refused and what was blank.
Refused == { n \in Sent : \/ Msgs[n].form = "blank"
                          \/ governed /\ HidesToolCall(Msgs[n])
                          \/ governed /\ IsToolCall(Msgs[n]) /\ n \notin rulings }
OnItsWay == received \o toServer \o (IF pc = "forwarding" THEN <<at>> ELSE <<>>)
OrderKept ==
  transport = "stdio" /\ deaths = 0 =>
    TakenFrom(OnItsWay, sent, { k \in 1..(Len(sent) - Len(inbox)) : sent[k] \notin Refused })

\* A call is judged as the client that made it: the name on the command line,
\* else the last the client gave before or with the call, over stdio.
JudgedAsItself ==
  transport = "stdio" => \A k \in DOMAIN intents :
    LET named == { n \in 1..intents[k].at : Single(sent[n]) /\ Msgs[sent[n]].client # None } IN
    intents[k].agent = AgentOf(IF named = {} THEN None ELSE Msgs[sent[Max(named)]].client)

\* No request is answered twice, by whoever answers, and the relay does not end
\* of its own accord with an answer that the client was not given.
AnsweredOnce ==
  /\ \A n \in Sent : IsRequest(Msgs[n]) /\ Single(n) =>
       Cardinality({ k \in DOMAIN out : out[k].id = Msgs[n].id }) <= 1
  /\ pc = "stopped" /\ deaths = 0 =>
       \A n \in Sent : Contains(sent, n) /\ IsRequest(Msgs[n]) /\ Single(n) => IsAnswered(n)

\* A request is answered in the end, with all pipes bounded and the gate taking
\* its time, as long as the server lives.  It need not be when the server dies.
EveryRequestAnswered ==
  \A n \in Sent :
    IsRequest(Msgs[n]) /\ Single(n) /\ Contains(sent, n) ~> IsAnswered(n) \/ deaths > 0
=============================================================================
