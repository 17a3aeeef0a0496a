------------------------------ MODULE AgentGate -------------------------------
(***************************************************************************)
(* Agents asking before they act: adapter processes (quorum-adapter, as a  *)
(* hook run once per tool call or as a long-lived MCP proxy), the files    *)
(* the app publishes its bridge through, the bridge's threads              *)
(* (agent_bridge.rs), and the human who answers escalations in the app.    *)
(*                                                                         *)
(* A launch of the app is a session: it has an address and a token of its  *)
(* own, both written here as the number of the launch.  The backend is a   *)
(* book of decisions per tenant, what GovernedActions is shown to be; the  *)
(* policy's verdict on an intent is left open.                             *)
(***************************************************************************)
EXTENDS DecisionBook, FiniteSets

CONSTANTS
  Hooks,        \* tool calls each gated by an adapter process of its own
  Proxied,      \* tool calls that go through the one MCP proxy
  Tenants,
  MaxLaunches,  \* bound: launches of the app
  MaxSwitches,  \* bound: changes of the active tenant within a session
  MaxTimeouts   \* bound: read timeouts of the adapter

Calls == Hooks \cup Proxied
Sessions == 1..MaxLaunches
Truncated == 0    \* a file opened for writing and not yet written
Contents == Sessions \cup {Truncated, None}

\* --wait: no wait, a finite one, or one longer than anything that happens.
Waits == {"zero", "some", "long"}

\* "unjudged": the hook had no objection because it could not judge the call.
Outcomes == {"ungoverned", "unjudged", "allowed", "approved", "rejected", "unanswered",
             "refused"}
Replies == Rulings \cup HumanAnswers \cup {"pending", "error"}

ASSUME CallsDistinct == Hooks \cap Proxied = {}
ASSUME NoneIsNothingElse ==
  /\ None \notin Sessions \cup {Truncated} /\ None \notin Tenants
  /\ None \notin Replies /\ None \notin Outcomes
ASSUME GateBounds == MaxLaunches \in Nat /\ MaxSwitches \in Nat /\ MaxTimeouts \in Nat
-----------------------------------------------------------------------------
VARIABLES
  phase,        \* of the app: "down", "bound" (token not written), "serving"
  session,      \* launches so far
  tokenFile, endpointFile,
  active,       \* the tenant scope in force
  saved,        \* scope.json
  books,        \* the decisions of each tenant
  intake,       \* intents a bridge thread has read and not yet ruled on
  proxy,        \* the MCP proxy: what it found when it was started
  call,         \* the adapter's state for each tool call
  rulings,      \* history: what was recorded for which call
  said,         \* history: the answers humans gave
  crossed,      \* history: calls under way when the active tenant changed
  installed,    \* history: an endpoint was published once
  switches, timeouts

app == << phase, session, tokenFile, endpointFile, active, saved, installed, switches >>
evidence == << books, rulings, said >>
vars == << app, evidence, intake, proxy, call, crossed, timeouts >>

Unasked == [pc |-> "idle", addr |-> Truncated, token |-> Truncated, wait |-> "zero",
            late |-> FALSE, id |-> 0, reply |-> None, outcome |-> None]

\* The adapter process has answered its caller.
Finished(outcome) == [Unasked EXCEPT !.pc = "done", !.outcome = outcome]

Init ==
  /\ phase = "down" /\ session = 0
  /\ tokenFile = None /\ endpointFile = None
  /\ active = None /\ saved = None
  /\ books = [t \in Tenants |-> EmptyBook]
  /\ intake = {}
  /\ proxy = [pc |-> "off", addr |-> Truncated, token |-> Truncated]
  /\ call = [c \in Calls |-> Unasked]
  /\ rulings = {} /\ said = {} /\ crossed = {} /\ installed = FALSE
  /\ switches = 0 /\ timeouts = 0
-----------------------------------------------------------------------------
(* The app publishes its bridge: the token first, then where to find it. *)

\* The listener is bound and the token file opened; the scope left by the last
\* session is resumed, if it reloads.
Launch ==
  /\ phase = "down" /\ session < MaxLaunches
  /\ phase' = "bound" /\ session' = session + 1
  /\ tokenFile' = Truncated
  /\ active' \in {saved, None}
  /\ UNCHANGED << endpointFile, saved, installed, switches, evidence, intake, proxy,
                  call, crossed, timeouts >>

WriteToken ==
  /\ phase = "bound"
  /\ phase' = "serving" /\ tokenFile' = session
  /\ UNCHANGED << session, endpointFile, active, saved, installed, switches, evidence,
                  intake, proxy, call, crossed, timeouts >>

\* Mutant: the endpoint is written before the token.
PublishAtOnce == phase \in {"bound", "serving"}
MayPublish == phase = "serving"

\* endpoint.json is opened, which empties it, and then written.
Publish ==
  /\ MayPublish /\ endpointFile # session
  /\ endpointFile' = IF endpointFile = Truncated THEN session ELSE Truncated
  /\ installed' = TRUE
  /\ UNCHANGED << phase, session, tokenFile, active, saved, switches, evidence, intake,
                  proxy, call, crossed, timeouts >>

\* tenant_set: the calls under way were begun under another scope.
SetTenant(t) ==
  /\ phase = "serving" /\ t # active
  /\ active' = t /\ saved' = t
  /\ IF active = None THEN UNCHANGED << switches, crossed >>
     ELSE /\ switches < MaxSwitches /\ switches' = switches + 1
          /\ crossed' = crossed \cup { c \in Calls : call[c].pc \notin {"idle", "done"} }
  /\ UNCHANGED << phase, session, tokenFile, endpointFile, installed, evidence, intake,
                  proxy, call, timeouts >>

\* Mutant: a clean exit takes the endpoint back.
WithdrawnEndpoint == None
\* Neither file is removed when the app goes.
LeftEndpoint == endpointFile

\* The app exits or dies: the threads go with it, and what they had already
\* written to a socket may or may not arrive.
Exit ==
  /\ phase # "down"
  /\ phase' = "down" /\ active' = None /\ intake' = {}
  /\ endpointFile' = LeftEndpoint
  /\ \E lost \in SUBSET { c \in Calls : call[c].pc \in {"submitting", "polling"} } :
       /\ { c \in Calls : call[c].pc \in {"submitting", "polling"} /\ call[c].reply = None }
            \subseteq lost
       /\ call' = [c \in Calls |-> IF c \in lost THEN [call[c] EXCEPT !.reply = "error"]
                                   ELSE call[c]]
  /\ UNCHANGED << session, tokenFile, saved, installed, switches, evidence, proxy,
                  crossed, timeouts >>
-----------------------------------------------------------------------------
(* The adapter: finding the gate. *)

Steps(c, change) == call' = [call EXCEPT ![c] = change]
Ends(c, outcome) == Steps(c, Finished(outcome))

AdapterOnly == UNCHANGED << app, evidence, intake, proxy, crossed, timeouts >>

\* A retry of a call that gave up on the human is a call like any other.
Wanted(c) == call[c].pc = "idle"

\* A hook that cannot read its call, or reads none with a tool's name, exits with
\* no objection before it looks for the gate; so does one whose environment names
\* no directory to look in.  The call runs, installed or not.
StandAside(c) ==
  /\ c \in Hooks /\ Wanted(c)
  /\ Ends(c, "unjudged")
  /\ AdapterOnly

\* discover, first half: no endpoint file means nobody set Quorum up here.
ReadEndpoint(c) ==
  /\ c \in Hooks /\ Wanted(c)
  /\ \/ endpointFile = None /\ Ends(c, "ungoverned")
     \/ endpointFile = Truncated /\ Ends(c, "refused")
     \/ /\ endpointFile \in Sessions
        /\ Steps(c, [call[c] EXCEPT !.pc = "found", !.addr = endpointFile])
  /\ AdapterOnly

\* discover, second half: an empty token is refused, never guessed.
ReadToken(c) ==
  /\ call[c].pc = "found"
  /\ IF tokenFile \in Sessions
     THEN Steps(c, [call[c] EXCEPT !.pc = "ready", !.token = tokenFile])
     ELSE Ends(c, "refused")
  /\ AdapterOnly

\* The proxy looks once, when it starts.  If it refuses to, it can be started
\* again; if it found nothing (none was published, or its environment names no
\* directory to look in), it relays ungoverned for as long as it runs.
ProxyStart ==
  /\ proxy.pc = "off"
  /\ \/ proxy' = [proxy EXCEPT !.pc = "ungoverned"]
     \/ /\ endpointFile \in Sessions
        /\ proxy' = [proxy EXCEPT !.pc = "found", !.addr = endpointFile]
  /\ UNCHANGED << app, evidence, intake, call, crossed, timeouts >>

ProxyReadToken ==
  /\ proxy.pc = "found"
  /\ proxy' = IF tokenFile \in Sessions
              THEN [proxy EXCEPT !.pc = "ready", !.token = tokenFile]
              ELSE [proxy EXCEPT !.pc = "off", !.addr = Truncated]
  /\ UNCHANGED << app, evidence, intake, call, crossed, timeouts >>

\* Mutant: the proxy looks up the address again, and keeps its token.
CurrentGate == [addr |-> endpointFile, token |-> proxy.token]
FoundGate == [addr |-> proxy.addr, token |-> proxy.token]

\* Client messages are read one at a time: a call is decided before the next
\* is looked at.  A batch that hides a tool call is refused outright.
Relay(c) ==
  /\ c \in Proxied /\ Wanted(c)
  /\ \A d \in Proxied : call[d].pc \in {"idle", "done"}
  /\ \/ proxy.pc = "ungoverned" /\ Ends(c, "ungoverned")
     \/ proxy.pc = "ready" /\ Ends(c, "refused")
     \/ /\ proxy.pc = "ready"
        /\ Steps(c, [call[c] EXCEPT !.pc = "ready", !.addr = FoundGate.addr,
                                    !.token = FoundGate.token])
  /\ AdapterOnly
-----------------------------------------------------------------------------
(* The adapter: gate_call. *)

\* A connection is accepted: the bridge of that address is the one running.
Reaches(c) == phase = "serving" /\ call[c].addr = session

Submit(c) ==
  /\ call[c].pc = "ready"
  /\ IF Reaches(c)
     THEN /\ Steps(c, [call[c] EXCEPT !.pc = "submitting"])
          /\ intake' = intake \cup {<<c, call[c].token>>}
     ELSE Ends(c, "refused") /\ UNCHANGED intake
  /\ UNCHANGED << app, evidence, proxy, crossed, timeouts >>

\* Mutant: an escalation that nobody waits for is taken for a yes.
EscalationProceeds(c) == Ends(c, "approved")
\* A require-approval is held open for as long as --wait says; only here does
\* the flag matter.
Escalated(c) ==
  \E w \in Waits :
    Steps(c, [call[c] EXCEPT !.pc = "waiting", !.reply = None, !.wait = w, !.late = (w = "zero")])

HearVerdict(c) ==
  /\ call[c].pc = "submitting"
  /\ \/ call[c].reply = "allow" /\ Ends(c, "allowed")
     \/ call[c].reply = "require-approval" /\ Escalated(c)
     \/ call[c].reply \in {"deny", "ungoverned", "error"} /\ Ends(c, "refused")
  /\ AdapterOnly

\* Mutant: the deadline is not looked at.
NeverGivesUp(c) == FALSE
GivesUp(c) == call[c].late

\* The loop: the deadline first, then half a second of sleep, then the poll.
Check(c) ==
  /\ call[c].pc = "waiting"
  /\ IF GivesUp(c) THEN Ends(c, "unanswered")
                   ELSE Steps(c, [call[c] EXCEPT !.pc = "sleeping"])
  /\ AdapterOnly

Poll(c) ==
  /\ call[c].pc = "sleeping"
  /\ Steps(c, [call[c] EXCEPT !.pc = IF Reaches(c) THEN "polling" ELSE "waiting"])
  /\ AdapterOnly

\* Mutant: anything but a refusal lets the call through.
ApprovedUnlessRejected == Replies \ {"rejected"}
ApprovingStatus == {"approved"}

HearStatus(c) ==
  /\ call[c].pc = "polling" /\ call[c].reply # None
  /\ IF call[c].reply \in ApprovingStatus THEN Ends(c, "approved")
     ELSE IF call[c].reply = "rejected" THEN Ends(c, "rejected")
     ELSE Steps(c, [call[c] EXCEPT !.pc = "waiting", !.reply = None])
  /\ AdapterOnly

DeadlinePasses(c) ==
  /\ call[c].pc \in {"waiting", "sleeping", "polling"}
  /\ call[c].wait = "some" /\ ~call[c].late
  /\ Steps(c, [call[c] EXCEPT !.late = TRUE])
  /\ AdapterOnly

\* Mutant: an intent that timed out is submitted again.
ResubmitOnTimeout(c) == Steps(c, [call[c] EXCEPT !.pc = "ready", !.reply = None])
\* Nothing was read for ten seconds: an intent is given up, a poll repeated.
TimedOut(c) ==
  IF call[c].pc = "submitting" THEN Ends(c, "refused")
  ELSE Steps(c, [call[c] EXCEPT !.pc = "waiting"])

TimeOut(c) ==
  /\ call[c].pc \in {"submitting", "polling"} /\ call[c].reply = None
  /\ timeouts < MaxTimeouts /\ timeouts' = timeouts + 1
  /\ TimedOut(c)
  /\ UNCHANGED << app, evidence, intake, proxy, crossed >>
-----------------------------------------------------------------------------
(* The bridge's threads. *)

\* A reply is heard by a call that is still listening for it.
Replied(c, pc, reply, id) ==
  IF call[c].pc = pc /\ call[c].reply = None
  THEN Steps(c, [call[c] EXCEPT !.reply = reply, !.id = id])
  ELSE UNCHANGED call

Authorised(token) == token = session

\* 401, 409, or an error of the backend: nothing is recorded.
RefuseIntent(c) ==
  /\ \E request \in intake : request[1] = c /\ intake' = intake \ {request}
  /\ Replied(c, "submitting", "error", 0)
  /\ UNCHANGED << app, evidence, proxy, crossed, timeouts >>

\* The gate: the verdict is on the active tenant's record before it is sent,
\* whether or not anybody is still listening.
RuleOn(c, verdict) ==
  /\ \E request \in intake :
       request[1] = c /\ Authorised(request[2]) /\ intake' = intake \ {request}
  /\ active # None /\ HasRoom(books[active])
  /\ LET id == NextId(books[active])
     IN  /\ books' = [books EXCEPT ![active] = WithRuling(@, verdict)]
         /\ rulings' = rulings \cup { [call |-> c, tenant |-> active, id |-> id,
                                       verdict |-> verdict] }
         /\ Replied(c, "submitting", verdict, id)
  /\ UNCHANGED << app, said, proxy, crossed, timeouts >>

\* GET /decision/{id} reads the tenant that is active now.
Polled(c) == IF Authorised(call[c].token) /\ active # None THEN StatusOf(books[active], call[c].id)
             ELSE "unknown"

AnswerPoll(c) ==
  /\ call[c].pc = "polling" /\ call[c].reply = None
  /\ Replied(c, "polling", IF Polled(c) = "unknown" THEN "error" ELSE Polled(c), call[c].id)
  /\ AdapterOnly
-----------------------------------------------------------------------------
(* The human, in the app. *)

\* Other records of the tenant's chain: what humans do directly.
Note ==
  /\ phase = "serving" /\ active # None /\ HasRoom(books[active])
  /\ books' = [books EXCEPT ![active] = WithNote(@)]
  /\ UNCHANGED << app, rulings, said, intake, proxy, call, crossed, timeouts >>

Answer(id, answer) ==
  /\ books' = [books EXCEPT ![active] = WithAnswer(@, id, answer)]
  /\ said' = said \cup { [tenant |-> active, id |-> id, answer |-> answer] }
  /\ UNCHANGED << app, rulings, intake, proxy, call, crossed, timeouts >>

Approve(id) ==
  phase = "serving" /\ active # None /\ MayApprove(books[active], id) /\ Answer(id, "approved")

Reject(id) ==
  phase = "serving" /\ active # None /\ MayReject(books[active], id) /\ Answer(id, "rejected")
-----------------------------------------------------------------------------
AdapterStep(c) ==
  ReadToken(c) \/ Submit(c) \/ HearVerdict(c) \/ Check(c) \/ Poll(c) \/ HearStatus(c)

BridgeStep(c) ==
  RefuseIntent(c) \/ AnswerPoll(c) \/ \E verdict \in Rulings : RuleOn(c, verdict)

Next ==
  \/ Launch \/ WriteToken \/ Publish \/ Exit
  \/ \E t \in Tenants : SetTenant(t)
  \/ ProxyStart \/ ProxyReadToken
  \/ \E c \in Calls :
       \/ StandAside(c) \/ ReadEndpoint(c) \/ Relay(c) \/ AdapterStep(c) \/ BridgeStep(c)
       \/ DeadlinePasses(c) \/ TimeOut(c)
  \/ \E id \in BookIds : Approve(id) \/ Reject(id)
  \/ Note

\* Processes and threads that can go on do, and clocks run.  Nothing is assumed
\* of the human, of the app's launches, or of an agent that has not yet called.
Fairness ==
  \A c \in Calls : WF_vars(AdapterStep(c)) /\ WF_vars(BridgeStep(c)) /\ WF_vars(DeadlinePasses(c))

Spec == Init /\ [][Next]_vars
FairSpec == Spec /\ Fairness
-----------------------------------------------------------------------------
Proceeds == {"allowed", "approved"}

RulingsOf(c) == { r \in rulings : r.call = c }
SaidOf(c, answer) ==
  { s \in said : s.answer = answer /\ \E r \in RulingsOf(c) : s.tenant = r.tenant /\ s.id = r.id }

\* A call runs as allowed only if its own intent was recorded as allowed, and
\* one that a human is said to have approved or refused was answered that way
\* itself, whatever was lost or timed out, unless the operator changed the
\* tenant scope under it.
OutcomeEarned ==
  \A c \in Calls :
    /\ call[c].outcome = "allowed" => \E r \in RulingsOf(c) : r.verdict = "allow"
    /\ call[c].outcome \in HumanAnswers /\ c \notin crossed => SaidOf(c, call[c].outcome) # {}

\* A call leaves at most one ruling behind (and is charged at most once),
\* whatever timed out.
RuledOnce == \A c \in Calls : Cardinality(RulingsOf(c)) <= 1

\* Whoever reaches the bridge presents the token of the session that runs: no
\* interleaving of a relaunch with discovery pairs an address with a stale token.
TokenCurrent ==
  \A c \in Calls : call[c].pc = "ready" /\ Reaches(c) => Authorised(call[c].token)

\* Once an endpoint was published, no hook takes Quorum for not installed: while
\* the app is down, starting or restarting, the calls it reads are refused.  Calls
\* it does not judge at all (StandAside) are not claimed: those still run.
GovernedOnceInstalled ==
  [][\A c \in Hooks : installed /\ call'[c].outcome = "ungoverned"
                        => call[c].outcome = "ungoverned"]_vars

\* A call comes to an end whatever the app does, unless it was told to wait
\* for a human longer than anything that happens.
EveryCallEnds ==
  \A c \in Calls : call[c].pc # "idle" ~> call[c].pc = "done" \/ call[c].wait = "long"

Answered(c) == \E a \in HumanAnswers : SaidOf(c, a) # {}

\* An agent that waits learns the answer, unless the session it asked in ends
\* or the operator changes the tenant scope under it.
AnswerReachesAgent ==
  \A c \in Calls : Answered(c) ~> call[c].pc = "done" \/ c \in crossed \/ ~Reaches(c)
=============================================================================
