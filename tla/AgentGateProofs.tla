--------------------------- MODULE AgentGateProofs --------------------------
(***************************************************************************)
(* For any number of calls, launches, tenants, timeouts and lost replies: a*)
(* tool call is ruled on at most once, its outcome is one it was given, it *)
(* never comes to the running session with another session's token, and no *)
(* hook that reads its call takes Quorum for not installed once it was.    *)
(*                                                                         *)
(* A call is submitted once: having submitted it never becomes one that    *)
(* has not.  So at most one thread of the bridge ever holds its intent,    *)
(* and none does once it was ruled on.                                     *)
(*                                                                         *)
(* An outcome is earned because a call listens only to the session it      *)
(* reached, and the tenant its decision is in is the one polls read for as *)
(* long as that session runs and the scope stays.                          *)
(***************************************************************************)
EXTENDS AgentGate, FiniteSetTheorems, TLAPS

HasPc == DOMAIN call = Calls /\ \A c \in Calls : "pc" \in DOMAIN call[c]

\* A call that was not submitted yet.
Early(c) == call[c].pc \in {"idle", "found", "ready"}
NoReturn == \A c \in Calls : Early(c)' => Early(c)

AskedOnce ==
  /\ HasPc
  /\ \A r, s \in intake : r[1] = s[1] => r = s
  /\ \A r \in intake, c \in Calls : r[1] = c => ~Early(c) /\ RulingsOf(c) = {}
  /\ \A c \in Calls : Early(c) => RulingsOf(c) = {}
  /\ \A p, q \in rulings : p.call = q.call => p = q

LEMMA InitAsks == Init => AskedOnce
BY DEF Init, AskedOnce, HasPc, Unasked, RulingsOf
-----------------------------------------------------------------------------
\* A step of one call leaves the others alone.
LEMMA StepsOne ==
  ASSUME HasPc, NEW c \in Calls, NEW change, "pc" \in DOMAIN change, Steps(c, change)
  PROVE  HasPc' /\ call'[c] = change /\ \A d \in Calls \ {c} : call'[d] = call[d]
BY DEF HasPc, Steps

\* And one that does not lead back before the submission returns nothing.
LEMMA StepsOn ==
  ASSUME HasPc, NEW c \in Calls, NEW change, "pc" \in DOMAIN change, Steps(c, change),
         change.pc \in {"idle", "found", "ready"} => Early(c)
  PROVE  HasPc' /\ NoReturn
BY StepsOne DEF NoReturn, Early

LEMMA EndsOn ==
  ASSUME HasPc, NEW c \in Calls, NEW outcome, Ends(c, outcome)
  PROVE  HasPc' /\ NoReturn
<1>1. "pc" \in DOMAIN Finished(outcome) /\ Finished(outcome).pc = "done"
  BY DEF Finished, Unasked
<1> QED BY <1>1, StepsOn DEF Ends

LEMMA RepliedOn ==
  ASSUME HasPc, NEW c \in Calls, NEW pc, NEW reply, NEW id, Replied(c, pc, reply, id)
  PROVE  HasPc' /\ NoReturn
<1>1. CASE UNCHANGED call
  BY <1>1 DEF HasPc, NoReturn, Early
<1>2. CASE Steps(c, [call[c] EXCEPT !.reply = reply, !.id = id])
  <2>1. /\ "pc" \in DOMAIN [call[c] EXCEPT !.reply = reply, !.id = id]
        /\ [call[c] EXCEPT !.reply = reply, !.id = id].pc = call[c].pc
    BY DEF HasPc
  <2> QED BY <1>2, <2>1, StepsOn DEF Early
<1> QED BY <1>1, <1>2 DEF Replied

\* Nothing new is asked and nothing is ruled.
LEMMA NothingAsked ==
  ASSUME AskedOnce, HasPc', NoReturn, intake' \subseteq intake, rulings' = rulings
  PROVE  AskedOnce'
BY DEF AskedOnce, NoReturn, RulingsOf
-----------------------------------------------------------------------------
\* The adapter's steps but the submission.
LEMMA AdapterAsks ==
  ASSUME AskedOnce, NEW c \in Calls,
         \/ StandAside(c) \/ ReadEndpoint(c) \/ ReadToken(c) \/ Relay(c) \/ HearVerdict(c)
         \/ Check(c) \/ Poll(c) \/ HearStatus(c) \/ DeadlinePasses(c) \/ TimeOut(c)
  PROVE  AskedOnce'
<1>0. HasPc
  BY DEF AskedOnce
<1>1. intake' = intake /\ rulings' = rulings
  BY DEF StandAside, ReadEndpoint, ReadToken, Relay, HearVerdict, Check, Poll, HearStatus,
         DeadlinePasses, TimeOut, AdapterOnly, evidence
<1>2. CASE \E outcome : Ends(c, outcome)
  BY <1>0, <1>1, <1>2, EndsOn, NothingAsked
<1>3. CASE ReadEndpoint(c) /\ Steps(c, [call[c] EXCEPT !.pc = "found", !.addr = endpointFile])
  <2>1. "pc" \in DOMAIN [call[c] EXCEPT !.pc = "found", !.addr = endpointFile]
    BY <1>0 DEF HasPc
  <2>2. Early(c)
    BY <1>3 DEF ReadEndpoint, Wanted, Early
  <2> QED BY <1>0, <1>1, <1>3, <2>1, <2>2, StepsOn, NothingAsked
<1>4. CASE ReadToken(c) /\ Steps(c, [call[c] EXCEPT !.pc = "ready", !.token = tokenFile])
  <2>1. "pc" \in DOMAIN [call[c] EXCEPT !.pc = "ready", !.token = tokenFile]
    BY <1>0 DEF HasPc
  <2>2. Early(c)
    BY <1>4 DEF ReadToken, Early
  <2> QED BY <1>0, <1>1, <1>4, <2>1, <2>2, StepsOn, NothingAsked
<1>5. CASE Relay(c) /\ Steps(c, [call[c] EXCEPT !.pc = "ready", !.addr = FoundGate.addr,
                                                !.token = FoundGate.token])
  <2>1. "pc" \in DOMAIN [call[c] EXCEPT !.pc = "ready", !.addr = FoundGate.addr,
                                        !.token = FoundGate.token]
    BY <1>0 DEF HasPc
  <2>2. Early(c)
    BY <1>5 DEF Relay, Wanted, Early
  <2> QED BY <1>0, <1>1, <1>5, <2>1, <2>2, StepsOn, NothingAsked
<1>6. ASSUME NEW w, Steps(c, [call[c] EXCEPT !.pc = "waiting", !.reply = None, !.wait = w,
                                             !.late = (w = "zero")])
      PROVE  AskedOnce'
  <2> DEFINE change == [call[c] EXCEPT !.pc = "waiting", !.reply = None, !.wait = w,
                                       !.late = (w = "zero")]
  <2>1. "pc" \in DOMAIN change /\ change.pc = "waiting"
    BY <1>0 DEF HasPc
  <2> QED BY <1>0, <1>1, <1>6, <2>1, StepsOn, NothingAsked
<1>7. ASSUME NEW pc \in {"waiting", "sleeping", "polling"}, Steps(c, [call[c] EXCEPT !.pc = pc])
      PROVE  AskedOnce'
  <2>1. "pc" \in DOMAIN [call[c] EXCEPT !.pc = pc] /\ [call[c] EXCEPT !.pc = pc].pc = pc
    BY <1>0 DEF HasPc
  <2> QED BY <1>0, <1>1, <1>7, <2>1, StepsOn, NothingAsked
<1>8. CASE Steps(c, [call[c] EXCEPT !.pc = "waiting", !.reply = None])
  <2>1. /\ "pc" \in DOMAIN [call[c] EXCEPT !.pc = "waiting", !.reply = None]
        /\ [call[c] EXCEPT !.pc = "waiting", !.reply = None].pc = "waiting"
    BY <1>0 DEF HasPc
  <2> QED BY <1>0, <1>1, <1>8, <2>1, StepsOn, NothingAsked
<1>9. CASE Steps(c, [call[c] EXCEPT !.late = TRUE])
  <2>1. "pc" \in DOMAIN [call[c] EXCEPT !.late = TRUE] /\ [call[c] EXCEPT !.late = TRUE].pc = call[c].pc
    BY <1>0 DEF HasPc
  <2> QED BY <1>0, <1>1, <1>9, <2>1, StepsOn, NothingAsked DEF Early
<1> QED
  BY <1>2, <1>3, <1>4, <1>5, <1>6, <1>7, <1>8, <1>9
  DEF StandAside, ReadEndpoint, ReadToken, Relay, HearVerdict, Escalated, Check, Poll, HearStatus,
      DeadlinePasses, TimeOut, TimedOut

\* The submission: the call had none before, and has none to come.
LEMMA SubmitAsks ==
  ASSUME AskedOnce, NEW c \in Calls, Submit(c) PROVE AskedOnce'
<1>0. HasPc /\ Early(c) /\ rulings' = rulings
  BY DEF AskedOnce, Submit, Early, evidence
<1>1. CASE Ends(c, "refused") /\ UNCHANGED intake
  BY <1>0, <1>1, EndsOn, NothingAsked
<1>2. CASE /\ Steps(c, [call[c] EXCEPT !.pc = "submitting"])
           /\ intake' = intake \cup {<<c, call[c].token>>}
  <2> DEFINE new == <<c, call[c].token>>
  <2>1. /\ "pc" \in DOMAIN [call[c] EXCEPT !.pc = "submitting"]
        /\ [call[c] EXCEPT !.pc = "submitting"].pc = "submitting"
    BY <1>0 DEF HasPc
  <2>2. HasPc' /\ NoReturn /\ ~Early(c)'
    BY <1>0, <1>2, <2>1, StepsOn, StepsOne DEF Early
  <2>3. RulingsOf(c) = {} /\ \A r \in intake : r[1] # c
    BY <1>0 DEF AskedOnce
  <2>4. \A d : RulingsOf(d)' = RulingsOf(d)
    BY <1>0 DEF RulingsOf
  <2>5. new[1] = c
    OBVIOUS
  <2> HIDE DEF new
  <2>6. \A r, s \in intake' : r[1] = s[1] => r = s
    BY <1>2, <2>3, <2>5 DEF AskedOnce, new
  <2>7. \A r \in intake', d \in Calls : r[1] = d => ~Early(d)' /\ RulingsOf(d)' = {}
    BY <1>2, <2>2, <2>3, <2>4, <2>5 DEF AskedOnce, NoReturn, new
  <2>8. \A d \in Calls : Early(d)' => RulingsOf(d)' = {}
    BY <2>2, <2>4 DEF AskedOnce, NoReturn
  <2> QED BY <1>0, <2>2, <2>6, <2>7, <2>8 DEF AskedOnce
<1> QED BY <1>1, <1>2 DEF Submit

\* The ruling: it takes the one intent of its call.
LEMMA RuleAsks ==
  ASSUME AskedOnce, NEW c \in Calls, NEW verdict, RuleOn(c, verdict) PROVE AskedOnce'
<1>1. PICK request \in intake : request[1] = c /\ intake' = intake \ {request}
  BY DEF RuleOn
<1>2. PICK new : new.call = c /\ rulings' = rulings \cup {new}
  BY DEF RuleOn
<1>3. HasPc' /\ NoReturn
  BY RepliedOn DEF RuleOn, AskedOnce
<1>4. ~Early(c) /\ RulingsOf(c) = {} /\ \A r \in intake' : r[1] # c
  BY <1>1 DEF AskedOnce
<1>5. \A d \in Calls \ {c} : RulingsOf(d)' = RulingsOf(d)
  BY <1>2 DEF RulingsOf
<1>6. \A p, q \in rulings' : p.call = q.call => p = q
  BY <1>2, <1>4 DEF AskedOnce, RulingsOf
<1>7. \A r \in intake', d \in Calls : r[1] = d => ~Early(d)' /\ RulingsOf(d)' = {}
  BY <1>1, <1>3, <1>4, <1>5 DEF AskedOnce, NoReturn
<1>8. \A d \in Calls : Early(d)' => RulingsOf(d)' = {}
  BY <1>3, <1>4, <1>5 DEF AskedOnce, NoReturn
<1> QED BY <1>1, <1>3, <1>6, <1>7, <1>8 DEF AskedOnce

LEMMA BridgeAsks ==
  ASSUME AskedOnce, NEW c \in Calls, RefuseIntent(c) \/ AnswerPoll(c) PROVE AskedOnce'
<1>1. HasPc' /\ NoReturn
  BY RepliedOn DEF RefuseIntent, AnswerPoll, AskedOnce
<1>2. intake' \subseteq intake /\ rulings' = rulings
  BY DEF RefuseIntent, AnswerPoll, AdapterOnly, evidence
<1> QED BY <1>1, <1>2, NothingAsked

\* The app and the human touch no intent; when the app exits, its threads and
\* what they held are gone.
LEMMA AppAsks ==
  ASSUME AskedOnce,
         \/ Launch \/ WriteToken \/ Publish \/ (\E t \in Tenants : SetTenant(t))
         \/ ProxyStart \/ ProxyReadToken \/ Note
         \/ (\E id \in BookIds : Approve(id) \/ Reject(id)) \/ UNCHANGED vars
  PROVE  AskedOnce'
<1>1. call' = call /\ intake' = intake /\ rulings' = rulings
  BY DEF Launch, WriteToken, Publish, SetTenant, ProxyStart, ProxyReadToken, Note, Approve, Reject,
         Answer, evidence, vars
<1>2. HasPc' /\ NoReturn
  BY <1>1 DEF AskedOnce, HasPc, NoReturn, Early
<1> QED BY <1>1, <1>2, NothingAsked

LEMMA ExitAsks == ASSUME AskedOnce, Exit PROVE AskedOnce'
<1>1. PICK lost : call' = [c \in Calls |-> IF c \in lost THEN [call[c] EXCEPT !.reply = "error"]
                                            ELSE call[c]]
  BY DEF Exit
<1>2. \A c \in Calls : "pc" \in DOMAIN call'[c] /\ call'[c].pc = call[c].pc
  BY <1>1 DEF AskedOnce, HasPc
<1>3. HasPc' /\ NoReturn
  BY <1>1, <1>2 DEF HasPc, NoReturn, Early
<1>4. intake' \subseteq intake /\ rulings' = rulings
  BY DEF Exit, evidence
<1> QED BY <1>3, <1>4, NothingAsked

THEOREM AskedOnceStep == AskedOnce /\ [Next]_vars => AskedOnce'
<1> SUFFICES ASSUME AskedOnce, [Next]_vars PROVE AskedOnce'
  OBVIOUS
<1>1. ASSUME NEW c \in Calls, AdapterStep(c) PROVE AskedOnce'
  BY <1>1, AdapterAsks, SubmitAsks DEF AdapterStep
<1>2. ASSUME NEW c \in Calls, BridgeStep(c) PROVE AskedOnce'
  BY <1>2, BridgeAsks, RuleAsks DEF BridgeStep
<1>3. ASSUME NEW c \in Calls,
             StandAside(c) \/ ReadEndpoint(c) \/ Relay(c) \/ DeadlinePasses(c) \/ TimeOut(c)
      PROVE  AskedOnce'
  BY <1>3, AdapterAsks
<1> QED BY <1>1, <1>2, <1>3, AppAsks, ExitAsks DEF Next

\* No call is ruled on twice, and so none is charged twice: not when its reply is
\* lost or late, not across launches of the app.
THEOREM NoCallRuledTwice == Spec => []RuledOnce
<1>1. AskedOnce => RuledOnce
  <2> SUFFICES ASSUME AskedOnce, NEW c \in Calls PROVE Cardinality(RulingsOf(c)) <= 1
    BY DEF RuledOnce
  <2>1. CASE RulingsOf(c) = {}
    BY <2>1, FS_EmptySet
  <2>2. CASE RulingsOf(c) # {}
    <3>1. PICK p : p \in RulingsOf(c)
      BY <2>2
    <3>2. RulingsOf(c) = {p}
      BY <3>1 DEF AskedOnce, RulingsOf
    <3>3. Cardinality({p}) = 1
      BY FS_Singleton
    <3>4. Cardinality(RulingsOf(c)) = 1
      BY <3>2, <3>3
    <3> QED BY <3>4
  <2> QED BY <2>1, <2>2
<1> QED BY InitAsks, AskedOnceStep, <1>1, PTL DEF Spec
-----------------------------------------------------------------------------
(* What an outcome rests on.                                               *)

\* What a file or a process may say of where the gate is: the address of the
\* session that runs is not known before its token is in the file.
Known(addr) ==
  addr \in Nat /\ addr <= session /\ (addr = session => tokenFile = session /\ phase # "bound")

\* What a call goes out with: an address that is current has the current token.
Paired(addr, token) ==
  addr \in Nat /\ addr <= session /\ (addr = session => token = session /\ phase # "bound")

GateInv ==
  /\ session \in Nat
  /\ phase = "serving" => tokenFile = session
  /\ endpointFile \in Sessions => Known(endpointFile)
  /\ DOMAIN proxy = {"pc", "addr", "token"}
  /\ proxy.pc = "found" => Known(proxy.addr)
  /\ proxy.pc = "ready" => Paired(proxy.addr, proxy.token)
  /\ active \in Tenants \cup {None} /\ saved \in Tenants \cup {None}

\* An answer that stands in a book was given by a human.
BookInv ==
  /\ DOMAIN books = Tenants
  /\ \A t \in Tenants : DOMAIN books[t].answer = BookIds
  /\ \A t \in Tenants, id \in BookIds :
       books[t].answer[id] # None => [tenant |-> t, id |-> id, answer |-> books[t].answer[id]] \in said

Fields == {"pc", "addr", "token", "wait", "late", "id", "reply", "outcome"}
HasFields == DOMAIN call = Calls /\ \A c \in Calls : DOMAIN call[c] = Fields

\* Of a call in the state r.
Asking(r)    == r.pc \in {"submitting", "polling"}
Held(r)      == r.pc \in {"waiting", "sleeping", "polling"}
Connected(r) == phase = "serving" /\ r.addr = session

\* A call finds the gate, goes out with what it found, and listens only to a
\* thread of the session it reached.
Placed(r) ==
  /\ r.pc = "found" => Known(r.addr)
  /\ r.pc \in {"ready", "submitting"} \/ Held(r) => Paired(r.addr, r.token)
  /\ ~Asking(r) /\ r.pc # "done" => r.reply = None
  /\ Asking(r) /\ r.reply = None => Connected(r)
  /\ r.pc # "done" => r.outcome = None

\* The call goes by the ruling g: as long as the session it asked in runs and
\* the scope was not changed under it, polls read the tenant of g.
GoesBy(c, r, g) ==
  /\ g.id = r.id /\ g.tenant # None
  /\ Connected(r) /\ c \notin crossed => active = g.tenant

Heard(c, r) ==
  /\ r.pc = "submitting" /\ r.reply \in {"allow", "require-approval"}
       => \E g \in RulingsOf(c) : g.verdict = r.reply /\ GoesBy(c, r, g)
  /\ Held(r) => \E g \in RulingsOf(c) : GoesBy(c, r, g)
  /\ r.pc = "polling" /\ r.reply \in HumanAnswers /\ c \notin crossed => SaidOf(c, r.reply) # {}

Earned(c, r) ==
  /\ r.outcome = "allowed" => \E g \in RulingsOf(c) : g.verdict = "allow"
  /\ r.outcome \in HumanAnswers /\ c \notin crossed => SaidOf(c, r.outcome) # {}

CallInv(c, r) == DOMAIN r = Fields /\ Placed(r) /\ Heard(c, r) /\ Earned(c, r)

EarnedInv ==
  /\ GateInv
  /\ BookInv
  /\ DOMAIN call = Calls /\ \A c \in Calls : CallInv(c, call[c])

LEMMA InitEarns == Init => EarnedInv
<1> SUFFICES ASSUME Init PROVE EarnedInv
  OBVIOUS
<1>1. GateInv
  BY NoneIsNothingElse DEF Init, GateInv
<1>2. BookInv
  BY DEF Init, BookInv, EmptyBook
<1>3. ASSUME NEW c \in Calls PROVE CallInv(c, call[c])
  <2>1. call[c] = Unasked
    BY DEF Init
  <2>2. DOMAIN Unasked = Fields /\ Unasked.pc = "idle" /\ Unasked.reply = None /\ Unasked.outcome = None
    BY DEF Unasked, Fields
  <2>3. None \notin HumanAnswers /\ None # "allowed"
    BY NoneIsNothingElse DEF Replies, Outcomes
  <2> HIDE DEF Unasked
  <2> QED BY <2>1, <2>2, <2>3 DEF CallInv, Placed, Heard, Earned, Asking, Held
<1> QED BY <1>1, <1>2, <1>3 DEF EarnedInv, Init
-----------------------------------------------------------------------------
\* The gate stays where it is, and histories grow.
Still ==
  /\ UNCHANGED << phase, session, tokenFile, active, crossed >>
  /\ rulings \subseteq rulings' /\ said \subseteq said'

LEMMA HistoryGrows ==
  ASSUME rulings \subseteq rulings', said \subseteq said', NEW c
  PROVE  /\ RulingsOf(c) \subseteq RulingsOf(c)'
         /\ \A a : SaidOf(c, a) \subseteq SaidOf(c, a)'
BY DEF RulingsOf, SaidOf

LEMMA CallStands ==
  ASSUME Still, NEW c \in Calls, NEW r, CallInv(c, r) PROVE CallInv(c, r)'
<1>1. Placed(r)'
  BY DEF CallInv, Placed, Asking, Held, Connected, Known, Paired, Still
<1>2. /\ RulingsOf(c) \subseteq RulingsOf(c)'
      /\ \A a : SaidOf(c, a) \subseteq SaidOf(c, a)'
  BY HistoryGrows DEF Still
<1>3. \A g : GoesBy(c, r, g) => GoesBy(c, r, g)'
  BY DEF GoesBy, Connected, Still
<1>4. Heard(c, r)'
  BY <1>2, <1>3 DEF CallInv, Heard, Held, Still
<1>5. Earned(c, r)'
  BY <1>2 DEF CallInv, Earned, Still
<1> QED BY <1>1, <1>4, <1>5 DEF CallInv

\* One call steps to r.
LEMMA StepEarns ==
  ASSUME EarnedInv, GateInv', BookInv', Still, NEW c \in Calls, NEW r, Steps(c, r),
         CallInv(c, r)'
  PROVE  EarnedInv'
<1>1. DOMAIN call' = Calls /\ call'[c] = r /\ \A d \in Calls \ {c} : call'[d] = call[d]
  BY DEF EarnedInv, Steps
<1>2. ASSUME NEW d \in Calls PROVE CallInv(d, call[d])'
  <2>1. CASE d = c
    BY <1>1, <2>1
  <2>2. CASE d # c
    <3>1. PICK s : s = call[d]
      OBVIOUS
    <3>2. CallInv(d, s)
      BY <3>1 DEF EarnedInv
    <3>3. CallInv(d, s)'
      BY <3>2, CallStands
    <3>4. call'[d] = s
      BY <1>1, <2>2, <3>1
    <3> QED BY <3>3, <3>4
  <2> QED BY <2>1, <2>2
<1> QED BY <1>1, <1>2 DEF EarnedInv

LEMMA NoStepEarns ==
  ASSUME EarnedInv, GateInv', BookInv', Still, UNCHANGED call
  PROVE  EarnedInv'
<1>1. ASSUME NEW d \in Calls PROVE CallInv(d, call[d])'
  <2>1. PICK s : s = call[d]
    OBVIOUS
  <2>2. CallInv(d, s)
    BY <2>1 DEF EarnedInv
  <2>3. CallInv(d, s)'
    BY <2>2, CallStands
  <2> QED BY <2>1, <2>3
<1> QED BY <1>1 DEF EarnedInv
-----------------------------------------------------------------------------
\* What the adapter leaves alone.
LEMMA AdapterStill ==
  ASSUME EarnedInv, UNCHANGED << app, evidence, proxy, crossed >>
  PROVE  Still /\ GateInv' /\ BookInv'
<1>1. Still
  BY DEF Still, app, evidence
<1>2. GateInv'
  BY DEF EarnedInv, GateInv, Known, Paired, app
<1>3. BookInv'
  BY DEF EarnedInv, BookInv, evidence
<1> QED BY <1>1, <1>2, <1>3

\* A call that ends needs what its outcome says.
LEMMA EndEarns ==
  ASSUME EarnedInv, UNCHANGED << app, evidence, proxy, crossed >>, NEW c \in Calls,
         NEW outcome, Ends(c, outcome),
         outcome = "allowed" => \E g \in RulingsOf(c) : g.verdict = "allow",
         outcome \in HumanAnswers /\ c \notin crossed => SaidOf(c, outcome) # {}
  PROVE  EarnedInv'
<1> DEFINE r == Finished(outcome)
<1>1. DOMAIN r = Fields /\ r.pc = "done" /\ r.outcome = outcome
  BY DEF Finished, Unasked, Fields
<1>2. Steps(c, r)
  BY DEF Ends
<1> HIDE DEF r
<1>3. CallInv(c, r)
  BY <1>1 DEF CallInv, Placed, Heard, Earned, Asking, Held
<1>4. Still /\ GateInv' /\ BookInv'
  BY AdapterStill
<1> QED BY <1>2, <1>3, <1>4, CallStands, StepEarns

\* A call that goes on.
LEMMA GoesOn ==
  ASSUME EarnedInv, UNCHANGED << app, evidence, proxy, crossed >>, NEW c \in Calls, NEW r,
         Steps(c, r), CallInv(c, r)
  PROVE  EarnedInv'
<1>1. Still /\ GateInv' /\ BookInv'
  BY AdapterStill
<1> QED BY <1>1, CallStands, StepEarns

LEMMA StandAsideEarns ==
  ASSUME EarnedInv, NEW c \in Calls, StandAside(c) PROVE EarnedInv'
<1>1. UNCHANGED << app, evidence, proxy, crossed >> /\ Ends(c, "unjudged")
  BY DEF StandAside, AdapterOnly
<1> QED BY <1>1, EndEarns DEF HumanAnswers

LEMMA ReadEndpointEarns ==
  ASSUME EarnedInv, NEW c \in Calls, ReadEndpoint(c) PROVE EarnedInv'
<1>0. UNCHANGED << app, evidence, proxy, crossed >>
  BY DEF ReadEndpoint, AdapterOnly
<1>1. ASSUME NEW o \in {"ungoverned", "refused"}, Ends(c, o) PROVE EarnedInv'
  BY <1>0, <1>1, EndEarns DEF HumanAnswers
<1>2. CASE endpointFile \in Sessions /\ Steps(c, [call[c] EXCEPT !.pc = "found", !.addr = endpointFile])
  <2>1. PICK r : r = [call[c] EXCEPT !.pc = "found", !.addr = endpointFile]
    OBVIOUS
  <2>2. CallInv(c, call[c]) /\ Known(endpointFile) /\ call[c].pc = "idle"
    BY <1>2 DEF EarnedInv, GateInv, ReadEndpoint, Wanted
  <2>3. /\ DOMAIN r = Fields /\ r.pc = "found" /\ r.addr = endpointFile
        /\ r.reply = call[c].reply /\ r.outcome = call[c].outcome
    BY <2>1, <2>2 DEF CallInv, Fields
  <2>4. CallInv(c, r)
    BY <2>2, <2>3 DEF CallInv, Placed, Heard, Earned, Asking, Held
  <2> QED BY <1>0, <1>2, <2>1, <2>4, GoesOn
<1> QED BY <1>1, <1>2 DEF ReadEndpoint

LEMMA ReadTokenEarns ==
  ASSUME EarnedInv, NEW c \in Calls, ReadToken(c) PROVE EarnedInv'
<1>0. UNCHANGED << app, evidence, proxy, crossed >>
  BY DEF ReadToken, AdapterOnly
<1>1. CASE Ends(c, "refused")
  BY <1>0, <1>1, EndEarns DEF HumanAnswers
<1>2. CASE Steps(c, [call[c] EXCEPT !.pc = "ready", !.token = tokenFile])
  <2>1. PICK r : r = [call[c] EXCEPT !.pc = "ready", !.token = tokenFile]
    OBVIOUS
  <2>2. CallInv(c, call[c]) /\ call[c].pc = "found"
    BY DEF EarnedInv, ReadToken
  <2>3. /\ DOMAIN r = Fields /\ r.pc = "ready" /\ r.token = tokenFile /\ r.addr = call[c].addr
        /\ r.reply = call[c].reply /\ r.outcome = call[c].outcome
    BY <2>1, <2>2 DEF CallInv, Fields
  <2>4. Paired(r.addr, r.token)
    BY <2>2, <2>3 DEF CallInv, Placed, Known, Paired
  <2>5. CallInv(c, r)
    BY <2>2, <2>3, <2>4 DEF CallInv, Placed, Heard, Earned, Asking, Held
  <2> QED BY <1>0, <1>2, <2>1, <2>5, GoesOn
<1> QED BY <1>1, <1>2 DEF ReadToken

LEMMA RelayEarns ==
  ASSUME EarnedInv, NEW c \in Calls, Relay(c) PROVE EarnedInv'
<1>0. UNCHANGED << app, evidence, proxy, crossed >>
  BY DEF Relay, AdapterOnly
<1>1. ASSUME NEW o \in {"ungoverned", "refused"}, Ends(c, o) PROVE EarnedInv'
  BY <1>0, <1>1, EndEarns DEF HumanAnswers
<1>2. CASE /\ proxy.pc = "ready"
           /\ Steps(c, [call[c] EXCEPT !.pc = "ready", !.addr = FoundGate.addr,
                                       !.token = FoundGate.token])
  <2>1. PICK r : r = [call[c] EXCEPT !.pc = "ready", !.addr = FoundGate.addr,
                                     !.token = FoundGate.token]
    OBVIOUS
  <2>2. CallInv(c, call[c]) /\ call[c].pc = "idle" /\ Paired(proxy.addr, proxy.token)
    BY <1>2 DEF EarnedInv, GateInv, Relay, Wanted
  <2>3. FoundGate.addr = proxy.addr /\ FoundGate.token = proxy.token
    BY DEF FoundGate
  <2>4. /\ DOMAIN r = Fields /\ r.pc = "ready" /\ r.token = proxy.token /\ r.addr = proxy.addr
        /\ r.reply = call[c].reply /\ r.outcome = call[c].outcome
    BY <2>1, <2>2, <2>3 DEF CallInv, Fields
  <2>5. CallInv(c, r)
    BY <2>2, <2>4 DEF CallInv, Placed, Heard, Earned, Asking, Held
  <2> QED BY <1>0, <1>2, <2>1, <2>5, GoesOn
<1> QED BY <1>1, <1>2 DEF Relay

LEMMA SubmitEarns ==
  ASSUME EarnedInv, NEW c \in Calls, Submit(c) PROVE EarnedInv'
<1>0. UNCHANGED << app, evidence, proxy, crossed >>
  BY DEF Submit
<1>1. CASE Ends(c, "refused")
  BY <1>0, <1>1, EndEarns DEF HumanAnswers
<1>2. CASE Reaches(c) /\ Steps(c, [call[c] EXCEPT !.pc = "submitting"])
  <2>1. PICK r : r = [call[c] EXCEPT !.pc = "submitting"]
    OBVIOUS
  <2>2. CallInv(c, call[c]) /\ call[c].pc = "ready"
    BY DEF EarnedInv, Submit
  <2>3. /\ DOMAIN r = Fields /\ r.pc = "submitting" /\ r.addr = call[c].addr
        /\ r.token = call[c].token /\ r.reply = call[c].reply /\ r.outcome = call[c].outcome
    BY <2>1, <2>2 DEF CallInv, Fields
  <2>4. Connected(r)
    BY <1>2, <2>3 DEF Reaches, Connected
  <2>5. None \notin {"allow", "require-approval"}
    BY NoneIsNothingElse DEF Replies, Rulings
  <2>6. CallInv(c, r)
    BY <2>2, <2>3, <2>4, <2>5 DEF CallInv, Placed, Heard, Earned, Asking, Held
  <2> QED BY <1>0, <1>2, <2>1, <2>6, GoesOn
<1> QED BY <1>1, <1>2 DEF Submit

\* What the call goes by is not changed by a step that keeps its address and id.
LEMMA GoesByAlso ==
  ASSUME NEW c, NEW r, NEW s, r.id = s.id, r.addr = s.addr, NEW g, GoesBy(c, s, g)
  PROVE  GoesBy(c, r, g)
BY DEF GoesBy, Connected

LEMMA HearVerdictEarns ==
  ASSUME EarnedInv, NEW c \in Calls, HearVerdict(c) PROVE EarnedInv'
<1>0. UNCHANGED << app, evidence, proxy, crossed >>
  BY DEF HearVerdict, AdapterOnly
<1>1. CallInv(c, call[c]) /\ call[c].pc = "submitting"
  BY DEF EarnedInv, HearVerdict
<1>2. CASE call[c].reply = "allow" /\ Ends(c, "allowed")
  <2>1. \E g \in RulingsOf(c) : g.verdict = "allow"
    BY <1>1, <1>2 DEF CallInv, Heard
  <2> QED BY <1>0, <1>2, <2>1, EndEarns DEF HumanAnswers
<1>3. CASE Ends(c, "refused")
  BY <1>0, <1>3, EndEarns DEF HumanAnswers
<1>4. CASE call[c].reply = "require-approval" /\ Escalated(c)
  <2>1. PICK w \in Waits : Steps(c, [call[c] EXCEPT !.pc = "waiting", !.reply = None, !.wait = w,
                                                    !.late = (w = "zero")])
    BY <1>4 DEF Escalated
  <2>2. PICK r : r = [call[c] EXCEPT !.pc = "waiting", !.reply = None, !.wait = w,
                                     !.late = (w = "zero")]
    OBVIOUS
  <2>3. /\ DOMAIN r = Fields /\ r.pc = "waiting" /\ r.addr = call[c].addr /\ r.id = call[c].id
        /\ r.token = call[c].token /\ r.reply = None /\ r.outcome = call[c].outcome
    BY <1>1, <2>2 DEF CallInv, Fields
  <2>4. \E g \in RulingsOf(c) : GoesBy(c, r, g)
    BY <1>1, <1>4, <2>3, GoesByAlso DEF CallInv, Heard
  <2>5. CallInv(c, r)
    BY <1>1, <2>3, <2>4 DEF CallInv, Placed, Heard, Earned, Asking, Held
  <2> QED BY <1>0, <2>1, <2>2, <2>5, GoesOn
<1> QED BY <1>2, <1>3, <1>4 DEF HearVerdict

\* A held call goes on waiting, sleeping or polling.
LEMMA HeldEarns ==
  ASSUME EarnedInv, UNCHANGED << app, evidence, proxy, crossed >>, NEW c \in Calls,
         Held(call[c]), NEW r, Steps(c, r), DOMAIN r = Fields, Held(r), r.addr = call[c].addr,
         r.id = call[c].id, r.token = call[c].token, r.outcome = call[c].outcome,
         r.reply = None \/ (r.pc = "polling" /\ call[c].pc = "polling" /\ r.reply = call[c].reply),
         r.pc = "polling" /\ r.reply = None => Connected(r)
  PROVE  EarnedInv'
<1>1. CallInv(c, call[c])
  BY DEF EarnedInv
<1>2. \E g \in RulingsOf(c) : GoesBy(c, r, g)
  BY <1>1, GoesByAlso DEF CallInv, Heard
<1>3. None \notin HumanAnswers
  BY NoneIsNothingElse DEF Replies
<1>4. Placed(r)
  BY <1>1 DEF CallInv, Placed, Asking, Held
<1>5. Heard(c, r)
  BY <1>1, <1>2, <1>3 DEF CallInv, Heard, Held
<1>6. CallInv(c, r)
  BY <1>1, <1>4, <1>5 DEF CallInv, Earned
<1> QED BY <1>6, GoesOn

LEMMA CheckEarns ==
  ASSUME EarnedInv, NEW c \in Calls, Check(c) PROVE EarnedInv'
<1>0. UNCHANGED << app, evidence, proxy, crossed >> /\ CallInv(c, call[c])
  BY DEF Check, AdapterOnly, EarnedInv
<1>1. CASE Ends(c, "unanswered")
  BY <1>0, <1>1, EndEarns DEF HumanAnswers
<1>2. CASE Steps(c, [call[c] EXCEPT !.pc = "sleeping"])
  <2>1. PICK r : r = [call[c] EXCEPT !.pc = "sleeping"]
    OBVIOUS
  <2>2. /\ DOMAIN r = Fields /\ r.pc = "sleeping" /\ r.addr = call[c].addr /\ r.id = call[c].id
        /\ r.token = call[c].token /\ r.reply = call[c].reply /\ r.outcome = call[c].outcome
    BY <1>0, <2>1 DEF CallInv, Fields
  <2>3. Held(call[c]) /\ Held(r) /\ r.reply = None
    BY <1>0, <2>2 DEF Check, Held, CallInv, Placed, Asking
  <2> QED BY <1>0, <1>2, <2>1, <2>2, <2>3, HeldEarns
<1> QED BY <1>1, <1>2 DEF Check

LEMMA PollEarns ==
  ASSUME EarnedInv, NEW c \in Calls, Poll(c) PROVE EarnedInv'
<1>0. UNCHANGED << app, evidence, proxy, crossed >> /\ CallInv(c, call[c])
  BY DEF Poll, AdapterOnly, EarnedInv
<1>1. PICK pc : pc = IF Reaches(c) THEN "polling" ELSE "waiting"
  OBVIOUS
<1>2. PICK r : r = [call[c] EXCEPT !.pc = pc]
  OBVIOUS
<1>3. Steps(c, r)
  BY <1>1, <1>2 DEF Poll
<1>4. /\ DOMAIN r = Fields /\ r.pc = pc /\ r.addr = call[c].addr /\ r.id = call[c].id
      /\ r.token = call[c].token /\ r.reply = call[c].reply /\ r.outcome = call[c].outcome
  BY <1>0, <1>2 DEF CallInv, Fields
<1>5. Held(call[c]) /\ Held(r) /\ r.reply = None
  BY <1>0, <1>1, <1>4 DEF Poll, Held, CallInv, Placed, Asking
<1>6. r.pc = "polling" => Connected(r)
  BY <1>1, <1>4 DEF Reaches, Connected
<1> QED BY <1>0, <1>3, <1>4, <1>5, <1>6, HeldEarns

LEMMA HearStatusEarns ==
  ASSUME EarnedInv, NEW c \in Calls, HearStatus(c) PROVE EarnedInv'
<1>0. UNCHANGED << app, evidence, proxy, crossed >> /\ CallInv(c, call[c]) /\ call[c].pc = "polling"
  BY DEF HearStatus, AdapterOnly, EarnedInv
<1>1. ASSUME NEW a \in HumanAnswers, call[c].reply = a, Ends(c, a) PROVE EarnedInv'
  <2>1. c \notin crossed => SaidOf(c, a) # {}
    BY <1>0, <1>1 DEF CallInv, Heard
  <2> QED BY <1>0, <1>1, <2>1, EndEarns DEF HumanAnswers
<1>2. CASE Steps(c, [call[c] EXCEPT !.pc = "waiting", !.reply = None])
  <2>1. PICK r : r = [call[c] EXCEPT !.pc = "waiting", !.reply = None]
    OBVIOUS
  <2>2. /\ DOMAIN r = Fields /\ r.pc = "waiting" /\ r.addr = call[c].addr /\ r.id = call[c].id
        /\ r.token = call[c].token /\ r.reply = None /\ r.outcome = call[c].outcome
    BY <1>0, <2>1 DEF CallInv, Fields
  <2>3. Held(call[c]) /\ Held(r)
    BY <1>0, <2>2 DEF Held
  <2> QED BY <1>0, <1>2, <2>1, <2>2, <2>3, HeldEarns
<1> QED BY <1>1, <1>2 DEF HearStatus, ApprovingStatus, HumanAnswers

LEMMA DeadlineEarns ==
  ASSUME EarnedInv, NEW c \in Calls, DeadlinePasses(c) PROVE EarnedInv'
<1>0. UNCHANGED << app, evidence, proxy, crossed >> /\ CallInv(c, call[c])
  BY DEF DeadlinePasses, AdapterOnly, EarnedInv
<1>1. PICK r : r = [call[c] EXCEPT !.late = TRUE]
  OBVIOUS
<1>2. /\ DOMAIN r = Fields /\ r.pc = call[c].pc /\ r.addr = call[c].addr /\ r.id = call[c].id
      /\ r.token = call[c].token /\ r.reply = call[c].reply /\ r.outcome = call[c].outcome
  BY <1>0, <1>1 DEF CallInv, Fields
<1>3. Held(call[c]) /\ Held(r)
  BY <1>2 DEF DeadlinePasses, Held
<1>4. r.reply = None \/ (r.pc = "polling" /\ call[c].pc = "polling" /\ r.reply = call[c].reply)
  BY <1>0, <1>2, <1>3 DEF CallInv, Placed, Asking, Held
<1>5. r.pc = "polling" /\ r.reply = None => Connected(r)
  BY <1>0, <1>2 DEF CallInv, Placed, Asking, Connected
<1>6. Steps(c, r)
  BY <1>1 DEF DeadlinePasses
<1> QED BY <1>0, <1>2, <1>3, <1>4, <1>5, <1>6, HeldEarns

LEMMA TimeOutEarns ==
  ASSUME EarnedInv, NEW c \in Calls, TimeOut(c) PROVE EarnedInv'
<1>0. UNCHANGED << app, evidence, proxy, crossed >> /\ CallInv(c, call[c])
  BY DEF TimeOut, EarnedInv
<1>1. CASE Ends(c, "refused")
  BY <1>0, <1>1, EndEarns DEF HumanAnswers
<1>2. CASE call[c].pc = "polling" /\ Steps(c, [call[c] EXCEPT !.pc = "waiting"])
  <2>1. PICK r : r = [call[c] EXCEPT !.pc = "waiting"]
    OBVIOUS
  <2>2. /\ DOMAIN r = Fields /\ r.pc = "waiting" /\ r.addr = call[c].addr /\ r.id = call[c].id
        /\ r.token = call[c].token /\ r.reply = call[c].reply /\ r.outcome = call[c].outcome
    BY <1>0, <2>1 DEF CallInv, Fields
  <2>3. Held(call[c]) /\ Held(r) /\ r.reply = None
    BY <1>2, <2>2 DEF TimeOut, Held
  <2> QED BY <1>0, <1>2, <2>1, <2>2, <2>3, HeldEarns
<1> QED BY <1>1, <1>2 DEF TimeOut, TimedOut
-----------------------------------------------------------------------------
(* The bridge and the human.                                               *)

\* A reply goes to a call that is connected; others do not hear it.
LEMMA ReplyEarns ==
  ASSUME EarnedInv, GateInv', BookInv', Still, NEW c \in Calls, NEW pc \in {"submitting", "polling"},
         NEW reply, NEW id, Replied(c, pc, reply, id),
         call[c].pc = pc /\ call[c].reply = None =>
           \A r : /\ r.pc = pc /\ r.reply = reply /\ r.id = id /\ r.addr = call[c].addr
                  /\ CallInv(c, call[c]) /\ Connected(r)
                  => Heard(c, r)'
  PROVE  EarnedInv'
<1>1. CASE UNCHANGED call
  BY <1>1, NoStepEarns
<1>2. CASE /\ call[c].pc = pc /\ call[c].reply = None
           /\ Steps(c, [call[c] EXCEPT !.reply = reply, !.id = id])
  <2>1. PICK r : r = [call[c] EXCEPT !.reply = reply, !.id = id]
    OBVIOUS
  <2>2. CallInv(c, call[c])
    BY DEF EarnedInv
  <2>3. /\ DOMAIN r = Fields /\ r.pc = pc /\ r.reply = reply /\ r.id = id /\ r.addr = call[c].addr
        /\ r.token = call[c].token /\ r.outcome = call[c].outcome
    BY <1>2, <2>1, <2>2 DEF CallInv, Fields
  <2>4. Connected(r)
    BY <1>2, <2>2, <2>3 DEF CallInv, Placed, Asking, Connected
  <2>5. Placed(r)'
    <3>1. Placed(r)
      BY <1>2, <2>2, <2>3, <2>4 DEF CallInv, Placed, Asking, Held
    <3> QED BY <3>1 DEF Placed, Known, Paired, Connected, Asking, Held, Still
  <2>6. Heard(c, r)'
    BY <1>2, <2>2, <2>3, <2>4
  <2>7. r.outcome = None
    BY <1>2, <2>2, <2>3 DEF CallInv, Placed
  <2>8. Earned(c, r)'
    BY <2>7, NoneIsNothingElse DEF Earned, Outcomes, HumanAnswers
  <2> QED BY <1>2, <2>1, <2>3, <2>5, <2>6, <2>8, StepEarns DEF CallInv
<1> QED BY <1>1, <1>2 DEF Replied

LEMMA RefuseEarns ==
  ASSUME EarnedInv, NEW c \in Calls, RefuseIntent(c) PROVE EarnedInv'
<1>1. Still /\ GateInv' /\ BookInv'
  BY AdapterStill DEF RefuseIntent
<1>2. \A r : r.pc = "submitting" /\ r.reply = "error" => Heard(c, r)'
  BY DEF Heard, Held
<1>3. Replied(c, "submitting", "error", 0)
  BY DEF RefuseIntent
<1> QED BY <1>1, <1>2, <1>3, ReplyEarns

\* What is said of a decision is what a human answered.
LEMMA AnswersWereSaid ==
  ASSUME BookInv, NEW t \in Tenants, NEW id, StatusOf(books[t], id) \in HumanAnswers
  PROVE  [tenant |-> t, id |-> id, answer |-> StatusOf(books[t], id)] \in said
<1>1. /\ id \in BookIds /\ books[t].answer[id] # None
      /\ StatusOf(books[t], id) = books[t].answer[id]
  BY DEF StatusOf, HumanAnswers
<1> QED BY <1>1 DEF BookInv

LEMMA AnswerPollEarns ==
  ASSUME EarnedInv, NEW c \in Calls, AnswerPoll(c) PROVE EarnedInv'
<1>1. Still /\ GateInv' /\ BookInv'
  BY AdapterStill DEF AnswerPoll, AdapterOnly
<1>2. PICK reply : reply = IF Polled(c) = "unknown" THEN "error" ELSE Polled(c)
  OBVIOUS
<1>3. PICK id : id = call[c].id
  OBVIOUS
<1>4. Replied(c, "polling", reply, id)
  BY <1>2, <1>3 DEF AnswerPoll
<1>5. ASSUME call[c].pc = "polling", call[c].reply = None, NEW r, r.pc = "polling", r.reply = reply,
             r.id = id, r.addr = call[c].addr, CallInv(c, call[c]), Connected(r)
      PROVE  Heard(c, r)
  <2>1. PICK g \in RulingsOf(c) : GoesBy(c, call[c], g)
    BY <1>5 DEF CallInv, Heard, Held
  <2>2. GoesBy(c, r, g)
    BY <1>3, <1>5, <2>1, GoesByAlso
  <2>3. ASSUME reply \in HumanAnswers, c \notin crossed PROVE SaidOf(c, reply) # {}
    <3>1. active = g.tenant /\ g.id = id
      BY <1>5, <2>2, <2>3 DEF GoesBy
    <3>2. reply = Polled(c)
      BY <1>2, <2>3 DEF HumanAnswers
    <3>3. active # None /\ Polled(c) = StatusOf(books[active], call[c].id)
      BY <3>2, <2>3 DEF Polled, HumanAnswers
    <3>4. active \in Tenants
      BY <3>3 DEF EarnedInv, GateInv
    <3>5. reply = StatusOf(books[active], id)
      BY <1>3, <3>2, <3>3
    <3>6. [tenant |-> active, id |-> id, answer |-> reply] \in said
      BY <2>3, <3>4, <3>5, AnswersWereSaid DEF EarnedInv
    <3> QED BY <2>1, <3>1, <3>6 DEF SaidOf
  <2> QED BY <1>5, <2>1, <2>2, <2>3 DEF Heard
<1>6. ASSUME NEW r, Heard(c, r) PROVE Heard(c, r)'
  <2>1. /\ RulingsOf(c) \subseteq RulingsOf(c)'
        /\ \A a : SaidOf(c, a) \subseteq SaidOf(c, a)'
    BY <1>1, HistoryGrows DEF Still
  <2>2. \A g : GoesBy(c, r, g) => GoesBy(c, r, g)'
    BY <1>1 DEF GoesBy, Connected, Still
  <2> QED BY <1>1, <1>6, <2>1, <2>2 DEF Heard, Held, Still
<1> QED BY <1>1, <1>4, <1>5, <1>6, ReplyEarns

LEMMA RuleEarns ==
  ASSUME EarnedInv, NEW c \in Calls, NEW verdict \in Rulings, RuleOn(c, verdict) PROVE EarnedInv'
<1>1. Still
  BY DEF RuleOn, Still, app
<1>2. GateInv'
  BY DEF RuleOn, EarnedInv, GateInv, Known, Paired, app
<1>3. active \in Tenants /\ active # None
  BY DEF RuleOn, EarnedInv, GateInv
<1>4. BookInv'
  <2>1. books' = [books EXCEPT ![active] = WithRuling(@, verdict)] /\ said' = said
    BY DEF RuleOn
  <2>2. DOMAIN books' = Tenants /\ \A t \in Tenants : books'[t].answer = books[t].answer
    BY <1>3, <2>1 DEF EarnedInv, BookInv, WithRuling
  <2> QED BY <2>1, <2>2 DEF EarnedInv, BookInv
<1>5. PICK id : id = NextId(books[active])
  OBVIOUS
<1>6. PICK g : g = [call |-> c, tenant |-> active, id |-> id, verdict |-> verdict]
  OBVIOUS
<1>7. g \in RulingsOf(c)' /\ g.id = id /\ g.tenant = active /\ g.verdict = verdict
  BY <1>5, <1>6 DEF RuleOn, RulingsOf
<1>8. Replied(c, "submitting", verdict, id)
  BY <1>5 DEF RuleOn
<1>9. ASSUME NEW r, r.pc = "submitting", r.reply = verdict, r.id = id PROVE Heard(c, r)'
  <2>1. GoesBy(c, r, g)'
    BY <1>1, <1>3, <1>7, <1>9 DEF GoesBy, Still
  <2> QED BY <1>7, <1>9, <2>1 DEF Heard, Held
<1> QED BY <1>1, <1>2, <1>4, <1>8, <1>9, ReplyEarns

LEMMA HumanEarns ==
  ASSUME EarnedInv, Note \/ \E id \in BookIds : Approve(id) \/ Reject(id)
  PROVE  EarnedInv'
<1>1. Still
  BY DEF Note, Approve, Reject, Answer, Still, app
<1>2. GateInv'
  BY DEF Note, Approve, Reject, Answer, EarnedInv, GateInv, Known, Paired, app
<1>3. active \in Tenants
  BY DEF Note, Approve, Reject, EarnedInv, GateInv
<1>4. ASSUME Note PROVE BookInv'
  <2>1. books' = [books EXCEPT ![active] = WithNote(@)] /\ said' = said
    BY <1>4 DEF Note
  <2>2. DOMAIN books' = Tenants /\ \A t \in Tenants : books'[t].answer = books[t].answer
    BY <1>3, <2>1 DEF EarnedInv, BookInv, WithNote
  <2> QED BY <2>1, <2>2 DEF EarnedInv, BookInv
<1>5. ASSUME NEW id \in BookIds, NEW answer \in HumanAnswers, Answer(id, answer) PROVE BookInv'
  <2>1. /\ books' = [books EXCEPT ![active] = WithAnswer(@, id, answer)]
        /\ said' = said \cup {[tenant |-> active, id |-> id, answer |-> answer]}
    BY <1>5 DEF Answer
  <2>2. /\ DOMAIN books' = Tenants
        /\ \A t \in Tenants \ {active} : books'[t] = books[t]
        /\ books'[active].answer = [books[active].answer EXCEPT ![id] = answer]
    BY <1>3, <2>1 DEF EarnedInv, BookInv, WithAnswer
  <2>3. ASSUME NEW t \in Tenants, NEW i \in BookIds, books'[t].answer[i] # None
        PROVE  [tenant |-> t, id |-> i, answer |-> books'[t].answer[i]] \in said'
    <3>1. CASE t = active /\ i = id
      BY <1>3, <2>1, <2>2, <3>1 DEF EarnedInv, BookInv
    <3>2. CASE ~(t = active /\ i = id)
      <4>1. books'[t].answer[i] = books[t].answer[i]
        BY <1>3, <2>2, <3>2 DEF EarnedInv, BookInv
      <4> QED BY <2>1, <2>3, <4>1 DEF EarnedInv, BookInv
    <3> QED BY <3>1, <3>2
  <2>4. \A t \in Tenants : DOMAIN books'[t].answer = BookIds
    BY <1>3, <2>2 DEF EarnedInv, BookInv
  <2> QED BY <2>2, <2>3, <2>4 DEF BookInv
<1>6. BookInv' /\ UNCHANGED call
  BY <1>4, <1>5 DEF Note, Approve, Reject, Answer, HumanAnswers
<1> QED BY <1>1, <1>2, <1>6, NoStepEarns
-----------------------------------------------------------------------------
(* The app.                                                                *)

LEMMA BookStays ==
  ASSUME EarnedInv, UNCHANGED evidence
  PROVE  BookInv' /\ \A c : RulingsOf(c)' = RulingsOf(c) /\ \A a : SaidOf(c, a)' = SaidOf(c, a)
BY DEF EarnedInv, BookInv, evidence, RulingsOf, SaidOf

\* The app moves under its calls: what they know of the gate must stay so, who
\* listens must stay connected, and the ruling a call goes by must still be the
\* one a poll reads.
LEMMA CallsStay ==
  ASSUME EarnedInv, GateInv', UNCHANGED << evidence, call >>,
         crossed \subseteq crossed',
         \A addr : Known(addr) => Known(addr)',
         \A addr, token : Paired(addr, token) => Paired(addr, token)',
         \A c \in Calls : \A r : CallInv(c, r) /\ r = call[c] =>
           /\ Asking(r) /\ r.reply = None => Connected(r)'
           /\ (\A g : GoesBy(c, r, g) /\ (Held(r) \/ r.pc = "submitting") => GoesBy(c, r, g)')
  PROVE  EarnedInv'
<1>1. ASSUME NEW c \in Calls PROVE CallInv(c, call[c])'
  <2>1. PICK r : r = call[c]
    OBVIOUS
  <2>2. CallInv(c, r)
    BY <2>1 DEF EarnedInv
  <2>3. Asking(r) /\ r.reply = None => Connected(r)'
    BY <2>1, <2>2
  <2>4. \A g : GoesBy(c, r, g) /\ (Held(r) \/ r.pc = "submitting") => GoesBy(c, r, g)'
    BY <2>1, <2>2
  <2>5. Placed(r)'
    BY <2>2, <2>3 DEF CallInv, Placed, Asking, Held
  <2>6. RulingsOf(c)' = RulingsOf(c) /\ \A a : SaidOf(c, a)' = SaidOf(c, a)
    BY BookStays
  <2>7. Heard(c, r)' /\ Earned(c, r)'
    BY <2>2, <2>4, <2>6 DEF CallInv, Heard, Earned, Held
  <2>8. call'[c] = r
    BY <2>1
  <2> QED BY <2>2, <2>5, <2>7, <2>8 DEF CallInv
<1> QED BY <1>1, BookStays DEF EarnedInv

LEMMA LaunchEarns == ASSUME EarnedInv, Launch PROVE EarnedInv'
<1>1. /\ phase = "down" /\ phase' = "bound" /\ session' = session + 1 /\ session \in Nat
      /\ active' \in {saved, None} /\ saved' = saved /\ endpointFile' = endpointFile
      /\ proxy' = proxy /\ crossed' = crossed
  BY DEF Launch, EarnedInv, GateInv
<1>2. /\ \A addr : Known(addr) => Known(addr)'
      /\ \A addr, token : Paired(addr, token) => Paired(addr, token)'
  BY <1>1 DEF Known, Paired
<1>3. GateInv'
  BY <1>1, <1>2 DEF EarnedInv, GateInv
<1>4. ASSUME NEW c \in Calls, NEW r, CallInv(c, r)
      PROVE  /\ ~(Asking(r) /\ r.reply = None)
             /\ \A g : GoesBy(c, r, g) => GoesBy(c, r, g)'
  BY <1>1, <1>4 DEF CallInv, Placed, GoesBy, Connected
<1> QED BY <1>1, <1>2, <1>3, <1>4, CallsStay DEF Launch

LEMMA WriteTokenEarns == ASSUME EarnedInv, WriteToken PROVE EarnedInv'
<1>1. /\ phase = "bound" /\ phase' = "serving" /\ session' = session /\ tokenFile' = session
      /\ active' = active /\ saved' = saved /\ endpointFile' = endpointFile
      /\ proxy' = proxy /\ crossed' = crossed
  BY DEF WriteToken
<1>2. /\ \A addr : Known(addr) => Known(addr)'
      /\ \A addr, token : Paired(addr, token) => Paired(addr, token)'
  BY <1>1 DEF Known, Paired
<1>3. GateInv'
  BY <1>1, <1>2 DEF EarnedInv, GateInv
<1>4. ASSUME NEW c \in Calls, NEW r, CallInv(c, r)
      PROVE  /\ ~(Asking(r) /\ r.reply = None)
             /\ \A g : GoesBy(c, r, g) /\ (Held(r) \/ r.pc = "submitting") => GoesBy(c, r, g)'
  BY <1>1, <1>4 DEF CallInv, Placed, GoesBy, Connected, Paired
<1> QED BY <1>1, <1>2, <1>3, <1>4, CallsStay DEF WriteToken

LEMMA PublishEarns == ASSUME EarnedInv, Publish PROVE EarnedInv'
<1>1. /\ phase = "serving" /\ phase' = phase /\ session' = session /\ tokenFile' = tokenFile
      /\ active' = active /\ saved' = saved /\ endpointFile' \in {session, Truncated}
      /\ proxy' = proxy /\ crossed' = crossed
  BY DEF Publish, MayPublish
<1>2. \A addr : Known(addr) => Known(addr)'
  BY <1>1 DEF Known
<1>3. \A addr, token : Paired(addr, token) => Paired(addr, token)'
  BY <1>1 DEF Paired
<1>4. PICK file : file = endpointFile'
  OBVIOUS
<1>5. file \in Sessions => Known(file)'
  <2>1. Truncated \notin Sessions
    BY GateBounds DEF Truncated, Sessions
  <2>2. PICK s : s = session
    OBVIOUS
  <2>3. Known(s)'
    BY <1>1, <2>2 DEF EarnedInv, GateInv, Known
  <2> QED BY <1>1, <1>4, <2>1, <2>2, <2>3
<1>6. GateInv'
  BY <1>1, <1>2, <1>3, <1>4, <1>5 DEF EarnedInv, GateInv
<1>7. ASSUME NEW c \in Calls, NEW r, CallInv(c, r)
      PROVE  /\ Asking(r) /\ r.reply = None => Connected(r)'
             /\ \A g : GoesBy(c, r, g) => GoesBy(c, r, g)'
  BY <1>1, <1>7 DEF CallInv, Placed, GoesBy, Connected
<1> QED BY <1>1, <1>2, <1>3, <1>6, <1>7, CallsStay DEF Publish

LEMMA SetTenantEarns == ASSUME EarnedInv, NEW t \in Tenants, SetTenant(t) PROVE EarnedInv'
<1>1. /\ phase' = phase /\ session' = session /\ tokenFile' = tokenFile
      /\ active' = t /\ saved' = t /\ endpointFile' = endpointFile
      /\ proxy' = proxy /\ crossed \subseteq crossed'
      /\ UNCHANGED << evidence, call >>
      /\ active # None => { c \in Calls : call[c].pc \notin {"idle", "done"} } \subseteq crossed'
  BY DEF SetTenant
<1>2. /\ \A addr : Known(addr) => Known(addr)'
      /\ \A addr, token : Paired(addr, token) => Paired(addr, token)'
  BY <1>1 DEF Known, Paired
<1>3. GateInv'
  BY <1>1, <1>2 DEF EarnedInv, GateInv
<1>4. ASSUME NEW c \in Calls, NEW r, CallInv(c, r), r = call[c]
      PROVE  /\ Asking(r) /\ r.reply = None => Connected(r)'
             /\ \A g : GoesBy(c, r, g) /\ (Held(r) \/ r.pc = "submitting") => GoesBy(c, r, g)'
  BY <1>1, <1>4 DEF CallInv, Placed, GoesBy, Connected, Held
<1> QED BY <1>1, <1>2, <1>3, <1>4, CallsStay

LEMMA ProxyEarns == ASSUME EarnedInv, ProxyStart \/ ProxyReadToken PROVE EarnedInv'
<1>1. UNCHANGED << phase, session, tokenFile, endpointFile, active, saved, crossed, call, evidence >>
  BY DEF ProxyStart, ProxyReadToken, app
<1>2. Still /\ BookInv'
  BY <1>1, BookStays DEF Still, evidence
<1>3. /\ DOMAIN proxy' = {"pc", "addr", "token"}
      /\ proxy'.pc = "found" => Known(proxy'.addr)
      /\ proxy'.pc = "ready" => Paired(proxy'.addr, proxy'.token)
  <2>0. DOMAIN proxy = {"pc", "addr", "token"}
    BY DEF EarnedInv, GateInv
  <2>1. CASE proxy' = [proxy EXCEPT !.pc = "ungoverned"]
    BY <2>0, <2>1
  <2>2. CASE /\ endpointFile \in Sessions
             /\ proxy' = [proxy EXCEPT !.pc = "found", !.addr = endpointFile]
    BY <2>0, <2>2, <1>1 DEF EarnedInv, GateInv, Known
  <2>3. CASE ProxyReadToken /\ tokenFile \in Sessions
    <3>1. Known(proxy.addr)
      BY <2>3 DEF ProxyReadToken, EarnedInv, GateInv
    <3>2. proxy' = [proxy EXCEPT !.pc = "ready", !.token = tokenFile]
      BY <2>3 DEF ProxyReadToken
    <3> QED BY <2>0, <3>1, <3>2 DEF Known, Paired
  <2>4. CASE ProxyReadToken /\ tokenFile \notin Sessions
    BY <2>0, <2>4 DEF ProxyReadToken
  <2> QED BY <2>1, <2>2, <2>3, <2>4 DEF ProxyStart
<1>4. GateInv'
  BY <1>1, <1>3 DEF EarnedInv, GateInv, Known, Paired
<1> QED BY <1>1, <1>2, <1>4, NoStepEarns

\* The app goes: whoever listened hears an error, and nobody is connected.
LEMMA ExitEarns == ASSUME EarnedInv, Exit PROVE EarnedInv'
<1>1. /\ phase' = "down" /\ session' = session /\ tokenFile' = tokenFile
      /\ active' = None /\ saved' = saved /\ endpointFile' = endpointFile
      /\ proxy' = proxy /\ crossed' = crossed /\ UNCHANGED evidence
  BY DEF Exit, LeftEndpoint
<1>2. PICK lost \in SUBSET { c \in Calls : call[c].pc \in {"submitting", "polling"} } :
        /\ { c \in Calls : call[c].pc \in {"submitting", "polling"} /\ call[c].reply = None }
             \subseteq lost
        /\ call' = [c \in Calls |-> IF c \in lost THEN [call[c] EXCEPT !.reply = "error"]
                                    ELSE call[c]]
  BY DEF Exit
<1>3. /\ \A addr : Known(addr) => Known(addr)'
      /\ \A addr, token : Paired(addr, token) => Paired(addr, token)'
  BY <1>1 DEF Known, Paired
<1>4. GateInv' /\ BookInv'
  BY <1>1, <1>3, BookStays DEF EarnedInv, GateInv
<1>5. ASSUME NEW c \in Calls PROVE CallInv(c, call[c])'
  <2>1. CallInv(c, call[c])
    BY DEF EarnedInv
  <2>2. PICK r : r = IF c \in lost THEN [call[c] EXCEPT !.reply = "error"] ELSE call[c]
    OBVIOUS
  <2>3. call'[c] = r
    BY <1>2, <2>2
  <2>4. /\ DOMAIN r = Fields /\ r.pc = call[c].pc /\ r.addr = call[c].addr /\ r.id = call[c].id
        /\ r.token = call[c].token /\ r.outcome = call[c].outcome
        /\ r.reply = IF c \in lost THEN "error" ELSE call[c].reply
    BY <2>1, <2>2 DEF CallInv, Fields
  <2>5. c \in lost => Asking(r)
    BY <1>2, <2>4 DEF Asking
  <2>6. Asking(r) => r.reply # None
    BY <1>2, <2>4, NoneIsNothingElse DEF Asking, Replies
  <2>7. RulingsOf(c)' = RulingsOf(c) /\ \A a : SaidOf(c, a)' = SaidOf(c, a)
    BY <1>1, BookStays
  <2>8. Placed(r)'
    BY <1>3, <2>1, <2>4, <2>5, <2>6 DEF CallInv, Placed, Asking, Held
  <2>9. \A g : GoesBy(c, call[c], g) => GoesBy(c, r, g)'
    BY <1>1, <2>4 DEF GoesBy, Connected
  <2>10. Heard(c, r)'
    BY <1>1, <2>1, <2>4, <2>7, <2>9 DEF CallInv, Heard, Held, HumanAnswers
  <2>11. Earned(c, r)'
    BY <1>1, <2>1, <2>4, <2>7 DEF CallInv, Earned
  <2> QED BY <2>3, <2>4, <2>8, <2>10, <2>11 DEF CallInv
<1>6. DOMAIN call' = Calls
  BY <1>2
<1> QED BY <1>4, <1>5, <1>6 DEF EarnedInv

LEMMA StutterEarns == ASSUME EarnedInv, UNCHANGED vars PROVE EarnedInv'
<1>1. Still /\ GateInv' /\ BookInv'
  BY AdapterStill DEF vars
<1> QED BY <1>1, NoStepEarns DEF vars

LEMMA EarnedStep == EarnedInv /\ [Next]_vars => EarnedInv'
<1> SUFFICES ASSUME EarnedInv, [Next]_vars PROVE EarnedInv'
  OBVIOUS
<1>1. ASSUME NEW c \in Calls, AdapterStep(c) PROVE EarnedInv'
  BY <1>1, ReadTokenEarns, SubmitEarns, HearVerdictEarns, CheckEarns, PollEarns, HearStatusEarns
  DEF AdapterStep
<1>2. ASSUME NEW c \in Calls, BridgeStep(c) PROVE EarnedInv'
  BY <1>2, RefuseEarns, AnswerPollEarns, RuleEarns DEF BridgeStep
<1>3. ASSUME NEW c \in Calls,
             StandAside(c) \/ ReadEndpoint(c) \/ Relay(c) \/ DeadlinePasses(c) \/ TimeOut(c)
      PROVE  EarnedInv'
  BY <1>3, StandAsideEarns, ReadEndpointEarns, RelayEarns, DeadlineEarns, TimeOutEarns
<1>4. CASE Launch \/ WriteToken \/ Publish \/ Exit \/ ProxyStart \/ ProxyReadToken
  BY <1>4, LaunchEarns, WriteTokenEarns, PublishEarns, ExitEarns, ProxyEarns
<1>5. CASE \E t \in Tenants : SetTenant(t)
  BY <1>5, SetTenantEarns
<1>6. CASE Note \/ \E id \in BookIds : Approve(id) \/ Reject(id)
  BY <1>6, HumanEarns
<1> QED BY <1>1, <1>2, <1>3, <1>4, <1>5, <1>6, StutterEarns DEF Next

\* A call that runs as allowed was recorded as allowed, and one that runs as approved
\* (or is turned down as rejected) was answered so by a human, for any number of
\* calls, tenants and launches.
THEOREM OutcomesAreEarned == Spec => []OutcomeEarned
<1>1. EarnedInv => OutcomeEarned
  BY DEF EarnedInv, CallInv, Earned, OutcomeEarned
<1> QED BY InitEarns, EarnedStep, <1>1, PTL DEF Spec

\* No interleaving of a relaunch with discovery pairs the address of the session
\* that runs with another session's token.
THEOREM TokensAreCurrent == Spec => []TokenCurrent
<1>1. EarnedInv => TokenCurrent
  BY DEF EarnedInv, CallInv, Placed, Paired, TokenCurrent, Reaches, Authorised
<1> QED BY InitEarns, EarnedStep, <1>1, PTL DEF Spec
-----------------------------------------------------------------------------
(* No hook takes Quorum for not installed once an endpoint was published. *)

\* Whoever publishes has a session to publish, and what is published stays.
InstalledInv ==
  /\ session \in 0..MaxLaunches
  /\ phase # "down" => session # 0
  /\ installed => endpointFile \in Sessions \cup {Truncated}

LEMMA InitInstalls == Init => InstalledInv
BY GateBounds DEF Init, InstalledInv

LEMMA InstalledStep == InstalledInv /\ [Next]_vars => InstalledInv'
<1> SUFFICES ASSUME InstalledInv, [Next]_vars PROVE InstalledInv'
  OBVIOUS
<1>1. CASE Launch
  BY <1>1, GateBounds DEF Launch, InstalledInv
<1>2. CASE WriteToken
  BY <1>2 DEF WriteToken, InstalledInv
<1>3. CASE Publish
  BY <1>3, GateBounds DEF Publish, MayPublish, InstalledInv, Sessions
<1>4. CASE Exit
  BY <1>4 DEF Exit, LeftEndpoint, InstalledInv
<1>5. ASSUME NEW t \in Tenants, SetTenant(t) PROVE InstalledInv'
  BY <1>5 DEF SetTenant, InstalledInv
<1>6. CASE UNCHANGED app
  BY <1>6 DEF app, InstalledInv
<1>7. ASSUME NEW c \in Calls,
             StandAside(c) \/ ReadEndpoint(c) \/ Relay(c) \/ AdapterStep(c) \/ BridgeStep(c)
               \/ DeadlinePasses(c) \/ TimeOut(c)
      PROVE  UNCHANGED app
  BY <1>7 DEF StandAside, ReadEndpoint, Relay, AdapterStep, ReadToken, Submit, HearVerdict,
     Check, Poll, HearStatus, BridgeStep, RefuseIntent, AnswerPoll, RuleOn, DeadlinePasses, TimeOut, AdapterOnly
<1>8. ProxyStart \/ ProxyReadToken \/ Note \/ (\E id \in BookIds : Approve(id) \/ Reject(id))
        => UNCHANGED app
  BY DEF ProxyStart, ProxyReadToken, Note, Approve, Reject, Answer
<1> QED BY <1>1, <1>2, <1>3, <1>4, <1>5, <1>6, <1>7, <1>8 DEF Next, vars

\* A step that changes one call, and does not make it stand aside.
LEMMA OneStaysGoverned ==
  ASSUME HasFields, NEW d \in Calls, NEW r, Steps(d, r),
         r.outcome = call[d].outcome \/ r.outcome # "ungoverned"
  PROVE  \A c \in Calls : call'[c].outcome = "ungoverned" => call[c].outcome = "ungoverned"
BY DEF HasFields, Steps

LEMMA EndsGoverned ==
  ASSUME HasFields, NEW d \in Calls, NEW o, o # "ungoverned", Ends(d, o)
  PROVE  \A c \in Calls : call'[c].outcome = "ungoverned" => call[c].outcome = "ungoverned"
<1>1. Finished(o).outcome = o
  BY DEF Finished, Unasked
<1> QED BY <1>1, OneStaysGoverned DEF Ends

\* Nothing an adapter does once it has found a gate, and nothing the bridge does.
LEMMA AskingStaysGoverned ==
  ASSUME HasFields, NEW d \in Calls,
         AdapterStep(d) \/ BridgeStep(d) \/ DeadlinePasses(d) \/ TimeOut(d)
  PROVE  \A c \in Calls : call'[c].outcome = "ungoverned" => call[c].outcome = "ungoverned"
<1> DEFINE Governed == \A c \in Calls : call'[c].outcome = "ungoverned" => call[c].outcome = "ungoverned"
<1>1. "outcome" \in DOMAIN call[d]
  BY DEF HasFields, Fields
<1>2. ASSUME NEW pc, NEW reply, NEW id, Replied(d, pc, reply, id) PROVE Governed
  BY <1>1, <1>2, OneStaysGoverned DEF Replied
<1>3. CASE ReadToken(d)
  BY <1>1, <1>3, OneStaysGoverned, EndsGoverned DEF ReadToken
<1>4. CASE Submit(d)
  BY <1>1, <1>4, OneStaysGoverned, EndsGoverned DEF Submit
<1>5. CASE HearVerdict(d)
  BY <1>1, <1>5, OneStaysGoverned, EndsGoverned DEF HearVerdict, Escalated
<1>6. CASE Check(d)
  BY <1>1, <1>6, OneStaysGoverned, EndsGoverned DEF Check
<1>7. CASE Poll(d)
  BY <1>1, <1>7, OneStaysGoverned DEF Poll
<1>8. CASE HearStatus(d)
  BY <1>1, <1>8, OneStaysGoverned, EndsGoverned DEF HearStatus
<1>9. CASE DeadlinePasses(d)
  BY <1>1, <1>9, OneStaysGoverned DEF DeadlinePasses
<1>10. CASE TimeOut(d)
  BY <1>1, <1>10, OneStaysGoverned, EndsGoverned DEF TimeOut, TimedOut
<1>11. CASE BridgeStep(d)
  BY <1>2, <1>11 DEF BridgeStep, RefuseIntent, AnswerPoll, RuleOn
<1> QED BY <1>3, <1>4, <1>5, <1>6, <1>7, <1>8, <1>9, <1>10, <1>11 DEF AdapterStep

\* A tool call that its hook reads is let through for want of a gate only while
\* nothing was ever published, for any launches, exits and interleavings.
THEOREM NoHookStandsAside == Spec => GovernedOnceInstalled
<1> DEFINE Governed == \A c \in Hooks : installed /\ call'[c].outcome = "ungoverned"
                                        => call[c].outcome = "ungoverned"
<1>1. ASSUME EarnedInv, InstalledInv, Next PROVE Governed
  <2>1. HasFields /\ Hooks \subseteq Calls
    BY <1>1 DEF EarnedInv, CallInv, Calls, HasFields
  <2>6. ASSUME NEW d \in Calls, StandAside(d) PROVE Governed
    BY <2>1, <2>6, EndsGoverned DEF StandAside
  <2>2. ASSUME NEW d \in Calls, ReadEndpoint(d) PROVE Governed
    <3> SUFFICES ASSUME installed PROVE Governed
      OBVIOUS
    <3>1. endpointFile # None
      BY <1>1, NoneIsNothingElse DEF InstalledInv
    <3>2. "outcome" \in DOMAIN call[d]
      BY <2>1 DEF HasFields, Fields
    <3> QED BY <2>1, <2>2, <3>1, <3>2, OneStaysGoverned, EndsGoverned DEF ReadEndpoint
  <2>3. ASSUME NEW d \in Calls, Relay(d) PROVE Governed
    <3>1. \A c \in Hooks : c # d
      BY <2>3, CallsDistinct DEF Relay
    <3>2. \A c \in Hooks : call'[c] = call[c]
      BY <2>1, <2>3, <3>1 DEF Relay, Ends, Steps, HasFields
    <3> QED BY <3>2
  <2>4. CASE Exit
    BY <2>1, <2>4 DEF Exit, HasFields, Fields
  <2>5. Launch \/ WriteToken \/ Publish \/ (\E t \in Tenants : SetTenant(t)) \/ ProxyStart
          \/ ProxyReadToken \/ Note \/ (\E id \in BookIds : Approve(id) \/ Reject(id))
        => UNCHANGED call
    BY DEF Launch, WriteToken, Publish, SetTenant, ProxyStart, ProxyReadToken, Note, Approve,
       Reject, Answer
  <2> QED BY <1>1, <2>1, <2>2, <2>3, <2>4, <2>5, <2>6, AskingStaysGoverned DEF Next
<1>2. EarnedInv /\ InstalledInv /\ [Next]_vars => [Governed]_vars
  BY <1>1
<1> QED BY InitEarns, EarnedStep, InitInstalls, InstalledStep, <1>2, PTL
        DEF Spec, GovernedOnceInstalled
=============================================================================
