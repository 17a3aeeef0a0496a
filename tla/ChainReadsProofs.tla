-------------------------- MODULE ChainReadsProofs ----------------------------
(***************************************************************************)
(* What the commands that read the chain conclude, for any chain, any      *)
(* number of commands at once, and any number of failures and changes.     *)
(*                                                                         *)
(* No read failure widens what a principal may see.  A login asks two      *)
(* questions and no failure ends it: what it has heard when it is done is  *)
(* two answers, each of which is what the chain held or a failure.  A      *)
(* failure on either axis leaves Public, which is permitted in any case.   *)
(*                                                                         *)
(* What is shown was read.  The other commands but the walk of the tree    *)
(* are on a script: the questions that were answered and those still to    *)
(* ask are, in order, the questions of the command, and every answer is    *)
(* the truth of its moment or a failure the command goes on after.  The    *)
(* activity log is, line by line, the end of what was logged.              *)
(*                                                                         *)
(* A tree is shown whole.  The rows a walk has, followed by what its open  *)
(* questions promise, are the tree depth first, for as long as the chain   *)
(* is what it was; an answer opens the questions that add what its own     *)
(* question promised.                                                      *)
(***************************************************************************)
EXTENDS ChainReads, SequenceTheorems, WellFoundedInduction, TLAPS

\* An answer is the truth of its moment or a failure.
Fair(e) == e.a = e.was \/ e.a \in Failures

\* The three stages of a login.
LoginStage(t) ==
  \/ /\ t.todo = << Plain("record"), NodeAt(t.arg.tenant, 0) >> /\ t.got = <<>>
     /\ t.state = "asking"
  \/ /\ t.todo = << NodeAt(t.arg.tenant, 0) >> /\ t.state = "asking"
     /\ \E e1 : t.got = << e1 >> /\ Fair(e1)
  \/ /\ t.todo = <<>> /\ t.state = "done"
     /\ \E e1, e2 : t.got = << e1, e2 >> /\ Fair(e1) /\ Fair(e2)

LoginInv ==
  /\ DOMAIN task = Readers
  /\ \A r \in Readers : task[r].cmd = "login" => LoginStage(task[r])
-----------------------------------------------------------------------------
\* Whatever is read, an axis that counts as Public at least.
LEMMA AxisIsLevel ==
  ASSUME NEW answer
  PROVE  /\ OrPublic(ClearanceIn(answer)) \in Levels
         /\ OrPublic(CeilingIn(answer)) \in Levels
  BY DEF OrPublic, ClearanceIn, CeilingIn, Known, Levels

\* An axis whose question failed counts as Public.
LEMMA FailureIsPublic ==
  ASSUME NEW answer \in Failures
  PROVE  OrPublic(ClearanceIn(answer)) = 0 /\ OrPublic(CeilingIn(answer)) = 0
  BY DEF OrPublic, ClearanceIn, CeilingIn

\* The commercial cap of an entitlement, paid or not.
Cap(e) == IF IsActive(e) THEN TierCap(e.tier) ELSE 0
LEMMA CapIsLevel ==
  ASSUME NEW e PROVE Cap(e) \in Levels
  BY DEF Cap, TierCap, Levels

\* Public is permitted to everyone.
LEMMA PublicForAll ==
  ASSUME NEW e, NEW record, NEW node
  PROVE  PermitsLevel(ResolveEffectiveGrant(e, record, node), 0)
  <1>1. /\ Cap(e) \in Levels
        /\ OrPublic(ClearanceIn(record)) \in Levels /\ OrPublic(CeilingIn(node)) \in Levels
    BY CapIsLevel, AxisIsLevel
  <1>2. ResolveEffectiveGrant(e, record, node).ceiling \in Levels
    BY <1>1 DEF ResolveEffectiveGrant, Least, Levels, Cap
  <1> QED BY <1>2 DEF PermitsLevel, Levels

\* A grant resolved without one of the answers permits Public only.
LEMMA FailurePermitsPublicOnly ==
  ASSUME NEW e, NEW record, NEW node, record \in Failures \/ node \in Failures,
         NEW level \in Levels,
         PermitsLevel(ResolveEffectiveGrant(e, record, node), level)
  PROVE  level = 0
  <1>1. /\ Cap(e) \in Levels
        /\ OrPublic(ClearanceIn(record)) \in Levels /\ OrPublic(CeilingIn(node)) \in Levels
    BY CapIsLevel, AxisIsLevel
  <1>2. OrPublic(ClearanceIn(record)) = 0 \/ OrPublic(CeilingIn(node)) = 0
    BY FailureIsPublic
  <1>3. ResolveEffectiveGrant(e, record, node).ceiling = 0
    BY <1>1, <1>2 DEF ResolveEffectiveGrant, Least, Levels, Cap
  <1> QED BY <1>3 DEF PermitsLevel, Levels

\* The heart of the matter, without the state: answers that are true or failures
\* permit no more than the truth does.
LEMMA FairAnswersNarrow ==
  ASSUME NEW e, NEW e1, NEW e2, Fair(e1), Fair(e2), NEW level \in Levels,
         PermitsLevel(ResolveEffectiveGrant(e, e1.a, e2.a), level)
  PROVE  PermitsLevel(ResolveEffectiveGrant(e, e1.was, e2.was), level)
  <1>1. CASE e1.a \in Failures \/ e2.a \in Failures
    <2>1. level = 0
      BY <1>1, FailurePermitsPublicOnly
    <2> QED BY <2>1, PublicForAll
  <1>2. CASE e1.a \notin Failures /\ e2.a \notin Failures
    BY <1>2 DEF Fair
  <1> QED BY <1>1, <1>2
-----------------------------------------------------------------------------
LEMMA LoginInit == Init => LoginInv
  BY DEF Init, LoginInv, Idle

\* One answer and another are two answers.
LEMMA AppendToOne ==
  ASSUME NEW x, NEW y PROVE Append(<< x >>, y) = << x, y >>
  <1>1. /\ << x >> \in Seq({x, y}) /\ << x, y >> \in Seq({x, y})
        /\ Len(<< x >>) = 1 /\ Len(<< x, y >>) = 2
    OBVIOUS
  <1>2. /\ Append(<< x >>, y) \in Seq({x, y}) /\ Len(Append(<< x >>, y)) = 2
        /\ Append(<< x >>, y)[1] = x /\ Append(<< x >>, y)[2] = y
    BY <1>1, AppendProperties
  <1> DEFINE one == Append(<< x >>, y)
             two == << x, y >>
  <1>3. two[1] = x /\ two[2] = y
    OBVIOUS
  <1>4. \A i \in 1..Len(one) : one[i] = two[i]
    BY <1>2, <1>3
  <1>5. Len(one) = Len(two) /\ one \in Seq({x, y}) /\ two \in Seq({x, y})
    BY <1>1, <1>2
  <1> HIDE DEF one, two
  <1>6. one = two
    BY <1>4, <1>5, SeqEqual
  <1> QED BY <1>6 DEF one, two

\* A login that hears an answer goes on to its next stage.
LEMMA LoginHears ==
  ASSUME NEW r \in Readers, LoginInv, task[r].cmd = "login", task[r].state = "asking",
         NEW a, a = Holds(Head(task[r].todo)) \/ a \in Failures,
         Hears(r, Head(task[r].todo), a)
  PROVE  LoginStage(task'[r])
  <1> DEFINE t == task[r]
             q == Head(t.todo)
             e == [q |-> q, a |-> a, was |-> Holds(q)]
             todo == Tail(t.todo)
  <1>1. FollowUps(t.cmd, t.arg, q, a) = <<>>
    BY DEF FollowUps
  <1>2. GoesOn(t.cmd, q, a)
    BY DEF GoesOn, Tolerates
  <1>3. LoginStage(t)
    BY DEF LoginInv
  <1>4. Fair(e)
    BY DEF Fair
  <1>5. \/ t.todo = << Plain("record"), NodeAt(t.arg.tenant, 0) >> /\ t.got = <<>>
        \/ t.todo = << NodeAt(t.arg.tenant, 0) >> /\ \E e1 : t.got = << e1 >> /\ Fair(e1)
    BY <1>3 DEF LoginStage
  <1>6. DepthFirst(<<>>, todo) = todo
    <2>1. \A x, y : Tail(<< x, y >>) = << y >> /\ Tail(<< x >>) = <<>>
      OBVIOUS
    <2>2. \A y : <<>> \o << y >> = << y >> /\ <<>> \o <<>> = <<>>
      OBVIOUS
    <2>3. todo = << NodeAt(t.arg.tenant, 0) >> \/ todo = <<>>
      BY <1>5, <2>1
    <2> QED BY <2>2, <2>3 DEF DepthFirst
  <1>7. task'[r] = Progress(t, todo, Append(t.got, e), IF todo = <<>> THEN "done" ELSE "asking")
    BY <1>1, <1>2, <1>6 DEF Hears, LoginInv
  <1>8. /\ task'[r].todo = todo /\ task'[r].got = Append(t.got, e) /\ task'[r].arg = t.arg
        /\ task'[r].state = IF todo = <<>> THEN "done" ELSE "asking"
    BY <1>7 DEF Progress
  <1>9. CASE t.got = <<>> /\ t.todo = << Plain("record"), NodeAt(t.arg.tenant, 0) >>
    <2>1. \A x, y : Tail(<< x, y >>) = << y >>
      OBVIOUS
    <2>2. \A x : Append(<<>>, x) = << x >>
      OBVIOUS
    <2>3. todo = << NodeAt(t.arg.tenant, 0) >>
      BY <1>9, <2>1
    <2>4. Append(t.got, e) = << e >>
      BY <1>9, <2>2
    <2>5. todo # <<>>
      BY <2>3
    <2>6. /\ task'[r].state = "asking" /\ task'[r].got = << e >>
          /\ task'[r].todo = << NodeAt(task'[r].arg.tenant, 0) >>
      BY <2>3, <2>4, <2>5, <1>8
    <2> HIDE DEF t, q, e, todo
    <2> QED BY <2>6, <1>4 DEF LoginStage
  <1>10. CASE /\ t.todo = << NodeAt(t.arg.tenant, 0) >>
              /\ \E e1 : t.got = << e1 >> /\ Fair(e1)
    <2>1. PICK e1 : t.got = << e1 >> /\ Fair(e1)
      BY <1>10
    <2>2. \A x : Tail(<< x >>) = <<>>
      OBVIOUS
    <2>4. todo = <<>>
      BY <1>10, <2>2
    <2>5. Append(t.got, e) = << e1, e >>
      BY <2>1, AppendToOne
    <2>6. /\ task'[r].state = "done" /\ task'[r].got = << e1, e >>
          /\ task'[r].todo = <<>>
      BY <2>4, <2>5, <1>8
    <2> HIDE DEF t, q, e, todo
    <2> QED BY <2>1, <2>6, <1>4 DEF LoginStage
  <1> QED BY <1>5, <1>9, <1>10

\* A command that the address book ends has asked nothing, and is over.
LEMMA EndsUnasked ==
  ASSUME NEW r, NEW ask, Unbooked(r, ask)
  PROVE  \E new : /\ task' = [task EXCEPT ![r] = new]
                  /\ new.cmd # "login" /\ new.since = changes /\ new.got = <<>>
                  /\ new.state \notin {"asking", "done"}
                  /\ UNCHANGED << world, log, logged, failures, changes >>
  <1>1. PICK state \in {"failed", "absent"} : Begins(r, ask, <<>>, state) /\ ask[1] # "login"
    BY DEF Unbooked
  <1>2. PICK new : new = [cmd |-> ask[1], arg |-> ask[2], since |-> changes,
                          todo |-> <<>>, got |-> <<>>, state |-> state]
    OBVIOUS
  <1>3. /\ task' = [task EXCEPT ![r] = new]
        /\ UNCHANGED << world, log, logged, failures, changes >>
    BY <1>1, <1>2 DEF Begins
  <1>4. /\ new.cmd # "login" /\ new.since = changes /\ new.got = <<>>
        /\ new.state \notin {"asking", "done"}
    BY <1>1, <1>2
  <1> QED BY <1>3, <1>4

\* A command that begins, hears, or gives up, or a chain that changes, leaves
\* every login at one of its stages.
LEMMA LoginNext == LoginInv /\ [Next]_vars => LoginInv'
  <1> SUFFICES ASSUME LoginInv, [Next]_vars PROVE LoginInv'
    OBVIOUS
  <1>1. CASE UNCHANGED task
    BY <1>1 DEF LoginInv, LoginStage
  <1>2. ASSUME NEW r \in Readers, NEW ask \in Asks, Start(r, ask) PROVE LoginInv'
    <2> DEFINE new == [cmd |-> ask[1], arg |-> ask[2], since |-> changes,
                       todo |-> FirstQuestions(ask[1], ask[2]), got |-> <<>>, state |-> "asking"]
    <2>1. task' = [task EXCEPT ![r] = new]
      BY <1>2 DEF Start, Begins
    <2>2. DOMAIN task' = Readers /\ \A s \in Readers : task'[s] = IF s = r THEN new ELSE task[s]
      BY <2>1 DEF LoginInv
    <2>3. new.cmd = "login" => LoginStage(new)
      BY DEF LoginStage, FirstQuestions
    <2> QED BY <2>2, <2>3 DEF LoginInv, LoginStage
  <1>3. ASSUME NEW r \in Readers, NEW a, a = Holds(Head(task[r].todo)) \/ a \in Failures,
               task[r].state = "asking", Hears(r, Head(task[r].todo), a)
        PROVE  LoginInv'
    <2>1. DOMAIN task' = Readers /\ \A s \in Readers : s # r => task'[s] = task[s]
      BY <1>3 DEF LoginInv, Hears
    <2>2. task'[r].cmd = task[r].cmd
      BY <1>3 DEF LoginInv, Hears, Progress, Fails
    <2>3. task[r].cmd = "login" => LoginStage(task'[r])
      BY <1>3, LoginHears
    <2> QED BY <2>1, <2>2, <2>3 DEF LoginInv, LoginStage
  <1>4. ASSUME NEW r \in Readers, RefusesDepth(r) PROVE LoginInv'
    <2>1. DOMAIN task' = Readers /\ \A s \in Readers : s # r => task'[s] = task[s]
      BY <1>4 DEF LoginInv, RefusesDepth
    <2>2. task'[r].cmd = task[r].cmd
      BY <1>4 DEF LoginInv, RefusesDepth, Fails, Progress
    <2>3. task[r].cmd # "login"
      <3> SUFFICES ASSUME LoginStage(task[r]) PROVE FALSE
        BY DEF LoginInv
      <3>1. Head(task[r].todo).depth = 0
        BY <1>4 DEF RefusesDepth, LoginStage, Plain, NodeAt, Question
      <3> QED BY <1>4, <3>1 DEF RefusesDepth, TooDeep, MaxDepth
    <2> QED BY <2>1, <2>2, <2>3 DEF LoginInv, LoginStage
  <1>5. CASE \E r \in Readers : Answered(r)
    BY <1>5, <1>3 DEF Answered
  <1>6. CASE \E r \in Readers, f \in {Unreachable, NoResult} : Unanswered(r, f)
    BY <1>6, <1>3 DEF Unanswered, Failures
  <1>7. CASE WorldChanges
    BY <1>7, <1>1 DEF WorldChanges
  <1>8. CASE UNCHANGED vars
    BY <1>8, <1>1 DEF vars
  <1>9. ASSUME NEW r \in Readers, NEW ask \in Asks, Unbooked(r, ask) PROVE LoginInv'
    <2>1. PICK new : task' = [task EXCEPT ![r] = new] /\ new.cmd # "login"
      BY <1>9, EndsUnasked
    <2>2. DOMAIN task' = Readers /\ \A s \in Readers : task'[s] = IF s = r THEN new ELSE task[s]
      BY <2>1 DEF LoginInv
    <2> QED BY <2>1, <2>2 DEF LoginInv, LoginStage
  <1> QED BY <1>2, <1>4, <1>5, <1>6, <1>7, <1>8, <1>9 DEF Next, Reads

\* What is known of a login is enough.
LEMMA LoginImplies == LoginInv => ReadFailureNeverWidens
  <1> SUFFICES ASSUME LoginInv, NEW r \in Readers, Finished(r, "login"), NEW level \in Levels,
                      PermitsLevel(ResolveEffectiveGrant(task[r].arg, Got(r, 1).a, Got(r, 2).a), level)
               PROVE  PermitsLevel(ResolveEffectiveGrant(task[r].arg, Got(r, 1).was, Got(r, 2).was), level)
    BY DEF ReadFailureNeverWidens
  <1>1. PICK e1, e2 : task[r].got = << e1, e2 >> /\ Fair(e1) /\ Fair(e2)
    BY DEF LoginInv, LoginStage, Finished
  <1>2. Got(r, 1) = e1 /\ Got(r, 2) = e2
    BY <1>1 DEF Got
  <1> QED BY <1>1, <1>2, FairAnswersNarrow

\* No read failure widens what a principal may see: for every chain, every
\* entitlement and any number of commands, failures and changes of the chain,
\* the grant a login resolves to (ClearanceReader::resolve) permits no level that
\* it would not have permitted had every question been answered.
THEOREM NoReadFailureWidens == Spec => []ReadFailureNeverWidens
  <1>1. Init => LoginInv
    BY LoginInit
  <1>2. LoginInv /\ [Next]_vars => LoginInv'
    BY LoginNext
  <1>3. LoginInv => ReadFailureNeverWidens
    BY LoginImplies
  <1> QED BY <1>1, <1>2, <1>3, PTL DEF Spec
-----------------------------------------------------------------------------
(* What a command shows.  A command other than the walk of the tree follows *)
(* a script: what it asks is known when it starts, or, for blocks, once the *)
(* height of the chain has been heard.                                     *)
Scripts == {"clearance", "facts", "status", "balances", "blocks"}

\* How many questions a command has in all, and the n-th of them.
Length(t) ==
  IF t.cmd # "blocks" THEN Len(FirstQuestions(t.cmd, t.arg))
  ELSE IF t.got = <<>> THEN 1 ELSE 1 + Least(Clamp(t.arg), t.got[1].a + 1)
Nth(t, n) ==
  IF t.cmd # "blocks" THEN FirstQuestions(t.cmd, t.arg)[n]
  ELSE IF n = 1 THEN Plain("height") ELSE Question("block", t.got[1].a - n + 2, 0)

\* What is heard is the truth of its moment, or a failure the command goes on
\* after; the chain holds at a height the block of that height or none; and what
\* is asked where there is no contract is refused.
Heard(cmd, e) ==
  /\ e.a = e.was \/ e.a \in {Unreachable, NoResult}
  /\ GoesOn(cmd, e.q, e.a)
  /\ e.q.q = "height" => e.was \in Nat
  /\ e.q.q = "block" => e.was \in {e.q.of, Reverted}
  /\ e.q.q = "node" /\ e.q.of = None => e.was = Reverted

\* What was asked, and what is still to ask, are the command's questions in order.
OnScript(t) ==
  /\ \E S : t.got \in Seq(S) /\ t.todo \in Seq(S)
  /\ t.state = IF t.todo = <<>> THEN "done" ELSE "asking"
  /\ \A n \in 1..Len(t.got) : Heard(t.cmd, t.got[n]) /\ t.got[n].q = Nth(t, n)
  /\ \A n \in 1..Len(t.todo) : t.todo[n] = Nth(t, Len(t.got) + n)
  /\ Len(t.got) + Len(t.todo) = Length(t)
  /\ t.cmd = "blocks" => t.arg \in Int

ReadInv ==
  /\ DOMAIN task = Readers /\ world \in Worlds
  /\ \A r \in Readers :
       task[r].cmd \in Scripts /\ task[r].state \in {"asking", "done"} => OnScript(task[r])
-----------------------------------------------------------------------------
\* A failure that is no refusal is a failure.
LEMMA TrueOrSilent ==
  ASSUME NEW cmd, NEW e, Heard(cmd, e), e.a \notin Failures PROVE e.a = e.was
  BY DEF Heard, Failures

\* A command that shows blocks goes on only with answers.
LEMMA BlocksAreAnswers ==
  ASSUME NEW e, Heard("blocks", e), e.q.q # "extra"
  PROVE  e.a \notin Failures /\ e.a = e.was
  BY TrueOrSilent DEF Heard, GoesOn, Tolerates

\* The height that was heard is a number.
LEMMA HeightIsNumber ==
  ASSUME NEW t, OnScript(t), t.cmd = "blocks", t.got # <<>>
  PROVE  t.got[1].a \in Nat
  <1>1. PICK S : t.got \in Seq(S)
    BY DEF OnScript
  <1>2. 1 \in 1..Len(t.got)
    BY <1>1, EmptySeq
  <1>3. Heard("blocks", t.got[1]) /\ t.got[1].q = Plain("height")
    BY <1>2 DEF OnScript, Nth
  <1>4. t.got[1].q.q = "height"
    BY <1>3 DEF Plain, Question
  <1> QED BY <1>3, <1>4, BlocksAreAnswers DEF Heard

\* One answer more, to a question that leads to no other.
LEMMA ScriptGoesOn ==
  ASSUME NEW t, NEW u, NEW e, OnScript(t), t.todo # <<>>,
         t.cmd = "blocks" => t.got # <<>>,
         e.q = Head(t.todo), Heard(t.cmd, e),
         u.cmd = t.cmd, u.arg = t.arg, u.todo = Tail(t.todo), u.got = Append(t.got, e),
         u.state = IF u.todo = <<>> THEN "done" ELSE "asking"
  PROVE  OnScript(u)
  <1>1. PICK S : t.got \in Seq(S) /\ t.todo \in Seq(S)
    BY DEF OnScript
  <1> DEFINE T == S \cup {e}
  <1>2. t.got \in Seq(T) /\ t.todo \in Seq(T) /\ e \in T
    BY <1>1, SeqMonotonic
  <1> HIDE DEF T
  <1>3. /\ u.got \in Seq(T) /\ Len(u.got) = Len(t.got) + 1
        /\ \A i \in 1..Len(t.got) : u.got[i] = t.got[i]
        /\ u.got[Len(t.got) + 1] = e
        /\ u.got # <<>>
    BY <1>2, AppendProperties
  <1>4. /\ u.todo \in Seq(T) /\ Len(u.todo) = Len(t.todo) - 1
        /\ \A i \in 1..Len(u.todo) : u.todo[i] = t.todo[i + 1]
    BY <1>2, HeadTailProperties
  <1>5. Len(t.got) \in Nat /\ Len(t.todo) \in Nat /\ Len(t.todo) > 0
    BY <1>2, LenProperties, EmptySeq
  <1>6. t.cmd = "blocks" => u.got[1] = t.got[1]
    <2>1. t.cmd = "blocks" => 1 \in 1..Len(t.got)
      BY <1>2, EmptySeq
    <2> QED BY <2>1, <1>3
  <1>7. \A n : Nth(u, n) = Nth(t, n)
    BY <1>6 DEF Nth
  <1>8. Length(u) = Length(t)
    BY <1>3, <1>6 DEF Length
  <1>9. Head(t.todo) = Nth(t, Len(t.got) + 1)
    <2>1. Head(t.todo) = t.todo[1]
      OBVIOUS
    <2> QED BY <2>1, <1>5 DEF OnScript
  <1>10. \A n \in 1..Len(u.got) : Heard(u.cmd, u.got[n]) /\ u.got[n].q = Nth(u, n)
    <2>1. \A n \in 1..Len(u.got) : n \in 1..Len(t.got) \/ n = Len(t.got) + 1
      BY <1>3, <1>5
    <2>2. \A n \in 1..Len(t.got) : Heard(t.cmd, t.got[n]) /\ t.got[n].q = Nth(t, n)
      BY DEF OnScript
    <2> QED BY <2>1, <2>2, <1>3, <1>7, <1>9
  <1>11. \A n \in 1..Len(u.todo) : u.todo[n] = Nth(u, Len(u.got) + n)
    <2>1. ASSUME NEW n \in 1..Len(u.todo) PROVE u.todo[n] = Nth(u, Len(u.got) + n)
      <3>1. n + 1 \in 1..Len(t.todo) /\ Len(t.got) + (n + 1) = Len(u.got) + n
        <4>1. \A a, b \in Nat : \A k \in 1..(b - 1) : k + 1 \in 1..b /\ a + (k + 1) = (a + 1) + k
          OBVIOUS
        <4> QED BY <4>1, <1>3, <1>4, <1>5
      <3>2. t.todo[n + 1] = Nth(t, Len(t.got) + (n + 1))
        BY <3>1 DEF OnScript
      <3> QED BY <3>1, <3>2, <1>4, <1>7
    <2> QED BY <2>1
  <1>12. Len(u.got) + Len(u.todo) = Length(u)
    <2>1. \A a, b \in Nat : (a + 1) + (b - 1) = a + b
      OBVIOUS
    <2>2. Len(t.got) + Len(t.todo) = Length(t)
      BY DEF OnScript
    <2> QED BY <2>1, <2>2, <1>3, <1>4, <1>5, <1>8
  <1>13. t.cmd = "blocks" => t.arg \in Int
    BY DEF OnScript
  <1> QED BY <1>3, <1>4, <1>10, <1>11, <1>12, <1>13 DEF OnScript

\* The heights that are asked for, once the height of the chain is known.
LEMMA HeightsAsked ==
  ASSUME NEW count \in Int, NEW head \in Nat
  PROVE  LET asked == FollowUps("blocks", count, Plain("height"), head) IN
         /\ \E S : asked \in Seq(S)
         /\ Len(asked) = Least(Clamp(count), head + 1)
         /\ \A n \in 1..Len(asked) : asked[n] = Question("block", head - n + 1, 0)
  <1> DEFINE number == Least(Clamp(count), head + 1)
             asked == [n \in 1..number |-> Question("block", head - n + 1, 0)]
  <1>1. number \in Nat
    BY DEF Least, Clamp
  <1>2. FollowUps("blocks", count, Plain("height"), head) = asked
    <2>1. Plain("height").q = "height"
      BY DEF Plain, Question
    <2>2. DOMAIN Heights(head, count) = 1..number
          /\ \A n \in 1..number : Heights(head, count)[n] = head - n + 1
      BY DEF Heights
    <2> HIDE DEF number
    <2> QED BY <2>1, <2>2 DEF FollowUps
  <1> DEFINE T == { asked[n] : n \in 1..number }
  <1>3. asked \in Seq(T) /\ Len(asked) = number
    <2>1. asked \in [1..number -> T] /\ DOMAIN asked = 1..number
      OBVIOUS
    <2> HIDE DEF asked, T, number
    <2>2. asked \in Seq(T)
      BY <1>1, <2>1, SeqDef
    <2> QED BY <1>1, <2>1, <2>2, LenProperties
  <1>4. \A n \in 1..number : asked[n] = Question("block", head - n + 1, 0)
    OBVIOUS
  <1> HIDE DEF asked, T, number
  <1>5. number = Least(Clamp(count), head + 1)
    BY DEF number
  <1> QED BY <1>2, <1>3, <1>4, <1>5

\* The height is heard: the heights that follow from it are asked for.
LEMMA HeightHeard ==
  ASSUME NEW t, NEW u, NEW e, OnScript(t), t.todo # <<>>, t.cmd = "blocks", t.got = <<>>,
         e.q = Head(t.todo), Heard("blocks", e),
         u.cmd = "blocks", u.arg = t.arg, u.got = Append(t.got, e),
         u.todo = DepthFirst(FollowUps("blocks", t.arg, e.q, e.a), Tail(t.todo)),
         u.state = IF u.todo = <<>> THEN "done" ELSE "asking"
  PROVE  OnScript(u)
  <1>1. PICK S : t.todo \in Seq(S)
    BY DEF OnScript
  <1>2. Len(t.todo) = 1
    BY <1>1, EmptySeq, LenProperties DEF OnScript, Length
  <1>3. e.q = Plain("height")
    BY <1>2 DEF OnScript, Nth
  <1>4. Tail(t.todo) = <<>>
    <2>1. Tail(t.todo) \in Seq(S) /\ Len(Tail(t.todo)) = Len(t.todo) - 1
      BY <1>1, HeadTailProperties
    <2>2. Len(Tail(t.todo)) = 0
      BY <1>2, <2>1
    <2> QED BY <2>1, <2>2, EmptySeq
  <1>5. e.a \in Nat
    BY <1>3, BlocksAreAnswers DEF Heard, Plain, Question
  <1>6. t.arg \in Int
    BY DEF OnScript
  <1> DEFINE asked == FollowUps("blocks", t.arg, Plain("height"), e.a)
  <1>7. /\ \E A : asked \in Seq(A)
        /\ Len(asked) = Least(Clamp(t.arg), e.a + 1)
        /\ \A n \in 1..Len(asked) : asked[n] = Question("block", e.a - n + 1, 0)
    BY <1>5, <1>6, HeightsAsked
  <1>8. PICK A : asked \in Seq(A)
    BY <1>7
  <1>9. u.todo = asked
    BY <1>3, <1>4, <1>8, ConcatEmptySeq DEF DepthFirst
  <1> HIDE DEF asked
  <1> DEFINE T == A \cup {e}
  <1>10. asked \in Seq(T) /\ <<>> \in Seq(T) /\ e \in T
    BY <1>8, SeqMonotonic, EmptySeq
  <1> HIDE DEF T
  <1>11. /\ u.got \in Seq(T) /\ Len(u.got) = 1 /\ u.got[1] = e /\ u.got # <<>>
    BY <1>10, AppendProperties, EmptySeq
  <1>12. Len(asked) \in Nat
    BY <1>10, LenProperties
  <1>13. \A n \in 1..Len(u.got) : Heard(u.cmd, u.got[n]) /\ u.got[n].q = Nth(u, n)
    BY <1>3, <1>11 DEF Nth
  <1>14. \A n \in 1..Len(u.todo) : u.todo[n] = Nth(u, Len(u.got) + n)
    <2>1. ASSUME NEW n \in 1..Len(asked) PROVE asked[n] = Nth(u, 1 + n)
      <3>1. n \in Nat /\ 1 + n # 1 /\ e.a - (1 + n) + 2 = e.a - n + 1
        BY <1>5, <1>12
      <3>2. Nth(u, 1 + n) = Question("block", e.a - (1 + n) + 2, 0)
        BY <3>1, <1>11 DEF Nth
      <3> QED BY <3>1, <3>2, <1>7
    <2> QED BY <2>1, <1>9, <1>11
  <1>15. Len(u.got) + Len(u.todo) = Length(u)
    BY <1>7, <1>9, <1>11 DEF Length
  <1> QED BY <1>6, <1>9, <1>10, <1>11, <1>13, <1>14, <1>15 DEF OnScript

\* What is asked of each token, and the list it is.
TokenQuestions == [n \in DOMAIN Tokens |-> Question("balance", Tokens[n], 0)]
LEMMA TokensAsked ==
  /\ \E S : << Plain("balance") >> \in Seq(S) /\ TokenQuestions \in Seq(S)
  /\ Len(TokenQuestions) = Len(Tokens) /\ DOMAIN Tokens = 1..Len(Tokens) /\ Len(Tokens) \in Nat
  /\ \A n \in DOMAIN Tokens : TokenQuestions[n] = Question("balance", Tokens[n], 0)
  <1>1. Len(Tokens) \in Nat /\ DOMAIN Tokens = 1..Len(Tokens)
    BY ReadKinds, LenProperties
  <1> DEFINE T == { TokenQuestions[n] : n \in DOMAIN Tokens } \cup {Plain("balance")}
  <1>2. TokenQuestions \in [1..Len(Tokens) -> T] /\ DOMAIN TokenQuestions = 1..Len(Tokens)
    BY <1>1 DEF TokenQuestions
  <1>3. Plain("balance") \in T
    OBVIOUS
  <1> HIDE DEF T
  <1>4. TokenQuestions \in Seq(T)
    BY <1>1, <1>2, SeqDef
  <1>5. << Plain("balance") >> \in Seq(T)
    BY <1>3
  <1>6. Len(TokenQuestions) = Len(Tokens)
    BY <1>1, <1>2, <1>4, LenProperties
  <1> QED BY <1>1, <1>4, <1>5, <1>6 DEF TokenQuestions

\* The first questions of a command that has a script are a list of one at least.
LEMMA FirstQuestionsListed ==
  ASSUME NEW cmd \in Scripts, NEW arg
  PROVE  /\ \E S : FirstQuestions(cmd, arg) \in Seq(S)
         /\ FirstQuestions(cmd, arg) # <<>>
  <1>1. CASE cmd # "balances"
    <2>1. \A x : << x >> \in Seq({x}) /\ << x >> # <<>>
      OBVIOUS
    <2>2. \A x, y : << x, y >> \in Seq({x, y}) /\ << x, y >> # <<>>
      OBVIOUS
    <2>3. \A x, y, z : << x, y, z >> \in Seq({x, y, z}) /\ << x, y, z >> # <<>>
      OBVIOUS
    <2>4. CASE cmd = "clearance"
      BY <2>2, <2>4 DEF FirstQuestions
    <2>5. CASE cmd = "facts"
      BY <2>1, <2>5 DEF FirstQuestions
    <2>6. CASE cmd = "status"
      BY <2>3, <2>6 DEF FirstQuestions
    <2>7. CASE cmd = "blocks"
      BY <2>1, <2>7 DEF FirstQuestions
    <2> QED BY <1>1, <2>4, <2>5, <2>6, <2>7 DEF Scripts
  <1>2. CASE cmd = "balances"
    <2>1. /\ FirstQuestions(cmd, arg) = << Plain("balance") >> \o TokenQuestions
          /\ \E S : << Plain("balance") >> \in Seq(S) /\ TokenQuestions \in Seq(S)
      BY <1>2, TokensAsked DEF FirstQuestions, TokenQuestions
    <2>2. PICK S : << Plain("balance") >> \in Seq(S) /\ TokenQuestions \in Seq(S)
      BY <2>1
    <2>3. Len(<< Plain("balance") >>) = 1
      OBVIOUS
    <2>4. FirstQuestions(cmd, arg) \in Seq(S) /\ Len(FirstQuestions(cmd, arg)) >= 1
      BY <2>1, <2>2, <2>3, ConcatProperties, LenProperties
    <2> QED BY <2>4, EmptySeq
  <1> QED BY <1>1, <1>2

\* A command that starts is on its script.
LEMMA ScriptBegins ==
  ASSUME NEW t, t.cmd \in Scripts, t.cmd = "blocks" => t.arg \in Int,
         t.got = <<>>, t.todo = FirstQuestions(t.cmd, t.arg), t.state = "asking"
  PROVE  OnScript(t)
  <1>1. PICK S : t.todo \in Seq(S)
    BY FirstQuestionsListed
  <1>2. t.todo # <<>>
    BY FirstQuestionsListed
  <1>3. t.got \in Seq(S) /\ Len(t.got) = 0 /\ Len(t.todo) \in Nat
    BY <1>1, EmptySeq, LenProperties
  <1>4. Len(t.todo) = Length(t) /\ \A n \in 1..Len(t.todo) : t.todo[n] = Nth(t, n)
    <2>1. CASE t.cmd # "blocks"
      BY <2>1 DEF Length, Nth
    <2>2. CASE t.cmd = "blocks"
      <3>1. t.todo = << Plain("height") >>
        BY <2>2 DEF FirstQuestions
      <3>2. Len(t.todo) = 1 /\ t.todo[1] = Plain("height")
        BY <3>1
      <3> QED BY <2>2, <3>2 DEF Length, Nth
    <2> QED BY <2>1, <2>2
  <1>5. \A n \in 1..Len(t.todo) : t.todo[n] = Nth(t, Len(t.got) + n)
    BY <1>3, <1>4
  <1>6. Len(t.got) + Len(t.todo) = Length(t)
    BY <1>3, <1>4
  <1>7. \A n \in 1..Len(t.got) : FALSE
    BY <1>3
  <1> QED BY <1>1, <1>2, <1>3, <1>5, <1>6, <1>7 DEF OnScript
-----------------------------------------------------------------------------
\* A question to the chain is answered with what the chain holds, which for a
\* block is the block of that height, if the chain has come so far; and with a
\* refusal where there is no contract to ask.
LEMMA ChainAnswers ==
  ASSUME NEW q, world \in Worlds
  PROVE  /\ q.q = "height" => Holds(q) \in Nat
         /\ q.q = "block" => Holds(q) \in {q.of, Reverted}
         /\ q.q = "node" /\ q.of = None => Holds(q) = Reverted
  BY ReadKinds DEF Holds, NoSuch

\* A command with a script that hears an answer stays on it, or fails.
LEMMA ScriptHears ==
  ASSUME NEW r \in Readers, ReadInv, task[r].cmd \in Scripts, task[r].state = "asking",
         NEW a, a = Holds(Head(task[r].todo)) \/ a \in {Unreachable, NoResult},
         Hears(r, Head(task[r].todo), a), task'[r].state # "failed"
  PROVE  OnScript(task'[r])
  <1> DEFINE t == task[r]
             q == Head(t.todo)
             e == [q |-> q, a |-> a, was |-> Holds(q)]
             next == IF a \in Failures THEN <<>> ELSE FollowUps(t.cmd, t.arg, q, a)
             todo == DepthFirst(next, Tail(t.todo))
             u == Progress(t, todo, Append(t.got, e), IF todo = <<>> THEN "done" ELSE "asking")
  <1>1. OnScript(t)
    BY DEF ReadInv
  <1>2. GoesOn(t.cmd, q, a)
    BY DEF Hears, ReadInv, Fails, Progress
  <1>3. task'[r] = u
    BY <1>2 DEF Hears, ReadInv
  <1>4. Heard(t.cmd, e)
    <2>1. /\ q.q = "height" => Holds(q) \in Nat
          /\ q.q = "block" => Holds(q) \in {q.of, Reverted}
          /\ q.q = "node" /\ q.of = None => Holds(q) = Reverted
      BY ChainAnswers DEF ReadInv
    <2>2. e.q = q /\ e.a = a /\ e.was = Holds(q)
      OBVIOUS
    <2>3. a = Holds(q) \/ a \in {Unreachable, NoResult}
      OBVIOUS
    <2> HIDE DEF t, q, e
    <2> QED BY <1>2, <2>1, <2>2, <2>3 DEF Heard
  <1>5. t.todo # <<>>
    BY <1>1 DEF OnScript
  <1>6. PICK S : t.todo \in Seq(S) /\ t.got \in Seq(S)
    BY <1>1 DEF OnScript
  <1>7. /\ u.cmd = t.cmd /\ u.arg = t.arg /\ u.todo = todo /\ u.got = Append(t.got, e)
        /\ u.state = IF u.todo = <<>> THEN "done" ELSE "asking"
    BY DEF Progress
  <1>8. q = Nth(t, Len(t.got) + 1)
    <2>1. q = t.todo[1] /\ 1 \in 1..Len(t.todo)
      BY <1>5, <1>6, EmptySeq
    <2> QED BY <2>1, <1>1 DEF OnScript
  <1>9. CASE t.cmd = "blocks" /\ t.got = <<>>
    <2>1. q = Plain("height")
      BY <1>8, <1>9 DEF Nth
    <2>2. a \notin Failures
      BY <1>2, <1>9, <2>1 DEF GoesOn, Tolerates, Plain, Question
    <2>3. todo = DepthFirst(FollowUps("blocks", t.arg, e.q, e.a), Tail(t.todo))
      BY <2>2, <1>9
    <2> HIDE DEF t, q, e, next, todo, u
    <2>4. e.q = Head(t.todo)
      BY DEF e, q
    <2> QED BY <1>1, <1>3, <1>4, <1>5, <1>7, <1>9, <2>3, <2>4, HeightHeard
  <1>10. CASE t.cmd = "blocks" => t.got # <<>>
    <2>1. next = <<>>
      <3>1. CASE t.cmd # "blocks"
        BY <3>1 DEF FollowUps, Scripts
      <3>2. CASE t.cmd = "blocks"
        <4>1. Len(t.got) + 1 # 1 /\ Len(t.got) \in Nat
          BY <1>6, <1>10, <3>2, EmptySeq
        <4>2. q.q = "block"
          BY <1>8, <3>2, <4>1 DEF Nth, Question
        <4> QED BY <3>2, <4>2 DEF FollowUps
      <3> QED BY <3>1, <3>2
    <2>2. Tail(t.todo) \in Seq(S)
      BY <1>5, <1>6, HeadTailProperties
    <2>3. todo = Tail(t.todo)
      BY <2>1, <2>2, ConcatEmptySeq DEF DepthFirst
    <2> HIDE DEF t, q, e, next, todo, u
    <2>4. e.q = Head(t.todo)
      BY DEF e, q
    <2> QED BY <1>1, <1>3, <1>4, <1>5, <1>7, <1>10, <2>3, <2>4, ScriptGoesOn
  <1> QED BY <1>9, <1>10

\* Whatever happens, every command that has a script is on it, or has failed.
LEMMA ReadNext == ReadInv /\ [Next]_vars => ReadInv'
  <1> SUFFICES ASSUME ReadInv, [Next]_vars PROVE ReadInv'
    OBVIOUS
  <1>1. CASE UNCHANGED << task, world >>
    BY <1>1 DEF ReadInv
  <1>2. ASSUME NEW r \in Readers, NEW ask \in Asks, Start(r, ask) PROVE ReadInv'
    <2> DEFINE new == [cmd |-> ask[1], arg |-> ask[2], since |-> changes,
                       todo |-> FirstQuestions(ask[1], ask[2]), got |-> <<>>, state |-> "asking"]
    <2>1. task' = [task EXCEPT ![r] = new] /\ world' = world
      BY <1>2 DEF Start, Begins
    <2>2. DOMAIN task' = Readers /\ \A s \in Readers : task'[s] = IF s = r THEN new ELSE task[s]
      BY <2>1 DEF ReadInv
    <2>3. new.cmd = "blocks" => new.arg \in Int
      BY ReadKinds DEF Asks
    <2>4. new.cmd \in Scripts => OnScript(new)
      BY <2>3, ScriptBegins
    <2> HIDE DEF new
    <2> QED BY <2>1, <2>2, <2>4 DEF ReadInv
  <1>3. ASSUME NEW r \in Readers, NEW a, a = Holds(Head(task[r].todo)) \/ a \in {Unreachable, NoResult},
               task[r].state = "asking", Hears(r, Head(task[r].todo), a), world' = world
        PROVE  ReadInv'
    <2>1. DOMAIN task' = Readers /\ \A s \in Readers : s # r => task'[s] = task[s]
      BY <1>3 DEF ReadInv, Hears
    <2>2. task'[r].cmd = task[r].cmd
      BY <1>3 DEF ReadInv, Hears, Progress, Fails
    <2>3. task[r].cmd \in Scripts /\ task'[r].state # "failed" => OnScript(task'[r])
      BY <1>3, ScriptHears
    <2> QED BY <1>3, <2>1, <2>2, <2>3 DEF ReadInv
  <1>4. ASSUME NEW r \in Readers, RefusesDepth(r) PROVE ReadInv'
    <2>1. DOMAIN task' = Readers /\ \A s \in Readers : s # r => task'[s] = task[s]
      BY <1>4 DEF ReadInv, RefusesDepth
    <2>2. task'[r].state = "failed" /\ world' = world
      BY <1>4 DEF ReadInv, RefusesDepth, Fails, Progress
    <2> QED BY <2>1, <2>2 DEF ReadInv
  <1>5. CASE \E r \in Readers : Answered(r)
    BY <1>5, <1>3 DEF Answered
  <1>6. CASE \E r \in Readers, f \in {Unreachable, NoResult} : Unanswered(r, f)
    BY <1>6, <1>3 DEF Unanswered
  <1>7. CASE WorldChanges
    BY <1>7 DEF WorldChanges, ReadInv
  <1>8. CASE UNCHANGED vars
    BY <1>8, <1>1 DEF vars
  <1>9. ASSUME NEW r \in Readers, NEW ask \in Asks, Unbooked(r, ask) PROVE ReadInv'
    <2>1. PICK new : /\ task' = [task EXCEPT ![r] = new] /\ world' = world
                     /\ new.state \notin {"asking", "done"}
      BY <1>9, EndsUnasked
    <2>2. DOMAIN task' = Readers /\ \A s \in Readers : task'[s] = IF s = r THEN new ELSE task[s]
      BY <2>1 DEF ReadInv
    <2> QED BY <2>1, <2>2 DEF ReadInv
  <1> QED BY <1>2, <1>4, <1>5, <1>6, <1>7, <1>8, <1>9 DEF Next, Reads

LEMMA ReadInit == Init => ReadInv
  BY DEF Init, ReadInv, Idle, Scripts
-----------------------------------------------------------------------------
(* What a command that is done shows. *)
\* The answers of a command that is done are those to all of its questions.
LEMMA DoneIsWhole ==
  ASSUME NEW r \in Readers, NEW cmd \in Scripts, ReadInv, Finished(r, cmd)
  PROVE  LET t == task[r] IN
         /\ t.cmd = cmd /\ Len(t.got) = Length(t) /\ Len(t.got) \in Nat
         /\ DOMAIN t.got = 1..Len(t.got) /\ \E S : t.got \in Seq(S)
         /\ \A n \in 1..Len(t.got) : Heard(cmd, t.got[n]) /\ t.got[n].q = Nth(t, n)
  <1> DEFINE t == task[r]
  <1>1. OnScript(t) /\ t.state = "done" /\ t.cmd = cmd
    BY DEF ReadInv, Finished
  <1>2. PICK S : t.got \in Seq(S) /\ t.todo \in Seq(S)
    BY <1>1 DEF OnScript
  <1>3. t.todo = <<>>
    BY <1>1 DEF OnScript
  <1>4. Len(t.todo) = 0 /\ Len(t.got) \in Nat /\ DOMAIN t.got = 1..Len(t.got)
    BY <1>2, <1>3, EmptySeq, LenProperties
  <1>5. Len(t.got) = Length(t)
    BY <1>1, <1>4 DEF OnScript
  <1> QED BY <1>1, <1>2, <1>4, <1>5 DEF OnScript

\* A tenant is only said not to exist if the contract said so.
LEMMA AbsenceIsRead ==
  ASSUME NEW r \in Readers, ReadInv, Finished(r, "facts"), Got(r, 1).a \in Failures
  PROVE  Got(r, 1).was = Reverted
  <1> DEFINE t == task[r]
  <1>1. /\ t.cmd = "facts" /\ Len(t.got) = Length(t)
        /\ \A n \in 1..Len(t.got) : Heard("facts", t.got[n]) /\ t.got[n].q = Nth(t, n)
    BY DoneIsWhole DEF Scripts
  <1>2. FirstQuestions("facts", t.arg) = << NodeAt(t.arg, 0) >>
    BY DEF FirstQuestions
  <1>3. Len(t.got) = 1 /\ Nth(t, 1) = NodeAt(t.arg, 0)
    BY <1>1, <1>2 DEF Length, Nth
  <1>4. Heard("facts", Got(r, 1)) /\ Got(r, 1).q.q = "node"
    BY <1>1, <1>3 DEF Got, NodeAt, Question
  <1>5. Got(r, 1).a = Reverted
    BY <1>4 DEF Heard, GoesOn, Tolerates
  <1> QED BY <1>4, <1>5, ReadKinds DEF Heard

\* Every token is shown with its balance or named as unread.
LEMMA TokensAreNamed ==
  ASSUME NEW r \in Readers, ReadInv, Finished(r, "balances")
  PROVE  /\ Got(r, 1).a = Got(r, 1).was
         /\ \A n \in DOMAIN Tokens : Got(r, n + 1).q.of = Tokens[n]
                                     /\ Got(r, n + 1).a \in {Got(r, n + 1).was} \cup Failures
  <1> DEFINE t == task[r]
             all == FirstQuestions("balances", t.arg)
  <1>1. /\ t.cmd = "balances" /\ Len(t.got) = Length(t)
        /\ \A n \in 1..Len(t.got) : Heard("balances", t.got[n]) /\ t.got[n].q = Nth(t, n)
    BY DoneIsWhole DEF Scripts
  <1>2. all = << Plain("balance") >> \o TokenQuestions
    BY DEF FirstQuestions, TokenQuestions
  <1>3. PICK S : << Plain("balance") >> \in Seq(S) /\ TokenQuestions \in Seq(S)
    BY TokensAsked
  <1>4. Len(<< Plain("balance") >>) = 1 /\ << Plain("balance") >>[1] = Plain("balance")
    OBVIOUS
  <1>5. /\ Len(all) = 1 + Len(Tokens)
        /\ \A i \in 1..1 + Len(Tokens) :
             all[i] = IF i <= 1 THEN << Plain("balance") >>[i] ELSE TokenQuestions[i - 1]
    BY <1>2, <1>3, <1>4, TokensAsked, ConcatProperties
  <1>6. Len(t.got) = 1 + Len(Tokens) /\ \A n : Nth(t, n) = all[n]
    BY <1>1, <1>5 DEF Length, Nth
  <1> HIDE DEF all
  <1>7. 1 \in 1..Len(t.got) /\ all[1] = Plain("balance")
    BY <1>4, <1>5, <1>6, TokensAsked
  <1>8. Heard("balances", Got(r, 1)) /\ Got(r, 1).q = Plain("balance")
    BY <1>1, <1>6, <1>7 DEF Got
  <1>9. Got(r, 1).a \notin Failures
    BY <1>8 DEF Heard, GoesOn, Tolerates, Plain, Question
  <1>10. ASSUME NEW n \in DOMAIN Tokens
         PROVE  /\ Got(r, n + 1).q.of = Tokens[n]
                /\ Got(r, n + 1).a \in {Got(r, n + 1).was} \cup Failures
    <2>1. n + 1 \in 1..Len(t.got) /\ ~(n + 1 <= 1) /\ (n + 1) - 1 = n
      BY <1>6, TokensAsked
    <2>2. all[n + 1] = TokenQuestions[n]
      BY <2>1, <1>5, <1>6
    <2>3. Heard("balances", Got(r, n + 1)) /\ Got(r, n + 1).q = Question("balance", Tokens[n], 0)
      BY <2>1, <2>2, <1>1, <1>6, TokensAsked DEF Got
    <2> QED BY <2>3 DEF Heard, Question, Failures
  <1> QED BY <1>8, <1>9, <1>10, TrueOrSilent

\* Blocks come without a gap, from the head down, and as many as were asked for.
LEMMA BlocksWithoutGap ==
  ASSUME NEW r \in Readers, ReadInv, Finished(r, "blocks")
  PROVE  /\ \A n \in 2..Len(task[r].got) : Got(r, n).a = Got(r, 1).a - n + 2
         /\ Len(task[r].got) - 1 = Least(Clamp(task[r].arg), Got(r, 1).a + 1)
  <1> DEFINE t == task[r]
  <1>1. /\ t.cmd = "blocks" /\ Len(t.got) = Length(t) /\ Len(t.got) \in Nat
        /\ \E S : t.got \in Seq(S)
        /\ \A n \in 1..Len(t.got) : Heard("blocks", t.got[n]) /\ t.got[n].q = Nth(t, n)
    BY DoneIsWhole DEF Scripts
  <1>2. OnScript(t)
    BY DEF ReadInv, Finished, Scripts
  <1>3. t.got # <<>>
    <2> SUFFICES ASSUME t.got = <<>> PROVE FALSE
      OBVIOUS
    <2>1. Len(t.got) = 0
      BY EmptySeq
    <2> QED BY <2>1, <1>1 DEF Length
  <1>4. t.got[1].a \in Nat /\ t.arg \in Int
    BY <1>1, <1>2, <1>3, HeightIsNumber DEF OnScript
  <1>5. Least(Clamp(t.arg), t.got[1].a + 1) \in Int
    BY <1>4 DEF Least, Clamp
  <1>6. Len(t.got) - 1 = Least(Clamp(t.arg), t.got[1].a + 1)
    BY <1>1, <1>3, <1>5 DEF Length
  <1>7. ASSUME NEW n \in 2..Len(t.got) PROVE t.got[n].a = t.got[1].a - n + 2
    <2>1. n \in 1..Len(t.got) /\ n # 1
      BY <1>1
    <2>2. Heard("blocks", t.got[n]) /\ t.got[n].q = Question("block", t.got[1].a - n + 2, 0)
      BY <1>1, <2>1 DEF Nth
    <2>3. t.got[n].q.q = "block" /\ t.got[n].q.of = t.got[1].a - n + 2
      BY <2>2 DEF Question
    <2>4. t.got[n].a \notin Failures /\ t.got[n].a = t.got[n].was
      BY <2>2, <2>3, BlocksAreAnswers
    <2> QED BY <2>2, <2>3, <2>4 DEF Heard, Failures
  <1> QED BY <1>6, <1>7 DEF Got

\* No status is shown of a chain that the address book is not about.
LEMMA OwnChainOnly ==
  ASSUME NEW r \in Readers, ReadInv, Finished(r, "status")
  PROVE  Got(r, 1).a = Got(r, 1).was /\ Got(r, 2).was = BookChain
  <1> DEFINE t == task[r]
  <1>1. /\ t.cmd = "status" /\ Len(t.got) = Length(t)
        /\ \A n \in 1..Len(t.got) : Heard("status", t.got[n]) /\ t.got[n].q = Nth(t, n)
    BY DoneIsWhole DEF Scripts
  <1>2. FirstQuestions("status", t.arg) = << Plain("height"), Plain("chain"), Plain("extra") >>
    BY DEF FirstQuestions
  <1>3. Len(t.got) = 3 /\ Nth(t, 1) = Plain("height") /\ Nth(t, 2) = Plain("chain")
    BY <1>1, <1>2 DEF Length, Nth
  <1>4. /\ Heard("status", Got(r, 1)) /\ Got(r, 1).q.q = "height"
        /\ Heard("status", Got(r, 2)) /\ Got(r, 2).q.q = "chain"
    BY <1>1, <1>3 DEF Got, Plain, Question
  <1>5. Got(r, 1).a \notin Failures /\ Got(r, 2).a \notin Failures /\ Got(r, 2).a = BookChain
    BY <1>4 DEF Heard, GoesOn, Tolerates
  <1> QED BY <1>4, <1>5, TrueOrSilent

\* A record that was not read clears for Public; one that was, for what it says.
LEMMA EffectiveIsLevel ==
  ASSUME NEW record
  PROVE  Effective(record) \in Levels /\ (record \in Failures => Effective(record) = 0)
  BY DEF Effective, OrPublic, ClearanceIn, Known, Levels

\* A clearance is no higher than the record, nor than a tenant that was read, and
\* is what the chain held unless a note is shown with it.
LEMMA ClearanceIsBounded ==
  ASSUME NEW r \in Readers, ReadInv, Finished(r, "clearance")
  PROVE  /\ Shown(r) <= IF Got(r, 2).a \in Failures THEN Effective(Got(r, 1).was) ELSE Held(r)
         /\ Said(r) = {} => Shown(r) = Held(r)
  <1> DEFINE t == task[r]
             record == Got(r, 1)
             node == Got(r, 2)
  <1>1. /\ t.cmd = "clearance" /\ Len(t.got) = Length(t)
        /\ \A n \in 1..Len(t.got) : Heard("clearance", t.got[n]) /\ t.got[n].q = Nth(t, n)
    BY DoneIsWhole DEF Scripts
  <1>2. FirstQuestions("clearance", t.arg) = << Plain("record"), NodeAt(t.arg, 0) >>
    BY DEF FirstQuestions
  <1>3. Len(t.got) = 2
    BY <1>1, <1>2 DEF Length
  <1>4. Heard("clearance", record) /\ Heard("clearance", node)
    BY <1>1, <1>3 DEF Got
  <1>0. node.q = NodeAt(t.arg, 0)
    BY <1>1, <1>2, <1>3 DEF Got, Nth
  <1> HIDE DEF t, record, node
  <1>5. /\ Effective(record.a) \in Levels /\ Effective(record.was) \in Levels
        /\ Effective(record.a) <= Effective(record.was)
    <2>1. CASE record.a \in Failures
      BY <2>1, EffectiveIsLevel DEF Levels
    <2>2. CASE record.a \notin Failures
      BY <2>2, <1>4, TrueOrSilent, EffectiveIsLevel DEF Levels
    <2> QED BY <2>1, <2>2
  <1>6. CeilingIn(node.a) = None \/ CeilingIn(node.a) \in Levels
    BY DEF CeilingIn, Known
  <1> DEFINE bound == IF node.a \in Failures THEN Effective(record.was) ELSE Held(r)
  <1>7. ASSUME node.a \in Failures PROVE Shown(r) <= bound
    <2>1. CeilingIn(node.a) = None
      BY <1>7 DEF CeilingIn
    <2> QED BY <1>5, <1>7, <2>1 DEF BoundedTo, Shown, record, node
  <1>8. ASSUME node.a \notin Failures PROVE Shown(r) <= bound
    <2>1. node.was = node.a
      BY <1>4, <1>8, TrueOrSilent
    <2>2. BoundedTo(record.a, node.a) <= BoundedTo(record.was, node.was)
      BY <1>5, <1>6, <2>1 DEF BoundedTo, Least, Levels
    <2> QED BY <1>8, <2>2 DEF Shown, Held, record, node
  <1>9. ASSUME Said(r) = {} PROVE Shown(r) = Held(r)
    <2>1. ClearanceIn(record.a) # None /\ (CeilingIn(node.a) # None \/ t.arg = None)
      BY <1>9 DEF Said, Notes, t, record, node
    <2>2. record.a = record.was
      BY <2>1, <1>4, TrueOrSilent DEF ClearanceIn
    <2>3. CASE CeilingIn(node.a) # None
      <3>1. node.a = node.was
        BY <2>3, <1>4, TrueOrSilent DEF CeilingIn
      <3> QED BY <2>2, <3>1 DEF Shown, Held, record, node
    <2>4. CASE CeilingIn(node.a) = None /\ t.arg = None
      <3>1. node.was = Reverted
        BY <2>4, <1>0, <1>4 DEF Heard, NodeAt, Question
      <3>2. CeilingIn(node.was) = None
        BY <3>1 DEF CeilingIn, Failures
      <3> QED BY <2>2, <2>4, <3>2 DEF Shown, Held, BoundedTo, record, node
    <2> QED BY <2>1, <2>3, <2>4
  <1> QED BY <1>7, <1>8, <1>9 DEF record, node

LEMMA ReadImplies == ReadInv => MissingIsNamed
  BY AbsenceIsRead, TokensAreNamed, BlocksWithoutGap, OwnChainOnly, ClearanceIsBounded
     DEF MissingIsNamed
-----------------------------------------------------------------------------
(* The activity log, against everything that was ever logged. *)
\* The last lines of what was logged, as many as are kept.
Newest(lines, all) ==
  /\ \E S : lines \in Seq(S) /\ all \in Seq(S)
  /\ Len(lines) = Least(Capacity, Len(all))
  /\ \A i \in 1..Len(lines) : lines[i] = all[(Len(all) - Len(lines)) + i]
LogInv == Newest(log, logged)

\* One line more, and the oldest is dropped when there are too many.
LEMMA RingGoesOn ==
  ASSUME NEW lines, NEW all, NEW line, Newest(lines, all)
  PROVE  Newest(KeepsNewest(Append(lines, line)), Append(all, line))
  <1>1. PICK S : lines \in Seq(S) /\ all \in Seq(S)
    BY DEF Newest
  <1> DEFINE T == S \cup {line}
  <1>2. lines \in Seq(T) /\ all \in Seq(T) /\ line \in T
    BY <1>1, SeqMonotonic
  <1> HIDE DEF T
  <1> DEFINE more == Append(lines, line)
             whole == Append(all, line)
             kept == KeepsNewest(more)
  <1>3. /\ more \in Seq(T) /\ Len(more) = Len(lines) + 1 /\ more # <<>>
        /\ \A i \in 1..Len(lines) : more[i] = lines[i]
        /\ more[Len(lines) + 1] = line
    BY <1>2, AppendProperties
  <1>4. /\ whole \in Seq(T) /\ Len(whole) = Len(all) + 1
        /\ \A i \in 1..Len(all) : whole[i] = all[i]
        /\ whole[Len(all) + 1] = line
    BY <1>2, AppendProperties
  <1>5. Len(lines) \in Nat /\ Len(all) \in Nat /\ Capacity \in Nat \ {0}
    BY <1>2, LenProperties, ReadBounds
  <1> HIDE DEF more, whole
  <1>6. Len(lines) = Least(Capacity, Len(all)) /\ Len(lines) <= Len(all) /\ Len(lines) <= Capacity
    BY <1>5 DEF Newest, Least
  <1>7. \A i \in 1..Len(more) : more[i] = whole[(Len(whole) - Len(more)) + i]
    <2>1. ASSUME NEW i \in 1..Len(lines) PROVE more[i] = whole[(Len(whole) - Len(more)) + i]
      <3>1. /\ (Len(whole) - Len(more)) + i = (Len(all) - Len(lines)) + i
            /\ (Len(all) - Len(lines)) + i \in 1..Len(all)
        <4>1. \A a, b \in Nat : b <= a => \A k \in 1..b :
                /\ ((a + 1) - (b + 1)) + k = (a - b) + k
                /\ (a - b) + k \in 1..a
          OBVIOUS
        <4>2. Len(whole) = Len(all) + 1 /\ Len(more) = Len(lines) + 1
          BY <1>3, <1>4
        <4> QED BY <4>1, <4>2, <1>5, <1>6
      <3>2. lines[i] = all[(Len(all) - Len(lines)) + i]
        BY DEF Newest
      <3> QED BY <3>1, <3>2, <1>3, <1>4
    <2>2. (Len(whole) - Len(more)) + (Len(lines) + 1) = Len(all) + 1
      BY <1>3, <1>4, <1>5
    <2>3. \A i \in 1..Len(more) : i \in 1..Len(lines) \/ i = Len(lines) + 1
      BY <1>3, <1>5
    <2> QED BY <2>1, <2>2, <2>3, <1>3, <1>4
  <1>8. CASE Len(more) > Capacity
    <2>1. kept = Tail(more)
      BY <1>8 DEF KeepsNewest
    <2>2. /\ kept \in Seq(T) /\ Len(kept) = Len(more) - 1
          /\ \A i \in 1..Len(kept) : kept[i] = more[i + 1]
      BY <2>1, <1>3, HeadTailProperties
    <2> HIDE DEF kept
    <2>3. Len(kept) = Capacity /\ Len(lines) = Capacity /\ Len(kept) = Least(Capacity, Len(whole))
      BY <2>2, <1>3, <1>4, <1>5, <1>6, <1>8 DEF Least
    <2>4. ASSUME NEW i \in 1..Len(kept) PROVE kept[i] = whole[(Len(whole) - Len(kept)) + i]
      <3>1. /\ i + 1 \in 1..Len(more)
            /\ (Len(whole) - Len(more)) + (i + 1) = (Len(whole) - Len(kept)) + i
        BY <2>2, <2>3, <1>3, <1>4, <1>5
      <3>2. more[i + 1] = whole[(Len(whole) - Len(more)) + (i + 1)]
        BY <3>1, <1>7
      <3> QED BY <3>1, <3>2, <2>2
    <2>5. Newest(kept, whole)
      BY <2>2, <2>3, <2>4, <1>4 DEF Newest
    <2> QED BY <2>5 DEF kept, more, whole
  <1>9. CASE ~(Len(more) > Capacity)
    <2>1. kept = more
      BY <1>9 DEF KeepsNewest
    <2>2. Len(more) = Least(Capacity, Len(whole))
      BY <1>3, <1>4, <1>5, <1>6, <1>9 DEF Least
    <2>3. Newest(more, whole)
      BY <2>2, <1>3, <1>4, <1>7 DEF Newest
    <2> QED BY <2>1, <2>3 DEF more, whole
  <1> QED BY <1>8, <1>9

LEMMA LogInit == Init => LogInv
  <1> SUFFICES ASSUME log = <<>>, logged = <<>> PROVE Newest(log, logged)
    BY DEF Init, LogInv
  <1>1. log \in Seq({}) /\ logged \in Seq({}) /\ Len(log) = 0 /\ Len(logged) = 0
    BY EmptySeq
  <1> QED BY <1>1, ReadBounds DEF Newest, Least

LEMMA LogNext == LogInv /\ [Next]_vars => LogInv'
  <1> SUFFICES ASSUME LogInv, [Next]_vars PROVE LogInv'
    OBVIOUS
  <1>1. CASE UNCHANGED << log, logged >>
    BY <1>1 DEF LogInv, Newest
  <1>2. ASSUME NEW r, NEW q, NEW a, RecordActivity(r, q, a) PROVE LogInv'
    <2>1. CASE UNCHANGED << log, logged >>
      BY <1>1, <2>1
    <2>2. CASE ~UNCHANGED << log, logged >>
      <3>1. PICK line : log' = KeepsNewest(Append(log, line)) /\ logged' = Append(logged, line)
        BY <1>2, <2>2 DEF RecordActivity
      <3>2. Newest(KeepsNewest(Append(log, line)), Append(logged, line))
        BY RingGoesOn DEF LogInv
      <3> QED BY <3>1, <3>2 DEF LogInv
    <2> QED BY <2>1, <2>2
  <1>3. CASE \E r \in Readers : Answered(r)
    BY <1>3, <1>2 DEF Answered
  <1>4. CASE \E r \in Readers, f \in {Unreachable, NoResult} : Unanswered(r, f)
    BY <1>4, <1>2 DEF Unanswered
  <1>5. CASE \E r \in Readers :
               RefusesDepth(r) \/ \E ask \in Asks : Start(r, ask) \/ Unbooked(r, ask)
    BY <1>5, <1>1 DEF RefusesDepth, Start, Unbooked, Begins
  <1>6. CASE WorldChanges
    BY <1>6, <1>1 DEF WorldChanges
  <1>7. CASE UNCHANGED vars
    BY <1>7, <1>1 DEF vars
  <1> QED BY <1>3, <1>4, <1>5, <1>6, <1>7 DEF Next, Reads

\* The last lines are the end of what was logged.
LEMMA LogImplies == LogInv => LogIsRecent
  <1> SUFFICES ASSUME Newest(log, logged) PROVE LogIsRecent
    BY DEF LogInv
  <1>1. PICK S : log \in Seq(S) /\ logged \in Seq(S)
    BY DEF Newest
  <1>2. Len(log) \in Nat /\ Len(logged) \in Nat /\ Capacity \in Nat
    BY <1>1, LenProperties, ReadBounds
  <1>3. Len(log) = Least(Capacity, Len(logged)) /\ Len(log) <= Len(logged)
    BY <1>2 DEF Newest, Least
  <1> DEFINE first == Len(logged) - Least(Capacity, Len(logged)) + 1
             end == SubSeq(logged, first, Len(logged))
  <1>4. first = (Len(logged) - Len(log)) + 1 /\ first \in Int /\ first >= 1
    BY <1>2, <1>3
  <1> HIDE DEF first
  <1>5. \A i \in first..Len(logged) : logged[i] \in S
    BY <1>1, <1>2, <1>4, ElementOfSeq
  <1>6. /\ end \in Seq(S)
        /\ Len(end) = IF first <= Len(logged) THEN Len(logged) - first + 1 ELSE 0
        /\ \A i \in 1..Len(logged) - first + 1 : end[i] = logged[first + i - 1]
    BY <1>2, <1>4, <1>5, SubSeqProperties
  <1> HIDE DEF end
  <1>7. Len(end) = Len(log)
    BY <1>2, <1>3, <1>4, <1>6
  <1>8. ASSUME NEW i \in 1..Len(log) PROVE log[i] = end[i]
    <2>1. i \in 1..Len(logged) - first + 1 /\ first + i - 1 = (Len(logged) - Len(log)) + i
      BY <1>2, <1>3, <1>4
    <2>2. log[i] = logged[(Len(logged) - Len(log)) + i]
      BY DEF Newest
    <2> QED BY <2>1, <2>2, <1>6
  <1>9. log = end
    BY <1>1, <1>6, <1>7, <1>8, SeqEqual
  <1> QED BY <1>9 DEF LogIsRecent, end, first

\* What a surface shows was read, as MissingIsNamed says for each command, and a
\* clearance shown without a note is what the chain held; for any chain, any
\* commands at once, failures and changes in between.  The activity log is the
\* end of what was logged.  It does not say that a note tells which failure it
\* was, nor, but for the status, which chain the endpoint was on (chain.rs:
\* tenant_node, balances, recent_blocks, status, clearance, record_activity).
THEOREM WhatIsShownWasRead == Spec => []ShownAsRead
  <1>1. Init => ReadInv /\ LogInv
    BY ReadInit, LogInit
  <1>2. ReadInv /\ LogInv /\ [Next]_vars => (ReadInv /\ LogInv)'
    BY ReadNext, LogNext
  <1>3. ReadInv /\ LogInv => ShownAsRead
    BY ReadImplies, LogImplies DEF ShownAsRead
  <1> QED BY <1>1, <1>2, <1>3, PTL DEF Spec
-----------------------------------------------------------------------------
(* What several lists come to, one after the other. *)

\* A set of numbers has a least one.
LEMMA LeastNumber ==
  ASSUME NEW T \in SUBSET Nat, T # {} PROVE \E m \in T : \A n \in T : m <= n
<1>1. PICK m \in T : \A n \in T : ~(<<n, m>> \in OpToRel(<, Nat))
  BY WFMin, NatLessThanWellFounded
<1>2. \A n \in T : ~(n < m)
  BY <1>1 DEF OpToRel
<1>3. \A n \in T : n \in Nat
  OBVIOUS
<1> QED
  BY <1>2, <1>3

\* Lists one after the other, and what is used of it.
Then(a, b) == a \o b

LEMMA ThenType ==
  ASSUME NEW S, NEW a \in Seq(S), NEW b \in Seq(S) PROVE Then(a, b) \in Seq(S)
BY ConcatProperties DEF Then

LEMMA ThenNothing ==
  ASSUME NEW S, NEW a \in Seq(S) PROVE Then(a, <<>>) = a /\ Then(<<>>, a) = a
BY ConcatEmptySeq DEF Then

LEMMA ThenAssociates ==
  ASSUME NEW S, NEW a \in Seq(S), NEW b \in Seq(S), NEW c \in Seq(S)
  PROVE  Then(Then(a, b), c) = Then(a, Then(b, c))
BY ConcatAssociative DEF Then

\* The list of what the first parts come to, as the definition of Combined has it.
Partial(parts, n, list) ==
  list = [k \in 0..n |-> IF k = 0 THEN <<>> ELSE Then(list[k - 1], parts[k])]

LEMMA PartialSteps ==
  ASSUME NEW n \in Nat, NEW parts, NEW list, Partial(parts, n, list)
  PROVE  /\ list[0] = <<>>
         /\ \A k \in 1..n : list[k] = Then(list[k - 1], parts[k])
BY DEF Partial

LEMMA PartialExists ==
  ASSUME NEW n \in Nat, NEW parts
  PROVE  \E list : Partial(parts, n, list)
<1> DEFINE Without == { m \in Nat : m <= n /\ ~\E list : Partial(parts, m, list) }
<1> SUFFICES ASSUME Without # {} PROVE FALSE
  OBVIOUS
<1>0. Without \subseteq Nat
  OBVIOUS
<1>1. PICK m \in Without : \A k \in Without : m <= k
  <2> HIDE DEF Without
  <2> QED
    BY <1>0, LeastNumber
<1>2. m # 0
  <2>1. Partial(parts, 0, [k \in 0..0 |-> <<>>])
    BY DEF Partial
  <2> QED
    BY <1>1, <2>1
<1>3. m - 1 \in Nat /\ m - 1 <= n /\ m - 1 \notin Without
  BY <1>1, <1>2
<1>4. PICK list : Partial(parts, m - 1, list)
  BY <1>3
<1>5. Partial(parts, m, [k \in 0..m |-> IF k = m THEN Then(list[m - 1], parts[m]) ELSE list[k]])
  BY <1>1, <1>2, <1>4 DEF Partial
<1> QED
  BY <1>1, <1>5

LEMMA CombinedIs ==
  ASSUME NEW n \in Nat, NEW parts
  PROVE  \E list : Partial(parts, n, list) /\ Combined(parts, n) = list[n]
<1>1. Combined(parts, n) = (CHOOSE list : Partial(parts, n, list))[n]
  BY DEF Combined, Partial, Then
<1> QED
  BY <1>1, PartialExists

\* It depends on the first parts only, whatever comes after them.
Alike(p, q, n) == \A k \in 1..n : p[k] = q[k]

LEMMA PartialsAgree ==
  ASSUME NEW p, NEW q, NEW m \in Nat, NEW n \in Nat, Alike(p, q, m),
         NEW f, NEW g, Partial(p, m, f), Partial(q, n, g)
  PROVE  \A k \in 0..m : k <= n => f[k] = g[k]
<1> DEFINE Odd == { k \in Nat : k <= m /\ k <= n /\ f[k] # g[k] }
<1> SUFFICES ASSUME Odd # {} PROVE FALSE
  OBVIOUS
<1>0. Odd \subseteq Nat
  OBVIOUS
<1>1. PICK k \in Odd : \A j \in Odd : k <= j
  <2> HIDE DEF Odd
  <2> QED
    BY <1>0, LeastNumber
<1>2. k # 0
  <2>1. f[0] = <<>> /\ g[0] = <<>>
    BY PartialSteps
  <2> QED
    BY <1>1, <2>1
<1>3. k \in 1..m /\ k \in 1..n /\ k - 1 \in Nat /\ k - 1 <= m /\ k - 1 <= n /\ k - 1 \notin Odd
  BY <1>1, <1>2
<1>4. f[k - 1] = g[k - 1] /\ p[k] = q[k]
  BY <1>3 DEF Alike
<1>5. f[k] = Then(f[k - 1], p[k]) /\ g[k] = Then(g[k - 1], q[k])
  <2> HIDE DEF Odd
  <2>1. f[k] = Then(f[k - 1], p[k])
    BY <1>3, PartialSteps
  <2>2. g[k] = Then(g[k - 1], q[k])
    BY <1>3, PartialSteps
  <2> QED
    BY <2>1, <2>2
<1> QED
  BY <1>1, <1>4, <1>5

LEMMA CombinedAgrees ==
  ASSUME NEW n \in Nat, NEW p, NEW q, \A k \in 1..n : p[k] = q[k]
  PROVE  Combined(p, n) = Combined(q, n)
<1>1. PICK f : Partial(p, n, f) /\ Combined(p, n) = f[n]
  BY CombinedIs
<1>2. PICK g : Partial(q, n, g) /\ Combined(q, n) = g[n]
  BY CombinedIs
<1>3. \A k \in 0..n : k <= n => f[k] = g[k]
  <2>1. Alike(p, q, n)
    BY DEF Alike
  <2> QED
    BY <1>1, <1>2, <2>1, PartialsAgree
<1> QED
  BY <1>1, <1>2, <1>3

LEMMA CombinedSteps ==
  ASSUME NEW parts, NEW n \in Nat, NEW m \in Nat, n = m + 1
  PROVE  Combined(parts, n) = Then(Combined(parts, m), parts[n])
<1>1. PICK f : Partial(parts, n, f) /\ Combined(parts, n) = f[n]
  BY CombinedIs
<1>2. PICK g : Partial(parts, m, g) /\ Combined(parts, m) = g[m]
  BY CombinedIs
<1>3. \A k \in 0..n : k <= m => f[k] = g[k]
  <2>1. Alike(parts, parts, n)
    BY DEF Alike
  <2> QED
    BY <1>1, <1>2, <2>1, PartialsAgree
<1>4. f[m] = g[m]
  BY <1>3
<1>5. n \in 0..n /\ n # 0 /\ n - 1 = m
  OBVIOUS
<1>6. f[n] = Then(f[m], parts[n])
  <2>1. n \in 1..n
    BY <1>5
  <2> QED
    <3>1. f[n] = Then(f[n - 1], parts[n])
      BY <1>1, <2>1, PartialSteps
    <3> QED
      BY <1>5, <3>1
<1> QED
  BY <1>1, <1>2, <1>4, <1>6

LEMMA CombinedOfNone ==
  ASSUME NEW parts PROVE Combined(parts, 0) = <<>>
<1>1. PICK f : Partial(parts, 0, f) /\ Combined(parts, 0) = f[0]
  BY CombinedIs
<1> QED
  BY <1>1 DEF Partial

LEMMA CombinedType ==
  ASSUME NEW S, NEW n \in Nat, NEW parts, \A k \in 1..n : parts[k] \in Seq(S)
  PROVE  Combined(parts, n) \in Seq(S)
<1> DEFINE Odd == { k \in Nat : k <= n /\ Combined(parts, k) \notin Seq(S) }
<1> SUFFICES ASSUME Odd # {} PROVE FALSE
  OBVIOUS
<1>0. Odd \subseteq Nat
  OBVIOUS
<1>1. PICK k \in Odd : \A j \in Odd : k <= j
  <2> HIDE DEF Odd
  <2> QED
    BY <1>0, LeastNumber
<1>2. k # 0
  <2>1. Combined(parts, 0) = <<>> /\ <<>> \in Seq(S)
    BY CombinedOfNone
  <2> QED
    BY <1>1, <2>1
<1>3. PICK m \in Nat : k = m + 1 /\ m <= n /\ m \notin Odd
  <2>1. k - 1 \in Nat /\ k = (k - 1) + 1 /\ k - 1 <= n /\ k - 1 \notin Odd
    BY <1>1, <1>2
  <2> QED
    BY <2>1
<1>4. Combined(parts, m) \in Seq(S) /\ k \in 1..n /\ k \in Nat
  BY <1>1, <1>3
<1>5. Combined(parts, k) = Then(Combined(parts, m), parts[k])
  BY <1>3, <1>4, CombinedSteps
<1>6. PICK a \in Seq(S), b \in Seq(S) : a = Combined(parts, m) /\ b = parts[k]
  BY <1>4
<1>7. Combined(parts, k) \in Seq(S)
  <2>1. Then(a, b) \in Seq(S)
    BY ThenType
  <2> QED
    BY <1>5, <1>6, <2>1
<1> QED
  BY <1>1, <1>7

\* The parts of two lists, one list after the other.
Follows(S, both, p, m, q, n) ==
  /\ \A k \in 1..m : p[k] \in Seq(S) /\ both[k] = p[k]
  /\ \A k \in 1..n : q[k] \in Seq(S) /\ both[m + k] = q[k]

LEMMA CombinedJoins ==
  ASSUME NEW S, NEW m \in Nat, NEW n \in Nat, NEW p, NEW q, NEW both,
         Follows(S, both, p, m, q, n)
  PROVE  Combined(both, m + n) = Then(Combined(p, m), Combined(q, n))
<1>a. \A k \in 1..m : p[k] \in Seq(S) /\ both[k] = p[k]
  BY DEF Follows
<1>b. \A k \in 1..n : q[k] \in Seq(S) /\ both[m + k] = q[k]
  BY DEF Follows
<1> DEFINE Fit(k) == Combined(both, m + k) = Then(Combined(p, m), Combined(q, k))
           Odd == { k \in Nat : k <= n /\ ~Fit(k) }
<1> SUFFICES ASSUME Odd # {} PROVE FALSE
  <2>1. n \in Odd \/ Fit(n)
    <3> HIDE DEF Fit
    <3> QED
      OBVIOUS
  <2> QED
    BY <2>1
<1>0. Odd \subseteq Nat
  OBVIOUS
<1>1. PICK k \in Odd : \A j \in Odd : k <= j
  <2> HIDE DEF Odd
  <2> QED
    BY <1>0, LeastNumber
<1>2. Combined(p, m) \in Seq(S)
  BY <1>a, CombinedType
<1>3. k # 0
  <2>1. Combined(both, m) = Combined(p, m)
    BY <1>a, CombinedAgrees
  <2>2. Combined(q, 0) = <<>>
    BY CombinedOfNone
  <2>3. m + 0 = m
    OBVIOUS
  <2>4. Then(Combined(p, m), <<>>) = Combined(p, m)
    BY <1>2, ThenNothing
  <2>5. Fit(0)
    BY <2>1, <2>2, <2>3, <2>4
  <2> HIDE DEF Fit
  <2> QED
    BY <1>1, <2>5
<1>4. PICK j \in Nat : k = j + 1 /\ j <= n /\ j \notin Odd
  <2>1. k - 1 \in Nat /\ k = (k - 1) + 1 /\ k - 1 <= n /\ k - 1 \notin Odd
    <3> HIDE DEF Fit
    <3> QED
      BY <1>1, <1>3
  <2> QED
    BY <2>1
<1>5. Fit(j) /\ k \in 1..n /\ k \in Nat
  BY <1>1, <1>4
<1>6. PICK last, before \in Nat : last = m + k /\ before = m + j /\ last = before + 1 /\ last \in Nat
  <2>1. m + k \in Nat /\ m + j \in Nat /\ m + k = (m + j) + 1
    BY <1>4, <1>5
  <2> QED
    BY <2>1
<1>7. Combined(both, last) = Then(Combined(both, before), both[last])
  BY <1>6, CombinedSteps
<1>8. Combined(q, k) = Then(Combined(q, j), q[k])
  BY <1>4, <1>5, CombinedSteps
<1>9. Combined(q, j) \in Seq(S)
  <2>1. \A i \in 1..j : q[i] \in Seq(S)
    BY <1>4, <1>b
  <2> QED
    BY <2>1, CombinedType
<1>10. both[last] = q[k] /\ q[k] \in Seq(S)
  BY <1>b, <1>5, <1>6
<1>11. Then(Then(Combined(p, m), Combined(q, j)), q[k]) = Then(Combined(p, m), Then(Combined(q, j), q[k]))
  <2>1. PICK a \in Seq(S), b \in Seq(S), c \in Seq(S) :
          a = Combined(p, m) /\ b = Combined(q, j) /\ c = q[k]
    BY <1>2, <1>9, <1>10
  <2>2. Then(Then(a, b), c) = Then(a, Then(b, c))
    BY ThenAssociates
  <2> QED
    BY <2>1, <2>2
<1>12. Fit(k)
  BY <1>5, <1>6, <1>7, <1>8, <1>10, <1>11
<1> QED
  BY <1>1, <1>12

LEMMA CombinedOfOne ==
  ASSUME NEW S, NEW one, one[1] \in Seq(S)
  PROVE  Combined(one, 1) = one[1]
<1>1. Combined(one, 1) = Then(Combined(one, 0), one[1])
  <2>1. PICK n \in Nat : n = 1
    OBVIOUS
  <2>2. PICK m \in Nat : m = 0
    OBVIOUS
  <2> QED
    BY <2>1, <2>2, CombinedSteps
<1> QED
  BY <1>1, CombinedOfNone, ThenNothing
-----------------------------------------------------------------------------
(* The walk of the tree.  What it has listed, followed by what the open     *)
(* questions are going to add, is the tree depth first.                     *)

\* A level of the listings over the one below.
Level(tree, left, below) ==
  [id \in DOMAIN tree |->
     IF left = 0 \/ tree[id] = None THEN << None >>
     ELSE Then(<< id >>, Combined([n \in DOMAIN tree[id].kids |-> below[tree[id].kids[n]]],
                                  Len(tree[id].kids)))]
Lists(tree, n, listing) == listing = [left \in 0..n |-> Level(tree, left, listing[left - 1])]

LEMMA ListsExist ==
  ASSUME NEW n \in Nat, NEW tree
  PROVE  \E listing : Lists(tree, n, listing)
<1> DEFINE Without == { m \in Nat : m <= n /\ ~\E listing : Lists(tree, m, listing) }
<1> SUFFICES ASSUME Without # {} PROVE FALSE
  OBVIOUS
<1>0. Without \subseteq Nat
  OBVIOUS
<1>1. PICK m \in Without : \A k \in Without : m <= k
  <2> HIDE DEF Without
  <2> QED
    BY <1>0, LeastNumber
<1>2. m # 0
  <2>1. \A any : Level(tree, 0, any) = [id \in DOMAIN tree |-> << None >>]
    BY DEF Level
  <2>2. Lists(tree, 0, [left \in 0..0 |-> [id \in DOMAIN tree |-> << None >>]])
    <3> HIDE DEF Without
    <3> QED
      BY <2>1 DEF Lists
  <2> QED
    BY <1>1, <2>2
<1>3. m - 1 \in Nat /\ m - 1 <= n /\ m - 1 \notin Without
  BY <1>1, <1>2
<1>4. PICK listing : Lists(tree, m - 1, listing)
  BY <1>3
<1>5. Lists(tree, m, [left \in 0..m |-> IF left = m THEN Level(tree, m, listing[m - 1])
                                                    ELSE listing[left]])
  <2>1. m \in Nat
    BY <1>1
  <2> DEFINE longer == [left \in 0..m |-> IF left = m THEN Level(tree, m, listing[m - 1])
                                                       ELSE listing[left]]
  <2>2. \A left \in 1..m : longer[left - 1] = listing[left - 1]
    BY <2>1
  <2>3. \A left \in 0..(m - 1) : listing[left] = Level(tree, left, listing[left - 1])
    BY <1>4 DEF Lists
  <2>4. Level(tree, 0, longer[0 - 1]) = Level(tree, 0, listing[0 - 1])
    BY DEF Level
  <2>5. \A left \in 0..m : longer[left] = Level(tree, left, longer[left - 1])
    BY <1>2, <2>1, <2>2, <2>3, <2>4
  <2> QED
    BY <2>5 DEF Lists
<1> QED
  BY <1>1, <1>5

LEMMA ListingsAre ==
  ASSUME NEW tree
  PROVE  \A left \in 0..(MaxDepth + 1) :
           Listings(tree)[left] = Level(tree, left, Listings(tree)[left - 1])
<1>1. PICK n \in Nat : n = MaxDepth + 1
  BY DEF MaxDepth
<1>2. PICK listing : Lists(tree, n, listing) /\ Listings(tree) = listing
  <2>1. Listings(tree) = (CHOOSE listing : Lists(tree, n, listing))
    BY <1>1 DEF Listings, Lists, Level, Then
  <2> QED
    BY <2>1, ListsExist
<1> QED
  BY <1>1, <1>2 DEF Lists

\* A tree that may be walked: children may be asked about.
Walkable(tree) ==
  \A id \in DOMAIN tree : tree[id] # None => tree[id].kids \in Seq(DOMAIN tree)
Names(tree) == DOMAIN tree \cup {None}

\* What is listed below a tenant with so many levels left.
Under(tree, left, id) ==
  Combined([n \in DOMAIN tree[id].kids |-> Listings(tree)[left][tree[id].kids[n]]],
           Len(tree[id].kids))

LEMMA ListingOpens ==
  ASSUME NEW tree, NEW left \in 0..(MaxDepth + 1), NEW id \in DOMAIN tree
  PROVE  Listings(tree)[left][id] =
           IF left = 0 \/ tree[id] = None THEN << None >>
           ELSE Then(<< id >>, Under(tree, left - 1, id))
<1>1. PICK below : below = Listings(tree)[left - 1]
  OBVIOUS
<1>2. Listings(tree)[left] = Level(tree, left, below)
  BY <1>1, ListingsAre
<1>3. Under(tree, left - 1, id) = Combined([n \in DOMAIN tree[id].kids |-> below[tree[id].kids[n]]],
                                          Len(tree[id].kids))
  BY <1>1 DEF Under
<1>4. Level(tree, left, below)[id] =
        IF left = 0 \/ tree[id] = None THEN << None >> ELSE Then(<< id >>, Under(tree, left - 1, id))
  BY <1>3 DEF Level
<1> QED
  BY <1>2, <1>4

LEMMA ListingType ==
  ASSUME NEW tree, Walkable(tree)
  PROVE  \A left \in 0..(MaxDepth + 1) : \A id \in DOMAIN tree :
           Listings(tree)[left][id] \in Seq(Names(tree))
<1> DEFINE Fit(left) == \A id \in DOMAIN tree : Listings(tree)[left][id] \in Seq(Names(tree))
           Odd == { left \in Nat : left <= MaxDepth + 1 /\ ~Fit(left) }
<1> SUFFICES ASSUME Odd # {} PROVE FALSE
  BY DEF MaxDepth
<1>0. Odd \subseteq Nat
  OBVIOUS
<1>1. PICK left \in Odd : \A j \in Odd : left <= j
  <2> HIDE DEF Odd
  <2> QED
    BY <1>0, LeastNumber
<1>2. left \in 0..(MaxDepth + 1)
  BY <1>1 DEF MaxDepth
<1>3. PICK id \in DOMAIN tree : Listings(tree)[left][id] \notin Seq(Names(tree))
  BY <1>1
<1>4. << None >> \in Seq(Names(tree)) /\ << id >> \in Seq(Names(tree))
  BY DEF Names
<1>5. left # 0 /\ tree[id] # None
  BY <1>2, <1>3, <1>4, ListingOpens
<1>6. PICK under : under = left - 1
  OBVIOUS
<1>7. under \in Nat /\ under <= MaxDepth + 1 /\ under \notin Odd
  BY <1>1, <1>2, <1>5, <1>6 DEF MaxDepth
<1>8. Fit(under)
  BY <1>7
<1>9. PICK kids \in Seq(DOMAIN tree) : kids = tree[id].kids
  BY <1>5 DEF Walkable
<1>10. Under(tree, under, id) \in Seq(Names(tree))
  <2>1. PICK parts : parts = [n \in DOMAIN kids |-> Listings(tree)[under][kids[n]]]
    OBVIOUS
  <2>2. PICK n \in Nat : n = Len(kids) /\ DOMAIN kids = 1..n
    OBVIOUS
  <2>3. \A k \in 1..n : parts[k] \in Seq(Names(tree))
    BY <1>8, <2>1, <2>2
  <2>4. Combined(parts, n) \in Seq(Names(tree))
    BY <2>3, CombinedType
  <2> QED
    BY <1>9, <2>1, <2>2, <2>4 DEF Under
<1>11. Then(<< id >>, Under(tree, under, id)) \in Seq(Names(tree))
  BY <1>4, <1>10, ThenType
<1> QED
  BY <1>2, <1>3, <1>5, <1>6, <1>11, ListingOpens

LEMMA UnderType ==
  ASSUME NEW tree, Walkable(tree), NEW left \in 0..(MaxDepth + 1), NEW id \in DOMAIN tree,
         tree[id] # None
  PROVE  Under(tree, left, id) \in Seq(Names(tree))
<1>1. PICK kids \in Seq(DOMAIN tree) : kids = tree[id].kids
  BY DEF Walkable
<1>2. PICK parts : parts = [n \in DOMAIN kids |-> Listings(tree)[left][kids[n]]]
  OBVIOUS
<1>3. PICK n \in Nat : n = Len(kids) /\ DOMAIN kids = 1..n
  OBVIOUS
<1>4. \A k \in 1..n : parts[k] \in Seq(Names(tree))
  BY <1>2, <1>3, ListingType
<1>5. Combined(parts, n) \in Seq(Names(tree))
  BY <1>4, CombinedType
<1> QED
  BY <1>1, <1>2, <1>3, <1>5 DEF Under

\* What a walk may ask, of the tree as it is.
Walk(w) ==
  [q : {"root"}, of : {None}, depth : {0}]
    \cup [q : {"node"}, of : DOMAIN w.tree, depth : 0..(MaxDepth + 1)]
    \cup [q : {"kids"}, of : { id \in DOMAIN w.tree : w.tree[id] # None }, depth : 0..MaxDepth]

\* What the answer to a question, and to all it leads to, adds to the rows.
Promised(w, q) ==
  IF q.q = "root" THEN Listings(w.tree)[MaxDepth + 1][w.root]
  ELSE IF q.q = "node" THEN Listings(w.tree)[MaxDepth + 1 - q.depth][q.of]
  ELSE Under(w.tree, MaxDepth - q.depth, q.of)
Owed(w, todo) == Combined([n \in DOMAIN todo |-> Promised(w, todo[n])], Len(todo))
RowOf(q) == IF q.q = "node" THEN << q.of >> ELSE <<>>

Rooted(w) == Walkable(w.tree) /\ w.root \in DOMAIN w.tree /\ w.root # None

LEMMA PromisedType ==
  ASSUME NEW w, Rooted(w), NEW q \in Walk(w)
  PROVE  Promised(w, q) \in Seq(Names(w.tree))
<1>1. CASE q.q = "root"
  <2>1. MaxDepth + 1 \in 0..(MaxDepth + 1)
    BY DEF MaxDepth
  <2> QED
    BY <1>1, <2>1, ListingType DEF Promised, Rooted
<1>2. CASE q.q = "node"
  <2>1. MaxDepth + 1 - q.depth \in 0..(MaxDepth + 1) /\ q.of \in DOMAIN w.tree
    BY <1>2 DEF MaxDepth, Walk
  <2> QED
    BY <1>2, <2>1, ListingType DEF Promised, Rooted
<1>3. CASE q.q = "kids"
  <2>1. MaxDepth - q.depth \in 0..(MaxDepth + 1) /\ q.of \in DOMAIN w.tree /\ w.tree[q.of] # None
    BY <1>3 DEF MaxDepth, Walk
  <2> QED
    BY <1>3, <2>1, UnderType DEF Promised, Rooted
<1> QED
  BY <1>1, <1>2, <1>3 DEF Walk

LEMMA OwedType ==
  ASSUME NEW w, Rooted(w), NEW todo \in Seq(Walk(w))
  PROVE  Owed(w, todo) \in Seq(Names(w.tree))
<1>1. PICK n \in Nat : n = Len(todo) /\ DOMAIN todo = 1..n
  OBVIOUS
<1>2. PICK parts : parts = [k \in DOMAIN todo |-> Promised(w, todo[k])]
  OBVIOUS
<1>3. \A k \in 1..n : parts[k] \in Seq(Names(w.tree))
  BY <1>1, <1>2, PromisedType
<1>4. Combined(parts, n) \in Seq(Names(w.tree))
  BY <1>3, CombinedType
<1> QED
  BY <1>1, <1>2, <1>4 DEF Owed

LEMMA OwedJoins ==
  ASSUME NEW w, Rooted(w), NEW a \in Seq(Walk(w)), NEW b \in Seq(Walk(w))
  PROVE  Owed(w, a \o b) = Then(Owed(w, a), Owed(w, b))
<1>1. PICK m \in Nat, n \in Nat : m = Len(a) /\ n = Len(b)
  OBVIOUS
<1>2. PICK both : both = a \o b
  OBVIOUS
<1>3. /\ Len(both) = m + n /\ DOMAIN both = 1..(m + n)
      /\ \A k \in 1..m : both[k] = a[k]
      /\ \A k \in 1..n : both[m + k] = b[k]
  BY <1>1, <1>2
<1>4. PICK p : p = [k \in DOMAIN a |-> Promised(w, a[k])]
  OBVIOUS
<1>5. PICK q : q = [k \in DOMAIN b |-> Promised(w, b[k])]
  OBVIOUS
<1>6. PICK all : all = [k \in DOMAIN both |-> Promised(w, both[k])]
  OBVIOUS
<1>7. \A k \in 1..m : p[k] \in Seq(Names(w.tree)) /\ all[k] = p[k]
  <2> SUFFICES ASSUME NEW k \in 1..m PROVE p[k] \in Seq(Names(w.tree)) /\ all[k] = p[k]
    OBVIOUS
  <2>1. a[k] \in Walk(w) /\ k \in DOMAIN a /\ k \in DOMAIN both
    BY <1>1, <1>3
  <2> QED
    BY <1>3, <1>4, <1>6, <2>1, PromisedType
<1>8. \A k \in 1..n : q[k] \in Seq(Names(w.tree)) /\ all[m + k] = q[k]
  <2> SUFFICES ASSUME NEW k \in 1..n PROVE q[k] \in Seq(Names(w.tree)) /\ all[m + k] = q[k]
    OBVIOUS
  <2>1. b[k] \in Walk(w) /\ k \in DOMAIN b /\ m + k \in DOMAIN both
    BY <1>1, <1>3
  <2> QED
    BY <1>3, <1>5, <1>6, <2>1, PromisedType
<1>9. Combined(all, m + n) = Then(Combined(p, m), Combined(q, n))
  <2>1. Follows(Names(w.tree), all, p, m, q, n)
    BY <1>7, <1>8 DEF Follows
  <2> QED
    BY <2>1, CombinedJoins
<1>10. Owed(w, both) = Combined(all, m + n)
  BY <1>3, <1>6 DEF Owed
<1>11. Owed(w, a) = Combined(p, m) /\ Owed(w, b) = Combined(q, n)
  BY <1>1, <1>4, <1>5 DEF Owed
<1> QED
  BY <1>2, <1>9, <1>10, <1>11

LEMMA OwedOfOne ==
  ASSUME NEW w, Rooted(w), NEW q \in Walk(w)
  PROVE  Owed(w, << q >>) = Promised(w, q)
<1>1. PICK one : one = << q >>
  OBVIOUS
<1>2. Len(one) = 1 /\ DOMAIN one = 1..1 /\ one[1] = q
  BY <1>1
<1>3. PICK parts : parts = [k \in DOMAIN one |-> Promised(w, one[k])]
  OBVIOUS
<1>4. parts[1] = Promised(w, q)
  BY <1>2, <1>3
<1>5. Combined(parts, 1) = parts[1]
  BY <1>4, PromisedType, CombinedOfOne
<1>6. Owed(w, one) = Combined(parts, 1)
  BY <1>2, <1>3 DEF Owed
<1> QED
  BY <1>1, <1>4, <1>5, <1>6

LEMMA ListOfOne ==
  ASSUME NEW S, NEW x \in S PROVE << x >> \in Seq(S)
OBVIOUS

LEMMA Headed ==
  ASSUME NEW S, NEW s \in Seq(S), s # <<>>
  PROVE  Head(s) \in S /\ Tail(s) \in Seq(S) /\ s = << Head(s) >> \o Tail(s)
BY HeadTailProperties

LEMMA OwedHead ==
  ASSUME NEW w, Rooted(w), NEW todo \in Seq(Walk(w)), todo # <<>>
  PROVE  /\ Head(todo) \in Walk(w) /\ Tail(todo) \in Seq(Walk(w))
         /\ Owed(w, todo) = Then(Promised(w, Head(todo)), Owed(w, Tail(todo)))
<1>1. PICK q \in Walk(w), rest \in Seq(Walk(w)) : q = Head(todo) /\ rest = Tail(todo)
                                                   /\ todo = << q >> \o rest
  BY Headed
<1>2. << q >> \in Seq(Walk(w))
  OBVIOUS
<1>3. todo = << q >> \o rest
  BY <1>1
<1>4. Owed(w, << q >> \o rest) = Then(Owed(w, << q >>), Owed(w, rest))
  BY <1>2, OwedJoins
<1> QED
  BY <1>1, <1>3, <1>4, OwedOfOne

LEMMA RowsGrow ==
  ASSUME NEW S, NEW got \in Seq(S), NEW e
  PROVE  Rows(Append(got, e)) = Then(Rows(got), RowOf(e.q))
<1>1. PICK m \in Nat : m = Len(got)
  OBVIOUS
<1>2. PICK n \in Nat : n = m + 1
  OBVIOUS
<1>3. PICK more : more = Append(got, e)
  OBVIOUS
<1>4. /\ DOMAIN got = 1..m /\ Len(more) = n /\ DOMAIN more = 1..n
      /\ \A k \in 1..m : more[k] = got[k]
      /\ more[n] = e
  BY <1>1, <1>2, <1>3
<1>5. PICK p : p = [k \in DOMAIN got |-> IF got[k].q.q = "node" THEN << got[k].q.of >> ELSE <<>>]
  OBVIOUS
<1>6. PICK q : q = [k \in DOMAIN more |-> IF more[k].q.q = "node" THEN << more[k].q.of >> ELSE <<>>]
  OBVIOUS
<1>7. \A k \in 1..m : p[k] = q[k]
  BY <1>2, <1>4, <1>5, <1>6
<1>8. q[n] = RowOf(e.q)
  <2>1. n \in DOMAIN more
    BY <1>2, <1>4
  <2> QED
    BY <1>4, <1>6, <2>1 DEF RowOf
<1>9. Rows(got) = Combined(p, m) /\ Rows(more) = Combined(q, n)
  BY <1>1, <1>4, <1>5, <1>6 DEF Rows
<1>10. Combined(p, m) = Combined(q, m)
  BY <1>7, CombinedAgrees
<1>11. Combined(q, n) = Then(Combined(q, m), q[n])
  BY <1>2, CombinedSteps
<1> QED
  BY <1>3, <1>8, <1>9, <1>10, <1>11

LEMMA RowType ==
  ASSUME NEW w, NEW q \in Walk(w)
  PROVE  RowOf(q) \in Seq(Names(w.tree))
<1>1. q.q = "node" => q.of \in Names(w.tree)
  BY DEF Walk, Names
<1>2. CASE q.q = "node"
  <2>1. << q.of >> \in Seq(Names(w.tree))
    BY <1>1, <1>2
  <2> QED
    BY <1>2, <2>1 DEF RowOf
<1>3. CASE q.q # "node"
  BY <1>3 DEF RowOf
<1> QED
  BY <1>2, <1>3

\* An answer to a walk leads to questions that add what its question promised.
LEMMA AnswerKeepsPromise ==
  ASSUME Rooted(world), NEW q \in Walk(world), ~TooDeep(q), NEW arg,
         NEW a, a = Holds(q), a \notin Failures,
         NEW next, next = FollowUps("tenancy", arg, q, a)
  PROVE  /\ next \in Seq(Walk(world))
         /\ Promised(world, q) = Then(RowOf(q), Owed(world, next))
<1>1. CASE q.q = "root"
  <2>1. a = world.root
    BY <1>1 DEF Holds
  <2>2. PICK node : node = NodeAt(world.root, 0)
    OBVIOUS
  <2>3. next = << node >>
    BY <1>1, <2>1, <2>2 DEF FollowUps, Rooted
  <2>4. node \in Walk(world) /\ node.q = "node" /\ node.depth = 0 /\ node.of = world.root
    BY <2>2 DEF NodeAt, Question, Walk, Rooted, MaxDepth
  <2>5. Owed(world, next) = Promised(world, node)
    BY <2>3, <2>4, OwedOfOne
  <2>6. Promised(world, node) = Promised(world, q)
    BY <1>1, <2>4 DEF Promised, MaxDepth
  <2>7. Promised(world, q) \in Seq(Names(world.tree))
    BY PromisedType
  <2>8. RowOf(q) = <<>>
    BY <1>1 DEF RowOf
  <2>9. next \in Seq(Walk(world))
    BY <2>3, <2>4, ListOfOne
  <2> QED
    BY <2>5, <2>6, <2>7, <2>8, <2>9, ThenNothing
<1>2. CASE q.q = "node"
  <2>1. q.of \in DOMAIN world.tree /\ q.depth \in 0..(MaxDepth + 1)
    BY <1>2 DEF Walk
  <2>2. world.tree[q.of] # None
    BY <1>2 DEF Holds, NoSuch, Failures
  <2>3. q.depth \in 0..MaxDepth
    BY <1>2, <2>1 DEF TooDeep, MaxDepth
  <2>4. PICK kids : kids = Question("kids", q.of, q.depth)
    OBVIOUS
  <2>5. next = << kids >>
    BY <1>2, <2>4 DEF FollowUps
  <2>6. /\ kids \in Walk(world)
        /\ kids.q = "kids" /\ kids.depth = q.depth /\ kids.of = q.of
    BY <2>1, <2>2, <2>3, <2>4 DEF Question, Walk
  <2>7. Owed(world, next) = Under(world.tree, MaxDepth - q.depth, q.of)
    <3>1. Owed(world, next) = Promised(world, kids)
      BY <2>5, <2>6, OwedOfOne
    <3> QED
      BY <2>6, <3>1 DEF Promised
  <2>8. PICK left \in 0..(MaxDepth + 1) :
          left = MaxDepth + 1 - q.depth /\ left # 0 /\ left - 1 = MaxDepth - q.depth
    BY <2>3 DEF MaxDepth
  <2>9. Promised(world, q) = Then(<< q.of >>, Under(world.tree, left - 1, q.of))
    <3>1. Promised(world, q) = Listings(world.tree)[left][q.of]
      BY <1>2, <2>8 DEF Promised
    <3> QED
      BY <2>1, <2>2, <2>8, <3>1, ListingOpens
  <2>10. RowOf(q) = << q.of >>
    BY <1>2 DEF RowOf
  <2>11. next \in Seq(Walk(world))
    BY <2>5, <2>6, ListOfOne
  <2> QED
    BY <2>7, <2>8, <2>9, <2>10, <2>11
<1>3. CASE q.q = "kids"
  <2>1. q.of \in DOMAIN world.tree /\ q.depth \in 0..MaxDepth /\ world.tree[q.of] # None
    BY <1>3 DEF Walk
  <2>2. PICK kids \in Seq(DOMAIN world.tree) : kids = world.tree[q.of].kids
    BY <2>1 DEF Rooted, Walkable
  <2>3. a = kids
    BY <1>3, <2>1, <2>2 DEF Holds, NoSuch, Failures
  <2>4. PICK n \in Nat : n = Len(kids) /\ DOMAIN kids = 1..n
    OBVIOUS
  <2>5. next = [k \in 1..n |-> NodeAt(kids[k], q.depth + 1)]
    BY <1>3, <2>3, <2>4 DEF FollowUps
  <2>6. \A k \in 1..n : /\ next[k] \in Walk(world)
                        /\ next[k].q = "node" /\ next[k].of = kids[k]
                        /\ next[k].depth = q.depth + 1
    BY <2>1, <2>4, <2>5 DEF NodeAt, Question, Walk, MaxDepth
  <2>7. next \in Seq(Walk(world)) /\ Len(next) = n /\ DOMAIN next = 1..n
    BY <2>5, <2>6
  <2>8. PICK p : p = [k \in DOMAIN next |-> Promised(world, next[k])]
    OBVIOUS
  <2>9. PICK left : left = MaxDepth - q.depth
    OBVIOUS
  <2>10. PICK below : below = [k \in DOMAIN kids |-> Listings(world.tree)[left][kids[k]]]
    OBVIOUS
  <2>11. \A k \in 1..n : p[k] = below[k]
    <3> SUFFICES ASSUME NEW k \in 1..n PROVE p[k] = below[k]
      OBVIOUS
    <3>1. MaxDepth + 1 - next[k].depth = left
      BY <2>1, <2>6, <2>9 DEF MaxDepth
    <3>2. Promised(world, next[k]) = Listings(world.tree)[left][kids[k]]
      BY <2>6, <3>1 DEF Promised
    <3> QED
      BY <2>4, <2>7, <2>8, <2>10, <3>2
  <2>12. Owed(world, next) = Combined(p, n)
    BY <2>7, <2>8 DEF Owed
  <2>13. Under(world.tree, left, q.of) = Combined(below, n)
    BY <2>2, <2>4, <2>10 DEF Under
  <2>14. Combined(p, n) = Combined(below, n)
    BY <2>11, CombinedAgrees
  <2>15. Promised(world, q) = Under(world.tree, left, q.of)
    BY <1>3, <2>9 DEF Promised
  <2>16. RowOf(q) = <<>> /\ Promised(world, q) \in Seq(Names(world.tree))
    BY <1>3, PromisedType DEF RowOf
  <2> QED
    BY <2>7, <2>12, <2>13, <2>14, <2>15, <2>16, ThenNothing
<1> QED
  BY <1>1, <1>2, <1>3 DEF Walk

\* A walk under way: the rows it has, and those it owes, are the tree.
Whole(t, w) ==
  /\ t.todo \in Seq(Walk(w)) /\ \A n \in DOMAIN t.got : t.got[n].q \in Walk(w)
  /\ t.state = IF t.todo = <<>> THEN "done" ELSE "asking"
  /\ Then(Rows(t.got), Owed(w, t.todo)) = Listings(w.tree)[MaxDepth + 1][w.root]

\* It is whole as long as the chain is what it was when the walk began.
Walks(t) == t.cmd = "tenancy" /\ t.state \in {"asking", "done"}
TreeInv ==
  /\ DOMAIN task = Readers /\ world \in Worlds /\ changes \in Nat
  /\ \A r \in Readers :
       /\ task[r].since \in Nat /\ task[r].since <= changes
       /\ \E S : task[r].got \in Seq(S)
       /\ \A n \in DOMAIN task[r].got : ~TooDeep(task[r].got[n].q)
       /\ Walks(task[r]) /\ task[r].since = changes /\ world.root # None => Whole(task[r], world)

LEMMA RowsType ==
  ASSUME NEW w, NEW S, NEW got \in Seq(S), \A n \in DOMAIN got : got[n].q \in Walk(w)
  PROVE  Rows(got) \in Seq(Names(w.tree))
<1>1. PICK n \in Nat : n = Len(got) /\ DOMAIN got = 1..n
  OBVIOUS
<1>2. PICK p : p = [k \in DOMAIN got |-> IF got[k].q.q = "node" THEN << got[k].q.of >> ELSE <<>>]
  OBVIOUS
<1>3. \A k \in 1..n : p[k] = RowOf(got[k].q)
  BY <1>1, <1>2 DEF RowOf
<1>4. \A k \in 1..n : p[k] \in Seq(Names(w.tree))
  BY <1>1, <1>3, RowType
<1>5. Combined(p, n) \in Seq(Names(w.tree))
  BY <1>4, CombinedType
<1> QED
  BY <1>1, <1>2, <1>5 DEF Rows

Longer(more, s, e) == more = Append(s, e)

LEMMA AppendsOne ==
  ASSUME NEW S, NEW s \in Seq(S), NEW e, NEW more, Longer(more, s, e)
  PROVE  /\ \E T : more \in Seq(T)
         /\ DOMAIN more = 1..(Len(s) + 1) /\ DOMAIN s = 1..Len(s) /\ Len(s) \in Nat
         /\ \A n \in 1..Len(s) : more[n] = s[n]
         /\ more[Len(s) + 1] = e
<1>1. s \in Seq(S \cup {e})
  OBVIOUS
<1>2. more \in Seq(S \cup {e})
  BY <1>1 DEF Longer
<1> QED
  BY <1>2 DEF Longer

\* The question in hand answered: the walk is as whole as it was.
LEMMA WalkHears ==
  ASSUME Rooted(world), NEW t, NEW S, t.got \in Seq(S), Whole(t, world), t.state = "asking",
         NEW q, q = Head(t.todo), ~TooDeep(q), NEW a, a = Holds(q), a \notin Failures,
         NEW next, next = FollowUps("tenancy", t.arg, q, a),
         NEW todo, todo = DepthFirst(next, Tail(t.todo)),
         NEW e, e.q = q,
         NEW u, u = Progress(t, todo, Append(t.got, e), IF todo = <<>> THEN "done" ELSE "asking")
  PROVE  Whole(u, world)
<1>1. t.todo \in Seq(Walk(world)) /\ t.todo # <<>>
  BY DEF Whole
<1>2. PICK rest : rest = Tail(t.todo)
  OBVIOUS
<1>3. /\ q \in Walk(world) /\ rest \in Seq(Walk(world))
      /\ Owed(world, t.todo) = Then(Promised(world, q), Owed(world, rest))
  BY <1>1, <1>2, OwedHead
<1>4. next \in Seq(Walk(world)) /\ Promised(world, q) = Then(RowOf(q), Owed(world, next))
  BY <1>3, AnswerKeepsPromise
<1>5. todo = next \o rest /\ todo \in Seq(Walk(world))
  <2>1. todo = next \o rest
    BY <1>2 DEF DepthFirst
  <2> QED
    BY <1>3, <1>4, <2>1, ConcatProperties
<1>6. Owed(world, todo) = Then(Owed(world, next), Owed(world, rest))
  BY <1>3, <1>4, <1>5, OwedJoins
<1>7. PICK got : got = Append(t.got, e)
  OBVIOUS
<1>8. Rows(got) = Then(Rows(t.got), RowOf(q))
  BY <1>7, RowsGrow
<1>9. /\ Rows(t.got) \in Seq(Names(world.tree)) /\ RowOf(q) \in Seq(Names(world.tree))
      /\ Owed(world, next) \in Seq(Names(world.tree)) /\ Owed(world, rest) \in Seq(Names(world.tree))
      /\ Owed(world, todo) \in Seq(Names(world.tree))
  <2>1. Rows(t.got) \in Seq(Names(world.tree))
    BY RowsType DEF Whole
  <2>2. RowOf(q) \in Seq(Names(world.tree))
    BY <1>3, RowType
  <2> QED
    BY <1>3, <1>4, <1>5, <2>1, <2>2, OwedType
<1>10. PICK rows, row, new, old :
         rows = Rows(t.got) /\ row = RowOf(q) /\ new = Owed(world, next) /\ old = Owed(world, rest)
  OBVIOUS
<1>11. Then(Then(rows, row), Then(new, old)) = Then(rows, Then(Then(row, new), old))
  <2>1. /\ rows \in Seq(Names(world.tree)) /\ row \in Seq(Names(world.tree))
        /\ new \in Seq(Names(world.tree)) /\ old \in Seq(Names(world.tree))
    BY <1>9, <1>10
  <2>2. Then(new, old) \in Seq(Names(world.tree))
    BY <2>1, ThenType
  <2>3. Then(Then(rows, row), Then(new, old)) = Then(rows, Then(row, Then(new, old)))
    BY <2>1, <2>2, ThenAssociates
  <2>4. Then(Then(row, new), old) = Then(row, Then(new, old))
    BY <2>1, ThenAssociates
  <2> QED
    BY <2>3, <2>4
<1>12. Then(Rows(got), Owed(world, todo)) = Then(Rows(t.got), Owed(world, t.todo))
  BY <1>3, <1>4, <1>6, <1>8, <1>10, <1>11
<1>13. \A n \in DOMAIN got : got[n].q \in Walk(world)
  <2>1. /\ DOMAIN got = 1..(Len(t.got) + 1) /\ DOMAIN t.got = 1..Len(t.got) /\ Len(t.got) \in Nat
        /\ \A n \in 1..Len(t.got) : got[n] = t.got[n]
        /\ got[Len(t.got) + 1] = e
    BY <1>7, AppendsOne DEF Longer
  <2>2. \A n \in 1..Len(t.got) : t.got[n].q \in Walk(world)
    BY <2>1 DEF Whole
  <2>3. \A n \in 1..(Len(t.got) + 1) : n \in 1..Len(t.got) \/ n = Len(t.got) + 1
    BY <2>1
  <2> QED
    BY <1>3, <2>1, <2>2, <2>3
<1>14. /\ u.todo = todo /\ u.got = got
       /\ u.state = IF todo = <<>> THEN "done" ELSE "asking"
  BY <1>7 DEF Progress
<1> QED
  BY <1>5, <1>12, <1>13, <1>14 DEF Whole

\* A walk that is asked for owes the whole tree.
LEMMA WalkBegins ==
  ASSUME Rooted(world), NEW t, t.got = <<>>, t.todo = << Plain("root") >>, t.state = "asking"
  PROVE  Whole(t, world)
<1>1. PICK q : q = Plain("root")
  OBVIOUS
<1>2. q \in Walk(world) /\ q.q = "root"
  BY <1>1 DEF Plain, Question, Walk
<1>3. t.todo \in Seq(Walk(world)) /\ t.todo # <<>>
  BY <1>1, <1>2, ListOfOne
<1>4. Owed(world, t.todo) = Promised(world, q)
  BY <1>1, <1>2, OwedOfOne
<1>5. Promised(world, q) = Listings(world.tree)[MaxDepth + 1][world.root]
  BY <1>2 DEF Promised
<1>6. Rows(t.got) = <<>>
  <2>1. Len(t.got) = 0
    OBVIOUS
  <2> QED
    BY <2>1, CombinedOfNone DEF Rows
<1>7. Promised(world, q) \in Seq(Names(world.tree))
  BY <1>2, PromisedType
<1>8. Then(Rows(t.got), Owed(world, t.todo)) = Listings(world.tree)[MaxDepth + 1][world.root]
  BY <1>4, <1>5, <1>6, <1>7, ThenNothing
<1>9. \A n \in DOMAIN t.got : t.got[n].q \in Walk(world)
  OBVIOUS
<1> QED
  BY <1>3, <1>8, <1>9 DEF Whole

LEMMA WorldIsRooted ==
  ASSUME world \in Worlds, world.root # None PROVE Rooted(world)
BY TreeKinds DEF Rooted, Walkable

LEMMA TreeStarts ==
  ASSUME TreeInv, NEW r \in Readers, NEW ask \in Asks, Start(r, ask)
  PROVE  TreeInv'
<1> DEFINE new == [cmd |-> ask[1], arg |-> ask[2], since |-> changes,
                   todo |-> FirstQuestions(ask[1], ask[2]), got |-> <<>>, state |-> "asking"]
<1>1. task' = [task EXCEPT ![r] = new] /\ world' = world /\ changes' = changes
  BY DEF Start, Begins
<1>2. DOMAIN task' = Readers /\ \A s \in Readers : task'[s] = IF s = r THEN new ELSE task[s]
  BY <1>1 DEF TreeInv
<1>3. /\ new.since = changes /\ new.got = <<>> /\ DOMAIN new.got = {}
      /\ new.got \in Seq({})
  OBVIOUS
<1>4. Walks(new) /\ world.root # None => Whole(new, world)
  <2> SUFFICES ASSUME Walks(new), world.root # None PROVE Whole(new, world)
    OBVIOUS
  <2>1. new.cmd = "tenancy" /\ new.state = "asking"
    BY DEF Walks
  <2>2. new.todo = << Plain("root") >>
    BY <2>1 DEF FirstQuestions
  <2>3. Rooted(world)
    BY WorldIsRooted DEF TreeInv
  <2> HIDE DEF new
  <2> QED
    BY <1>3, <2>1, <2>2, <2>3, WalkBegins
<1> HIDE DEF new
<1>5. world' \in Worlds /\ changes' \in Nat
  BY <1>1 DEF TreeInv
<1>6. ASSUME NEW s \in Readers
      PROVE  /\ task'[s].since \in Nat /\ task'[s].since <= changes'
             /\ \E S : task'[s].got \in Seq(S)
             /\ \A n \in DOMAIN task'[s].got : ~TooDeep(task'[s].got[n].q)
             /\ Walks(task'[s]) /\ task'[s].since = changes' /\ world'.root # None
                  => Whole(task'[s], world')
  <2>1. CASE s = r
    <3>1. task'[s] = new
      BY <1>2, <2>1
    <3>2. new.since \in Nat /\ new.since <= changes
      BY <1>3 DEF TreeInv
    <3> QED
      BY <1>1, <1>3, <1>4, <3>1, <3>2
  <2>2. CASE s # r
    <3>1. task'[s] = task[s]
      BY <1>2, <2>2
    <3> QED
      BY <1>1, <3>1 DEF TreeInv
  <2> QED
    BY <2>1, <2>2
<1> QED
  BY <1>2, <1>5, <1>6 DEF TreeInv

LEMMA TreeHears ==
  ASSUME TreeInv, NEW r \in Readers, NEW q, q = Head(task[r].todo),
         NEW a, a = Holds(q) \/ a \in {Unreachable, NoResult},
         task[r].state = "asking", ~TooDeep(q), Hears(r, q, a),
         world' = world, changes' = changes
  PROVE  TreeInv'
<1> DEFINE t == task[r]
           next == IF a \in Failures THEN <<>> ELSE FollowUps(t.cmd, t.arg, q, a)
           todo == DepthFirst(next, Tail(t.todo))
           e == [q |-> q, a |-> a, was |-> Holds(q)]
           on == Progress(t, todo, Append(t.got, e), IF todo = <<>> THEN "done" ELSE "asking")
           u == IF GoesOn(t.cmd, q, a) THEN on ELSE Fails(t)
<1>1. task' = [task EXCEPT ![r] = u]
  BY DEF Hears
<1>2. DOMAIN task' = Readers /\ \A s \in Readers : task'[s] = IF s = r THEN u ELSE task[s]
  BY <1>1 DEF TreeInv
<1>3. u.since = t.since /\ u.cmd = t.cmd
  BY DEF Progress, Fails
<1>4. PICK S : t.got \in Seq(S)
  BY DEF TreeInv
<1>5. /\ \E T : u.got \in Seq(T)
      /\ \A n \in DOMAIN u.got : ~TooDeep(u.got[n].q)
  <2>1. CASE u = Fails(t)
    <3>1. u.got = t.got
      BY <2>1 DEF Fails, Progress
    <3> HIDE DEF u, t
    <3>2. \A n \in DOMAIN t.got : ~TooDeep(t.got[n].q)
      BY DEF TreeInv, t
    <3> QED
      BY <1>4, <3>1, <3>2
  <2>2. CASE u = on
    <3>1. PICK got : got = Append(t.got, e)
      OBVIOUS
    <3>2. u.got = got /\ e.q = q
      BY <2>2, <3>1 DEF Progress
    <3> HIDE DEF u, e
    <3>a. PICK old \in Seq(S) : old = t.got
      BY <1>4
    <3>b. PICK entry : entry = e
      OBVIOUS
    <3>c. Longer(got, old, entry)
      BY <3>1, <3>a, <3>b DEF Longer
    <3>3. /\ \E T : got \in Seq(T)
          /\ DOMAIN got = 1..(Len(old) + 1) /\ DOMAIN old = 1..Len(old) /\ Len(old) \in Nat
          /\ \A n \in 1..Len(old) : got[n] = old[n]
          /\ got[Len(old) + 1] = entry
      BY <3>c, AppendsOne
    <3>4. \A n \in 1..Len(old) : ~TooDeep(old[n].q)
      BY <3>3, <3>a DEF TreeInv
    <3> HIDE DEF t
    <3>5. \A n \in 1..(Len(old) + 1) : n \in 1..Len(old) \/ n = Len(old) + 1
      BY <3>3
    <3> QED
      BY <3>2, <3>3, <3>4, <3>5, <3>b
  <2> QED
    BY <2>1, <2>2
<1>6. Walks(u) /\ u.since = changes /\ world.root # None => Whole(u, world)
  <2> SUFFICES ASSUME Walks(u), u.since = changes, world.root # None PROVE Whole(u, world)
    OBVIOUS
  <2>1. t.cmd = "tenancy" /\ u = on /\ GoesOn("tenancy", q, a)
    BY DEF Walks, Fails, Progress
  <2>2. Rooted(world)
    BY WorldIsRooted DEF TreeInv
  <2>3. Whole(t, world)
    BY <1>3, <2>1 DEF TreeInv, Walks
  <2>4. q \in Walk(world)
    <3>1. t.todo \in Seq(Walk(world)) /\ t.todo # <<>>
      BY <2>3 DEF Whole
    <3> QED
      BY <2>2, <3>1, OwedHead
  <2>5. q.q # "extra"
    BY <2>4 DEF Walk
  <2>6. a \notin Failures /\ a = Holds(q)
    BY <2>1, <2>5 DEF GoesOn, Tolerates, Failures
  <2>7. next = FollowUps("tenancy", t.arg, q, a) /\ e.q = q
    BY <2>1, <2>6
  <2>8. PICK rest, lines, entry : rest = next /\ lines = todo /\ entry = e
    OBVIOUS
  <2>9. /\ rest = FollowUps("tenancy", t.arg, q, a) /\ lines = DepthFirst(rest, Tail(t.todo))
        /\ entry.q = q
        /\ u = Progress(t, lines, Append(t.got, entry), IF lines = <<>> THEN "done" ELSE "asking")
    BY <2>1, <2>7, <2>8
  <2>10. PICK was : was = t
    OBVIOUS
  <2> HIDE DEF u, on, todo, next, e, t
  <2>11. was.state = "asking"
    BY <2>10 DEF t
  <2>12. q = Head(was.todo)
    BY <2>10 DEF t
  <2> QED
    BY <1>4, <2>2, <2>3, <2>6, <2>9, <2>10, <2>11, <2>12, WalkHears
<1> HIDE DEF u
<1>7. t.since \in Nat /\ t.since <= changes
  BY DEF TreeInv
<1> HIDE DEF t
<1> QED
  BY <1>2, <1>3, <1>5, <1>6, <1>7 DEF TreeInv

LEMMA TreeRefuses ==
  ASSUME TreeInv, NEW r \in Readers, RefusesDepth(r)
  PROVE  TreeInv'
<1> DEFINE u == Fails(task[r])
<1>1. task' = [task EXCEPT ![r] = u] /\ world' = world /\ changes' = changes
  BY DEF RefusesDepth
<1>2. DOMAIN task' = Readers /\ \A s \in Readers : task'[s] = IF s = r THEN u ELSE task[s]
  BY <1>1 DEF TreeInv
<1>3. u.since = task[r].since /\ u.got = task[r].got /\ ~Walks(u)
  BY DEF Fails, Progress, Walks
<1> HIDE DEF u
<1> QED
  BY <1>1, <1>2, <1>3 DEF TreeInv

LEMMA TreeUnasked ==
  ASSUME TreeInv, NEW r \in Readers, NEW ask \in Asks, Unbooked(r, ask)
  PROVE  TreeInv'
<1>1. PICK new : /\ task' = [task EXCEPT ![r] = new] /\ new.since = changes /\ new.got = <<>>
                 /\ new.state \notin {"asking", "done"} /\ world' = world /\ changes' = changes
  BY EndsUnasked
<1>2. DOMAIN task' = Readers /\ \A s \in Readers : task'[s] = IF s = r THEN new ELSE task[s]
  BY <1>1 DEF TreeInv
<1>3. ~Walks(new) /\ DOMAIN new.got = {} /\ new.got \in Seq({})
  BY <1>1 DEF Walks
<1>4. new.since \in Nat /\ new.since <= changes
  BY <1>1 DEF TreeInv
<1> QED
  BY <1>1, <1>2, <1>3, <1>4 DEF TreeInv

LEMMA TreeNext == TreeInv /\ [Next]_vars => TreeInv'
<1> SUFFICES ASSUME TreeInv, [Next]_vars PROVE TreeInv'
  OBVIOUS
<1>1. ASSUME NEW r \in Readers, NEW ask \in Asks, Start(r, ask) PROVE TreeInv'
  BY <1>1, TreeStarts
<1>2. ASSUME NEW r \in Readers, Answered(r) PROVE TreeInv'
  <2>1. PICK q : q = Head(task[r].todo)
    OBVIOUS
  <2>2. PICK a : a = Holds(q)
    OBVIOUS
  <2>3. /\ task[r].state = "asking" /\ ~TooDeep(q) /\ Hears(r, q, a)
        /\ world' = world /\ changes' = changes
    BY <1>2, <2>1, <2>2 DEF Answered
  <2> QED
    BY <2>1, <2>2, <2>3, TreeHears
<1>3. ASSUME NEW r \in Readers, NEW f \in {Unreachable, NoResult}, Unanswered(r, f) PROVE TreeInv'
  <2>1. PICK q : q = Head(task[r].todo)
    OBVIOUS
  <2>2. /\ task[r].state = "asking" /\ ~TooDeep(q) /\ Hears(r, q, f)
        /\ world' = world /\ changes' = changes
    BY <1>3, <2>1 DEF Unanswered
  <2> QED
    BY <2>1, <2>2, TreeHears
<1>4. ASSUME NEW r \in Readers, RefusesDepth(r) PROVE TreeInv'
  BY <1>4, TreeRefuses
<1>5. CASE WorldChanges
  <2>1. /\ world' \in Worlds /\ task' = task /\ changes' = changes + 1
    BY <1>5 DEF WorldChanges
  <2>2. changes' \in Nat /\ changes <= changes' /\ changes' # changes
    BY <2>1 DEF TreeInv
  <2>3. \A r \in Readers : task[r].since \in Nat /\ task[r].since <= changes
    BY DEF TreeInv
  <2>4. \A r \in Readers : task[r].since <= changes' /\ task[r].since # changes'
    BY <2>1, <2>3 DEF TreeInv
  <2> QED
    BY <2>1, <2>2, <2>4 DEF TreeInv
<1>6. CASE UNCHANGED vars
  BY <1>6 DEF vars, TreeInv
<1>7. ASSUME NEW r \in Readers, NEW ask \in Asks, Unbooked(r, ask) PROVE TreeInv'
  BY <1>7, TreeUnasked
<1> QED
  BY <1>1, <1>2, <1>3, <1>4, <1>5, <1>6, <1>7 DEF Next, Reads

LEMMA TreeInit == Init => TreeInv
<1> SUFFICES ASSUME Init PROVE TreeInv
  OBVIOUS
<1>1. \A r \in Readers : task[r] = Idle
  BY DEF Init
<1>2. Idle.since = 0 /\ Idle.got = <<>> /\ <<>> \in Seq({}) /\ ~Walks(Idle)
  BY DEF Idle, Walks
<1>3. DOMAIN task = Readers /\ world \in Worlds /\ changes = 0
  BY DEF Init
<1>4. DOMAIN Idle.got = {}
  BY <1>2
<1>5. \A r \in Readers : \E S : task[r].got \in Seq(S)
  BY <1>1, <1>2
<1> QED
  BY <1>1, <1>2, <1>3, <1>4, <1>5 DEF TreeInv

LEMMA TreeImplies == TreeInv => TreeAsItStands
<1> SUFFICES ASSUME TreeInv, NEW r \in Readers
             PROVE  /\ \A n \in DOMAIN task[r].got : ~TooDeep(task[r].got[n].q)
                    /\ Finished(r, "tenancy") /\ task[r].since = changes /\ world.root # None =>
                         Rows(task[r].got) = Listings(world.tree)[MaxDepth + 1][world.root]
  BY DEF TreeAsItStands
<1>1. \A n \in DOMAIN task[r].got : ~TooDeep(task[r].got[n].q)
  BY DEF TreeInv
<1>2. ASSUME Finished(r, "tenancy"), task[r].since = changes, world.root # None
      PROVE  Rows(task[r].got) = Listings(world.tree)[MaxDepth + 1][world.root]
  <2>1. PICK t : t = task[r]
    OBVIOUS
  <2>2. PICK S : t.got \in Seq(S)
    BY <2>1 DEF TreeInv
  <2>3. Walks(t) /\ t.state = "done"
    BY <1>2, <2>1 DEF Finished, Walks
  <2>4. Whole(t, world)
    BY <1>2, <2>1, <2>3 DEF TreeInv
  <2>5. t.todo = <<>>
    BY <2>3, <2>4 DEF Whole
  <2>6. Owed(world, t.todo) = <<>>
    <3>1. Len(t.todo) = 0
      BY <2>5
    <3> QED
      BY <3>1, CombinedOfNone DEF Owed
  <2>7. Rows(t.got) \in Seq(Names(world.tree))
    BY <2>2, <2>4, RowsType DEF Whole
  <2>8. Then(Rows(t.got), Owed(world, t.todo)) = Listings(world.tree)[MaxDepth + 1][world.root]
    BY <2>4 DEF Whole
  <2> QED
    BY <2>1, <2>6, <2>7, <2>8, ThenNothing
<1> QED
  BY <1>1, <1>2

\* A tenant tree that is read while the chain stands still is shown whole, depth
\* first, whatever tree it is and however many other commands run; and no walk
\* reads a tenant deeper than the contract allows one, so a circle ends it.
THEOREM TheTreeIsShownWhole == Spec => []TreeAsItStands
<1> QED
  BY TreeInit, TreeNext, TreeImplies, PTL DEF Spec
=============================================================================
