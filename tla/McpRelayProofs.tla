-------------------------- MODULE McpRelayProofs ---------------------------
(***************************************************************************)
(* While the gate is there no tool call reaches the server that it did not *)
(* let proceed, whatever the client sends and however the pipes fill up;   *)
(* and over stdio each call is judged in the name its client gave last.    *)
(*                                                                         *)
(* Over stdio nothing is lost, repeated or overtaken on the way to a server*)
(* that lives: the message in hand is always the last that was read.  And  *)
(* no request is answered twice: once read it is in one place at a time,   *)
(* the hand, the pipe, the server, the way back or among the answered.     *)
(***************************************************************************)
EXTENDS McpRelay, SequenceTheorems, FiniteSetTheorems, WellFoundedInduction, TLAPS

\* A message the server may be given.
Passed(n) == governed => (IsToolCall(Msgs[n]) => n \in rulings) /\ ~HidesToolCall(Msgs[n])

AllPassed(s) == \A k \in DOMAIN s : Passed(s[k])

\* What is on its way to the server was ruled on as well: what waits in the pipe,
\* and what the relay is about to write; and the gate is only asked about a
\* message that hides nothing.
RelayInv ==
  /\ inbox \in Seq(Sent) /\ toServer \in Seq(Sent) /\ received \in Seq(Sent)
  /\ pc \in {"asking", "forwarding"} => at \in Sent
  /\ pc = "asking" => ~HidesToolCall(Msgs[at])
  /\ pc = "forwarding" => Passed(at)
  /\ AllPassed(toServer) /\ AllPassed(received)

\* Nothing that was passed is taken back: rulings are only added.
LEMMA PassedStays ==
  ASSUME rulings \subseteq rulings', governed' = governed
  PROVE  \A n : Passed(n) => Passed(n)'
BY DEF Passed, IsToolCall, HidesToolCall

\* One more message that was passed, at the end of those that were.
LEMMA AppendPassed ==
  ASSUME NEW s \in Seq(Sent), NEW n \in Sent, AllPassed(s), Passed(n)
  PROVE  Append(s, n) \in Seq(Sent) /\ AllPassed(Append(s, n))
BY AppendProperties DEF AllPassed

\* And one less, at the front.
LEMMA TailPassed ==
  ASSUME NEW s \in Seq(Sent), s # <<>>, AllPassed(s)
  PROVE  /\ Tail(s) \in Seq(Sent) /\ AllPassed(Tail(s))
         /\ Head(s) \in Sent /\ Passed(Head(s))
BY HeadTailProperties DEF AllPassed

\* A batch that hides a call is refused, whatever else it says.
LEMMA HiddenIsRefused ==
  ASSUME NEW m, HidesToolCall(m) PROVE RelayDecision(m) = "refusing"
BY DEF RelayDecision

\* What Read decides: a message goes on unasked only if it is no call and hides
\* none, whichever transport it comes over.
LEMMA ReadDecides ==
  ASSUME RelayInv, Read
  PROVE  /\ inbox' \in Seq(Sent) /\ at' \in Sent
         /\ pc' = "asking" => ~HidesToolCall(Msgs[at'])
         /\ pc' = "forwarding" => Passed(at')
<1> DEFINE m == Msgs[Head(inbox)]
<1>1. inbox' \in Seq(Sent) /\ at' \in Sent /\ at' = Head(inbox)
  BY HeadTailProperties DEF RelayInv, Read
<1>2. pc' = "forwarding" => (~Looks(m) \/ RelayDecision(m) = "forwarding") /\ rulings' = rulings
  BY DEF Read
<1>3. pc' = "asking" => RelayDecision(m) = "asking"
  BY DEF Read
<1>4. ~Looks(m) => (governed => ~IsToolCall(m) /\ ~HidesToolCall(m))
  <2>1. CASE transport = "http"
    BY <2>1 DEF Looks, ShouldGate
  <2>2. CASE transport # "http"
    BY <2>2 DEF Looks
  <2> QED BY <2>1, <2>2
<1>5. RelayDecision(m) = "forwarding" => ~IsToolCall(m) /\ ~HidesToolCall(m)
  BY DEF RelayDecision
<1>6. HidesToolCall(m) => RelayDecision(m) = "refusing"
  BY HiddenIsRefused
<1>7. m = Msgs[at']
  BY <1>1
<1>8. pc' = "forwarding" => (governed => ~IsToolCall(m) /\ ~HidesToolCall(m))
  BY <1>2, <1>4, <1>5
<1>9. pc' = "forwarding" => Passed(at')
  BY <1>7, <1>8 DEF Passed
<1>10. pc' = "asking" => ~HidesToolCall(Msgs[at'])
  BY <1>3, <1>6, <1>7
<1> QED BY <1>1, <1>9, <1>10

THEOREM InitPasses == Init => RelayInv
BY DEF Init, RelayInv, AllPassed

\* Each action, with what it can disturb.
THEOREM StepPasses == RelayInv /\ [Next]_vars => RelayInv'
<1> SUFFICES ASSUME RelayInv, [Next]_vars PROVE RelayInv'
  OBVIOUS
<1> USE DEF RelayInv, server, client
<1>0. /\ governed' = governed /\ rulings \subseteq rulings'
  BY DEF Next, vars, Sends, Closes, Rule, GateAnswers, Relays, Read, Refuses, Forwards,
         CannotForward, CutShort, EndOfInput, Stops, Pump, ServerTakes, ServerAnswers,
         ServerEnds, ServerDies
<1>1. \A n : Passed(n) => Passed(n)'
  BY <1>0, PassedStays
<1>2. ASSUME NEW s, AllPassed(s) PROVE AllPassed(s)'
  BY <1>1, <1>2 DEF AllPassed
<1>a. ASSUME NEW n \in Sent, Sends(n) PROVE RelayInv'
  <2>1. inbox' \in Seq(Sent)
    BY <1>a, AppendProperties DEF Sends
  <2> QED BY <1>a, <2>1, <1>1, <1>2 DEF Sends
<1>b. CASE Closes
  BY <1>b, <1>1, <1>2 DEF Closes
<1>c. ASSUME NEW outcome, GateAnswers(outcome) PROVE RelayInv'
  <2>1. pc' = "forwarding" => Passed(at)'
    BY <1>c DEF GateAnswers, Passed, HidesToolCall, IsToolCall
  <2> QED BY <1>c, <2>1, <1>1, <1>2 DEF GateAnswers
<1>d. CASE Read
  BY <1>d, ReadDecides, <1>1, <1>2 DEF Read
<1>e. CASE Refuses
  BY <1>e, <1>1, <1>2 DEF Refuses, AfterRefusal
<1>f. CASE Forwards
  <2>1. toServer' \in Seq(Sent) /\ AllPassed(Append(toServer, at)) /\ toServer' = Append(toServer, at)
    BY <1>f, AppendPassed DEF Forwards
  <2> QED BY <1>f, <2>1, <1>1, <1>2 DEF Forwards
<1>g. CASE CannotForward
  BY <1>g, <1>1, <1>2 DEF CannotForward
<1>h. CASE CutShort
  BY <1>h, <1>1, <1>2 DEF CutShort
<1>i. CASE EndOfInput
  BY <1>i, <1>1, <1>2 DEF EndOfInput
<1>j. CASE Stops
  BY <1>j, <1>1, <1>2 DEF Stops
<1>k. CASE Pump
  BY <1>k, <1>1, <1>2 DEF Pump
<1>l. CASE ServerTakes
  <2>1. /\ toServer' \in Seq(Sent) /\ AllPassed(Tail(toServer)) /\ toServer' = Tail(toServer)
        /\ Head(toServer) \in Sent /\ Passed(Head(toServer))
    BY <1>l, TailPassed DEF ServerTakes
  <2>2. received' \in Seq(Sent) /\ AllPassed(Append(received, Head(toServer)))
        /\ received' = Append(received, Head(toServer))
    BY <1>l, <2>1, AppendPassed DEF ServerTakes
  <2> QED BY <1>l, <2>1, <2>2, <1>1, <1>2 DEF ServerTakes
<1>m. ASSUME NEW n \in Sent, ServerAnswers(n) PROVE RelayInv'
  BY <1>m, <1>1, <1>2 DEF ServerAnswers
<1>n. CASE ServerEnds
  BY <1>n, <1>1, <1>2 DEF ServerEnds, Gone, AllPassed
<1>o. CASE ServerDies
  BY <1>o, <1>1, <1>2 DEF ServerDies, Gone, AllPassed
<1>p. CASE UNCHANGED vars
  BY <1>p, <1>1, <1>2 DEF vars
<1> QED
  BY <1>a, <1>b, <1>c, <1>d, <1>e, <1>f, <1>g, <1>h, <1>i, <1>j, <1>k, <1>l, <1>m, <1>n,
     <1>o, <1>p DEF Next, Rule, Relays

\* The server is never given a tool call that was not let proceed, alone or in a
\* batch, over either transport, with any messages, pipes and deaths.
THEOREM NoCallUnruled == Spec => []NothingUnruled
<1>1. RelayInv => NothingUnruled
  BY DEF RelayInv, AllPassed, Passed, NothingUnruled
<1> QED BY InitPasses, StepPasses, <1>1, PTL DEF Spec
-----------------------------------------------------------------------------
(* In whose name a call is judged.                                         *)

\* The messages read so far, and which of the first k say who the client is.
ReadSoFar == Len(sent) - Len(inbox)
NamedBy(k) == { n \in 1..k : Single(sent[n]) /\ Msgs[sent[n]].client # None }
NameAt(k) == IF NamedBy(k) = {} THEN None ELSE Msgs[sent[Max(NamedBy(k))]].client

\* A question to the gate, of a message that was read, in the name known there.
JudgedAt(i) ==
  i.at \in 1..ReadSoFar /\ (transport = "stdio" => i.agent = AgentOf(NameAt(i.at)))

\* The inbox is the end of what was sent, the relay knows the last name in the
\* rest, and the gate was asked in the names known there.
NameInv ==
  /\ sent \in Seq(Sent) /\ inbox \in Seq(Sent) /\ Len(inbox) <= Len(sent)
  /\ \A i \in 1..Len(inbox) : inbox[i] = sent[ReadSoFar + i]
  /\ transport = "stdio" => identity = NameAt(ReadSoFar)
  /\ \E S : intents \in Seq(S)
  /\ \A k \in DOMAIN intents : JudgedAt(intents[k])

LEMMA InitNames == Init => NameInv
<1> SUFFICES ASSUME Init PROVE NameInv
  OBVIOUS
<1>1. sent = <<>> /\ inbox = <<>> /\ identity = None /\ intents = <<>>
  BY DEF Init
<1>2. ReadSoFar = 0 /\ NamedBy(0) = {}
  BY <1>1 DEF ReadSoFar, NamedBy
<1> QED BY <1>1, <1>2, EmptySeq DEF NameInv, NameAt

\* The least number of a set.
LEMMA Least ==
  ASSUME NEW T \in SUBSET Nat, T # {} PROVE \E m \in T : \A n \in T : m <= n
<1>1. PICK m \in T : \A n \in T : ~(<<n, m>> \in OpToRel(<, Nat))
  BY WFMin, NatLessThanWellFounded
<1>2. \A n \in T : ~(n < m)
  BY <1>1 DEF OpToRel
<1>3. \A n \in T : n \in Nat
  OBVIOUS
<1> QED BY <1>2, <1>3

\* The last of the messages that name the client is one of them.
LEMMA LastNamed ==
  ASSUME NEW k \in Nat, NamedBy(k) # {}
  PROVE  Max(NamedBy(k)) \in NamedBy(k) /\ \A n \in NamedBy(k) : Max(NamedBy(k)) >= n
<1>1. PICK S : S = NamedBy(k)
  OBVIOUS
<1>2. S \subseteq 1..k /\ S # {}
  BY <1>1 DEF NamedBy
<1> DEFINE T == { k - n : n \in S }
<1>3. T \in SUBSET Nat /\ T # {}
  BY <1>2
<1>4. PICK m \in T : \A n \in T : m <= n
  BY <1>3, Least
<1>5. \E x \in S : \A y \in S : x >= y
  <2>1. PICK x \in S : m = k - x
    BY <1>4
  <2>2. ASSUME NEW y \in S PROVE x >= y
    <3>1. k - x <= k - y
      BY <1>4, <2>1
    <3> QED BY <1>2, <3>1
  <2> QED BY <2>2
<1>6. Max(S) \in S /\ \A y \in S : Max(S) >= y
  BY <1>5 DEF Max
<1> QED BY <1>1, <1>6

\* Who is known depends on the messages themselves only.
LEMMA SameName ==
  ASSUME NEW k \in Nat, \A n \in 1..k : sent'[n] = sent[n]
  PROVE  NameAt(k)' = NameAt(k)
<1>1. NamedBy(k)' = NamedBy(k)
  BY DEF NamedBy, Single
<1>2. NamedBy(k) # {} => Max(NamedBy(k)) \in 1..k
  BY LastNamed DEF NamedBy
<1> QED BY <1>1, <1>2 DEF NameAt

\* One message more: the name it gives, or else the one known before.
LEMMA NextName ==
  ASSUME NEW k \in Nat, NEW m, m = Msgs[sent[k + 1]]
  PROVE  NameAt(k + 1) = Observe(NameAt(k), m)
<1>1. NamedBy(k + 1) = NamedBy(k) \cup (IF m.form = "single" /\ m.client # None THEN {k + 1} ELSE {})
  BY DEF NamedBy, Single
<1>2. CASE m.form = "single" /\ m.client # None
  <2>1. k + 1 \in NamedBy(k + 1) /\ \A n \in NamedBy(k + 1) : n \in Nat /\ n <= k + 1
    BY <1>1, <1>2 DEF NamedBy
  <2>2. Max(NamedBy(k + 1)) = k + 1
    <3>1. Max(NamedBy(k + 1)) \in NamedBy(k + 1) /\ Max(NamedBy(k + 1)) >= k + 1
      BY <2>1, LastNamed
    <3> QED BY <2>1, <3>1
  <2> QED BY <1>2, <2>1, <2>2 DEF NameAt, Observe
<1>3. CASE ~(m.form = "single" /\ m.client # None)
  BY <1>1, <1>3 DEF NameAt, Observe
<1> QED BY <1>2, <1>3
-----------------------------------------------------------------------------
\* What was asked stays asked in the right name.
LEMMA JudgedStays ==
  ASSUME NameInv, transport' = transport, ReadSoFar' \in {ReadSoFar, ReadSoFar + 1},
         \A n \in 1..Len(sent) : sent'[n] = sent[n], NEW i, JudgedAt(i)
  PROVE  JudgedAt(i)'
<1>1. Len(sent) \in Nat /\ Len(inbox) \in Nat /\ ReadSoFar \in 0..Len(sent)
  BY LenProperties DEF NameInv, ReadSoFar
<1>2. i.at \in Nat /\ i.at <= Len(sent) /\ i.at \in 1..ReadSoFar
  BY <1>1 DEF JudgedAt
<1>3. PICK k : k = i.at
  OBVIOUS
<1>4. NameAt(k)' = NameAt(k)
  BY <1>1, <1>2, <1>3, SameName
<1>5. i.at \in 1..ReadSoFar'
  BY <1>1, <1>2
<1> QED BY <1>3, <1>4, <1>5 DEF JudgedAt

LEMMA JudgedStay ==
  ASSUME NameInv, transport' = transport, ReadSoFar' \in {ReadSoFar, ReadSoFar + 1},
         \A n \in 1..Len(sent) : sent'[n] = sent[n], intents' = intents
  PROVE  \A k \in DOMAIN intents' : JudgedAt(intents[k])'
<1> SUFFICES ASSUME NEW k \in DOMAIN intents PROVE JudgedAt(intents[k])'
  OBVIOUS
<1>1. PICK i : i = intents[k]
  OBVIOUS
<1>2. JudgedAt(i)
  BY <1>1 DEF NameInv
<1>3. JudgedAt(i)'
  BY <1>2, JudgedStays
<1> QED BY <1>1, <1>3

LEMMA SendNames == ASSUME NameInv, NEW n \in Sent, Sends(n) PROVE NameInv'
<1>1. /\ sent' = Append(sent, n) /\ inbox' = Append(inbox, n)
      /\ UNCHANGED << transport, identity, intents >>
  BY DEF Sends
<1>2. /\ sent' \in Seq(Sent) /\ Len(sent') = Len(sent) + 1 /\ sent'[Len(sent) + 1] = n
      /\ \A i \in 1..Len(sent) : sent'[i] = sent[i]
      /\ inbox' \in Seq(Sent) /\ Len(inbox') = Len(inbox) + 1 /\ inbox'[Len(inbox) + 1] = n
      /\ \A i \in 1..Len(inbox) : inbox'[i] = inbox[i]
  BY <1>1, AppendProperties DEF NameInv
<1>3. Len(sent) \in Nat /\ Len(inbox) \in Nat /\ Len(inbox) <= Len(sent)
  BY LenProperties DEF NameInv
<1>4. ReadSoFar' = ReadSoFar /\ ReadSoFar \in 0..Len(sent)
  BY <1>2, <1>3 DEF ReadSoFar
<1>5. \A i \in 1..Len(inbox') : inbox'[i] = sent'[ReadSoFar' + i]
  <2> SUFFICES ASSUME NEW i \in 1..Len(inbox') PROVE inbox'[i] = sent'[ReadSoFar + i]
    BY <1>4
  <2>1. CASE i = Len(inbox) + 1
    BY <1>2, <1>3, <2>1 DEF ReadSoFar
  <2>2. CASE i \in 1..Len(inbox)
    <3>1. ReadSoFar + i \in 1..Len(sent)
      BY <1>3, <2>2 DEF ReadSoFar
    <3> QED BY <1>2, <2>2, <3>1 DEF NameInv
  <2> QED BY <1>2, <1>3, <2>1, <2>2
<1>6. \A k \in 0..Len(sent) : NameAt(k)' = NameAt(k)
  BY <1>2, SameName
<1>7. \A i \in 1..Len(sent) : sent'[i] = sent[i]
  BY <1>2
<1>8. \A k \in DOMAIN intents' : JudgedAt(intents[k])'
  BY <1>1, <1>4, <1>7, JudgedStay
<1>9. transport' = "stdio" => identity' = NameAt(ReadSoFar)'
  <2>1. PICK r : r = ReadSoFar
    OBVIOUS
  <2>2. NameAt(r)' = NameAt(r)
    BY <1>3, <1>4, <1>6, <2>1
  <2> QED BY <1>1, <1>4, <2>1, <2>2 DEF NameInv
<1>10. Len(inbox') <= Len(sent')
  BY <1>2, <1>3
<1> QED BY <1>1, <1>2, <1>5, <1>8, <1>9, <1>10 DEF NameInv

LEMMA ReadNames == ASSUME NameInv, Read PROVE NameInv'
<1> DEFINE m == Msgs[Head(inbox)]
<1>1. /\ sent' = sent /\ inbox # <<>> /\ inbox' = Tail(inbox) /\ transport' = transport
      /\ Learns(m)
  BY DEF Read, client
<1>2. /\ Len(sent) \in Nat /\ Len(inbox) \in Nat \ {0} /\ Len(inbox) <= Len(sent)
      /\ inbox' \in Seq(Sent) /\ Len(inbox') = Len(inbox) - 1 /\ Head(inbox) = inbox[1]
      /\ \A i \in 1..Len(inbox') : inbox'[i] = inbox[i + 1]
  BY <1>1, LenProperties, EmptySeq, HeadTailProperties DEF NameInv
<1>3. PICK r : r = ReadSoFar
  OBVIOUS
<1>4. r \in Nat /\ r + 1 \in 1..Len(sent) /\ ReadSoFar' = r + 1
  BY <1>1, <1>2, <1>3 DEF ReadSoFar
<1>5. \A i \in 1..Len(inbox') : inbox'[i] = sent'[ReadSoFar' + i]
  <2> SUFFICES ASSUME NEW i \in 1..Len(inbox') PROVE inbox'[i] = sent[r + 1 + i]
    BY <1>1, <1>4
  <2>1. i + 1 \in 1..Len(inbox)
    BY <1>2
  <2>2. inbox[i + 1] = sent[r + (i + 1)]
    BY <1>3, <2>1 DEF NameInv
  <2>3. r + (i + 1) = r + 1 + i
    BY <1>2, <1>4
  <2> QED BY <1>2, <2>2, <2>3
<1>6. m = Msgs[sent[r + 1]]
  <2>1. inbox[1] = sent[r + 1]
    BY <1>2, <1>3 DEF NameInv
  <2> QED BY <1>2, <2>1
<1>7. PICK msg : msg = m
  OBVIOUS
<1>8. NameAt(r + 1) = Observe(NameAt(r), msg)
  BY <1>4, <1>6, <1>7, NextName
<1>9. \A n \in 1..Len(sent) : sent'[n] = sent[n]
  BY <1>1
<1>10. NameAt(r + 1)' = NameAt(r + 1)
  BY <1>1, <1>4, SameName
<1>11. transport = "stdio" => identity = NameAt(r)
  BY <1>3 DEF NameInv
<1>12. transport' = "stdio" => identity' = NameAt(ReadSoFar)'
  BY <1>1, <1>4, <1>7, <1>8, <1>10, <1>11 DEF Learns
<1>13. PICK q : q = [at |-> Len(sent) - Len(inbox) + 1, agent |-> AgentOf(Observe(Known, m))]
  OBVIOUS
<1>14. intents' \in {intents, Append(intents, q)}
  BY <1>1, <1>13 DEF Learns
<1>15. JudgedAt(q)'
  <2>1. q.at = r + 1
    BY <1>3, <1>13 DEF ReadSoFar
  <2>2. transport = "stdio" => q.agent = AgentOf(NameAt(r + 1))
    BY <1>7, <1>8, <1>11, <1>13 DEF Known
  <2> QED BY <1>1, <1>4, <1>10, <2>1, <2>2 DEF JudgedAt
<1>16. \A k \in DOMAIN intents : \A i : i = intents[k] => JudgedAt(i)'
  BY <1>1, <1>3, <1>4, <1>9, JudgedStays DEF NameInv
<1>17. (\E S : intents' \in Seq(S)) /\ \A k \in DOMAIN intents' : JudgedAt(intents[k])'
  <2>1. PICK S : intents \in Seq(S)
    BY DEF NameInv
  <2> DEFINE T == S \cup {q}
  <2>2. intents \in Seq(T) /\ q \in T
    BY <2>1, SeqMonotonic
  <2> HIDE DEF T
  <2>3. intents' \in Seq(T)
    BY <1>14, <2>2, AppendProperties
  <2>4. ASSUME NEW k \in DOMAIN intents' PROVE JudgedAt(intents[k])'
    <3>1. PICK i : i = intents'[k]
      OBVIOUS
    <3>2. i = q \/ (k \in DOMAIN intents /\ i = intents[k])
      BY <1>14, <2>2, <3>1, AppendProperties, LenProperties
    <3>3. JudgedAt(i)'
      BY <1>15, <1>16, <3>2
    <3> QED BY <3>1, <3>3
  <2> QED BY <2>3, <2>4
<1>18. Len(inbox') <= Len(sent')
  BY <1>1, <1>2
<1> QED BY <1>1, <1>2, <1>5, <1>12, <1>17, <1>18 DEF NameInv

\* The other steps neither read, nor learn, nor ask.
LEMMA OtherNames ==
  ASSUME NameInv, UNCHANGED << transport, sent, inbox, identity, intents >>
  PROVE  NameInv'
<1>1. ReadSoFar' = ReadSoFar /\ \A k : NameAt(k)' = NameAt(k)
  BY DEF ReadSoFar, NameAt, NamedBy, Single
<1>2. \A k \in DOMAIN intents' : JudgedAt(intents[k])'
  BY DEF NameInv, JudgedAt, ReadSoFar, NameAt, NamedBy, Single
<1>3. transport' = "stdio" => identity' = NameAt(ReadSoFar)'
  BY DEF NameInv, ReadSoFar, NameAt, NamedBy, Single
<1> QED BY <1>1, <1>2, <1>3 DEF NameInv

LEMMA StepNames == NameInv /\ [Next]_vars => NameInv'
<1> SUFFICES ASSUME NameInv, [Next]_vars PROVE NameInv'
  OBVIOUS
<1>1. CASE Read
  BY <1>1, ReadNames
<1>2. CASE \E n \in Sent : Sends(n)
  BY <1>2, SendNames
<1>3. CASE ~Read /\ ~\E n \in Sent : Sends(n)
  <2>1. UNCHANGED << transport, sent, inbox, identity, intents >>
    BY <1>3
    DEF Next, vars, client, Closes, Rule, GateAnswers, Relays, Refuses, Forwards, CannotForward,
        CutShort, EndOfInput, Stops, Pump, ServerTakes, ServerAnswers, ServerEnds, ServerDies
  <2> QED BY <2>1, OtherNames
<1> QED BY <1>1, <1>2, <1>3

\* Over stdio every call is judged as the client that made it, however many
\* clients name themselves on the way and however far the relay is behind.
THEOREM CallsAreJudgedAsThemselves == Spec => []JudgedAsItself
<1>1. NameInv => JudgedAsItself
  BY DEF NameInv, JudgedAt, NameAt, NamedBy, JudgedAsItself
<1> QED BY InitNames, StepNames, <1>1, PTL DEF Spec
-----------------------------------------------------------------------------
(* Nothing is lost, repeated or overtaken.                                 *)

\* A message is sent once, and the one in hand is the last that was read.  What
\* the gate was asked or ruled on was read, what is being refused may not go
\* through, and what is being forwarded may.  A server that did not die is there
\* until the relay ends.
HandInv ==
  /\ \A i, j \in DOMAIN sent : sent[i] = sent[j] => i = j
  /\ pc \in {"asking", "refusing", "forwarding"} => ReadSoFar \in DOMAIN sent /\ at = sent[ReadSoFar]
  /\ rulings \subseteq { sent[k] : k \in 1..ReadSoFar }
  /\ pc = "asking" =>
       governed /\ IsToolCall(Msgs[at]) /\ at \notin rulings /\ Msgs[at].form # "blank"
  /\ pc = "refusing" => at \in Refused
  /\ pc = "forwarding" => at \notin Refused
  /\ pc = "copying" => transport = "http"
  /\ deaths \in Nat
  /\ up = FALSE /\ deaths = 0 => pc \in {"ending", "stopped"}

\* The places of the messages that were read and may go through.
Through == { k \in 1..ReadSoFar : sent[k] \notin Refused }

InHand == IF pc = "forwarding" THEN <<at>> ELSE <<>>

OrderInv == RelayInv /\ NameInv /\ HandInv /\ OrderKept

LEMMA RefusedSame ==
  ASSUME governed' = governed, rulings' = rulings PROVE Refused' = Refused
BY DEF Refused, HidesToolCall, IsToolCall

LEMMA ReadSoFarIs ==
  ASSUME NameInv
  PROVE  Len(sent) \in Nat /\ Len(inbox) \in Nat /\ ReadSoFar \in 0..Len(sent)
         /\ DOMAIN sent = 1..Len(sent)
BY LenProperties DEF NameInv, ReadSoFar

LEMMA SendReads ==
  ASSUME NameInv, NEW n \in Sent, Sends(n)
  PROVE  /\ ReadSoFar' = ReadSoFar
         /\ sent' \in Seq(Sent) /\ Len(sent') = Len(sent) + 1 /\ sent'[Len(sent) + 1] = n
         /\ \A i \in 1..Len(sent) : sent'[i] = sent[i]
<1>1. sent' = Append(sent, n) /\ inbox' = Append(inbox, n)
  BY DEF Sends
<1> QED BY <1>1, AppendProperties, ReadSoFarIs DEF NameInv, ReadSoFar

LEMMA ReadReads ==
  ASSUME NameInv, Read
  PROVE  /\ ReadSoFar' = ReadSoFar + 1 /\ ReadSoFar' \in 1..Len(sent)
         /\ sent' = sent /\ at' = sent[ReadSoFar'] /\ at' = Head(inbox) /\ at' \in Sent
<1>1. /\ sent' = sent /\ inbox # <<>> /\ inbox' = Tail(inbox) /\ at' = Head(inbox)
  BY DEF Read, client
<1>2. /\ Len(inbox) \in Nat \ {0} /\ Len(inbox') = Len(inbox) - 1 /\ Head(inbox) = inbox[1]
      /\ inbox[1] \in Sent
  BY <1>1, LenProperties, EmptySeq, HeadTailProperties, ElementOfSeq DEF NameInv
<1>3. inbox[1] = sent[ReadSoFar + 1]
  BY <1>2 DEF NameInv
<1>4. Len(sent) \in Nat /\ Len(inbox) <= Len(sent)
  BY LenProperties DEF NameInv
<1> QED BY <1>1, <1>2, <1>3, <1>4 DEF ReadSoFar

LEMMA InitHand == Init => OrderInv
<1> SUFFICES ASSUME Init PROVE OrderInv
  OBVIOUS
<1>1. /\ sent = <<>> /\ inbox = <<>> /\ received = <<>> /\ toServer = <<>> /\ pc = "reading"
      /\ rulings = {} /\ up = TRUE /\ deaths = 0
  BY DEF Init
<1>2. ReadSoFar = 0 /\ DOMAIN sent = {}
  BY <1>1 DEF ReadSoFar
<1>3. HandInv
  BY <1>1, <1>2 DEF HandInv
<1>4. OnItsWay = <<>>
  BY <1>1, EmptySeq, ConcatEmptySeq DEF OnItsWay
<1>5. TakenFrom(OnItsWay, sent, {})
  <2> DEFINE none == [k \in {} |-> k]
  <2>1. none \in [DOMAIN OnItsWay -> {}] /\ DOMAIN none = {} /\ Range(none) = {}
    BY <1>4 DEF Range
  <2> HIDE DEF none
  <2> QED BY <2>1 DEF TakenFrom
<1>6. OrderKept
  BY <1>1, <1>5, Len(<<>>) = 0 DEF OrderKept
<1> QED BY <1>3, <1>6, InitPasses, InitNames DEF OrderInv
-----------------------------------------------------------------------------
\* What was read into the hand is sorted: kept from the server, or let through.
LEMMA ReadHand ==
  ASSUME NameInv, HandInv, Read PROVE HandInv'
<1> DEFINE m == Msgs[Head(inbox)]
<1>1. /\ ReadSoFar' = ReadSoFar + 1 /\ ReadSoFar' \in 1..Len(sent)
      /\ sent' = sent /\ at' = sent[ReadSoFar'] /\ at' = Head(inbox) /\ at' \in Sent
  BY ReadReads
<1>2. /\ UNCHANGED << governed, rulings, transport, up, deaths >> /\ pc = "reading"
      /\ pc' = IF m.form = "blank" THEN "reading"
               ELSE IF Looks(m) THEN RelayDecision(m) ELSE "forwarding"
  BY DEF Read, server
<1>3. Refused' = Refused
  BY <1>2, RefusedSame
<1>4. /\ ReadSoFar \in 0..Len(sent) /\ Len(sent) \in Nat /\ DOMAIN sent = 1..Len(sent)
      /\ \A k \in 1..ReadSoFar : sent[k] # at'
  <2>1. /\ ReadSoFar \in 0..Len(sent) /\ Len(sent) \in Nat /\ DOMAIN sent = 1..Len(sent)
    BY ReadSoFarIs
  <2>2. PICK r : r = ReadSoFar
    OBVIOUS
  <2>3. r \in Nat /\ r + 1 \in DOMAIN sent /\ at' = sent[r + 1]
    <3>1. ReadSoFar' = r + 1
      BY <1>1, <2>2
    <3>2. at' = sent[r + 1]
      BY <1>1, <3>1
    <3>3. r \in Nat /\ r + 1 \in 1..Len(sent)
      BY <1>1, <2>1, <2>2, <3>1
    <3> QED BY <2>1, <3>2, <3>3
  <2>5. \A k \in 1..r : k \in DOMAIN sent /\ k # r + 1
    BY <2>1, <2>3
  <2>4. \A k \in 1..r : sent[k] # at'
    BY <2>3, <2>5 DEF HandInv
  <2> QED BY <2>1, <2>2, <2>4
<1>5. at' \notin rulings'
  BY <1>2, <1>4 DEF HandInv
<1>6. rulings' \subseteq { sent'[k] : k \in 1..ReadSoFar' }
  BY <1>1, <1>2, <1>4 DEF HandInv
<1>7. PICK msg : msg = m
  OBVIOUS
<1>8. Msgs[at'] = msg
  BY <1>1, <1>7
<1>9. pc' = "asking" => governed /\ IsToolCall(msg) /\ msg.form # "blank"
  BY <1>2, <1>7 DEF RelayDecision, Looks
<1>10. pc' = "refusing" => governed /\ HidesToolCall(msg)
  BY <1>2, <1>7 DEF RelayDecision, Looks
<1>11. pc' = "forwarding" =>
         msg.form # "blank" /\ (governed => ~HidesToolCall(msg) /\ ~IsToolCall(msg))
  BY <1>2, <1>7 DEF RelayDecision, Looks, ShouldGate
<1>12. pc' \in {"reading", "asking", "refusing", "forwarding"}
  BY <1>2 DEF RelayDecision
<1>13. pc' = "refusing" => at' \in Refused'
  BY <1>1, <1>3, <1>8, <1>10 DEF Refused
<1>14. pc' = "forwarding" => at' \notin Refused'
  BY <1>3, <1>8, <1>11 DEF Refused
<1>15. pc' = "asking" => governed' /\ IsToolCall(Msgs[at']) /\ Msgs[at'].form # "blank"
  BY <1>2, <1>8, <1>9
<1>16. up = FALSE /\ deaths = 0 => FALSE
  BY <1>2 DEF HandInv
<1> QED BY <1>1, <1>2, <1>4, <1>5, <1>6, <1>12, <1>13, <1>14, <1>15, <1>16 DEF HandInv

LEMMA SendHand ==
  ASSUME NameInv, HandInv, NEW n \in Sent, Sends(n) PROVE HandInv'
<1>1. /\ ReadSoFar' = ReadSoFar
      /\ sent' \in Seq(Sent) /\ Len(sent') = Len(sent) + 1 /\ sent'[Len(sent) + 1] = n
      /\ \A i \in 1..Len(sent) : sent'[i] = sent[i]
  BY SendReads
<1>2. /\ UNCHANGED << governed, rulings, transport, up, deaths, pc, at >> /\ ~Contains(sent, n)
  BY DEF Sends, server
<1>3. /\ Len(sent) \in Nat /\ ReadSoFar \in 0..Len(sent) /\ DOMAIN sent = 1..Len(sent)
      /\ DOMAIN sent' = 1..(Len(sent) + 1)
  BY <1>1, ReadSoFarIs, LenProperties
<1>4. \A i \in 1..Len(sent) : sent[i] # n
  BY <1>2 DEF Contains
<1>5. \A i, j \in DOMAIN sent' : sent'[i] = sent'[j] => i = j
  <2> SUFFICES ASSUME NEW i \in 1..(Len(sent) + 1), NEW j \in 1..(Len(sent) + 1), sent'[i] = sent'[j]
               PROVE  i = j
    BY <1>3
  <2>1. CASE i \in 1..Len(sent) /\ j \in 1..Len(sent)
    BY <1>1, <1>3, <2>1 DEF HandInv
  <2>2. CASE i = Len(sent) + 1 \/ j = Len(sent) + 1
    BY <1>1, <1>3, <1>4, <2>2
  <2> QED BY <1>3, <2>1, <2>2
<1>6. Refused' = Refused
  BY <1>2, RefusedSame
<1>7. \A k \in 1..ReadSoFar : sent'[k] = sent[k]
  BY <1>1, <1>3
<1>8. rulings' \subseteq { sent'[k] : k \in 1..ReadSoFar' }
  BY <1>1, <1>2, <1>7 DEF HandInv
<1>9. pc' = "asking" =>
        governed' /\ IsToolCall(Msgs[at']) /\ at' \notin rulings' /\ Msgs[at'].form # "blank"
  BY <1>2 DEF HandInv
<1>10. pc' \in {"asking", "refusing", "forwarding"} => ReadSoFar' \in DOMAIN sent' /\ at' = sent'[ReadSoFar']
  BY <1>1, <1>2, <1>3 DEF HandInv
<1> QED BY <1>1, <1>2, <1>5, <1>6, <1>8, <1>9, <1>10 DEF HandInv

LEMMA GateHand ==
  ASSUME RelayInv, NameInv, HandInv, NEW outcome, GateAnswers(outcome) PROVE HandInv'
<1>1. /\ UNCHANGED << governed, transport, sent, inbox, up, deaths, at >> /\ pc = "asking"
      /\ \/ pc' = "refusing" /\ rulings' = rulings
         \/ pc' = "forwarding" /\ rulings' = rulings \cup {at}
  BY DEF GateAnswers, server, client
<1>2. ReadSoFar' = ReadSoFar
  BY <1>1 DEF ReadSoFar
<1>3. at \in Sent /\ ~HidesToolCall(Msgs[at]) /\ IsToolCall(Msgs[at]) /\ governed /\ at \notin rulings
  BY <1>1 DEF RelayInv, HandInv
<1>4. pc' = "refusing" => at' \in Refused'
  BY <1>1, <1>3 DEF Refused, IsToolCall, HidesToolCall
<1>5. pc' = "forwarding" => at' \notin Refused'
  <2>1. Msgs[at].form # "blank"
    BY <1>1, <1>3 DEF HandInv
  <2> QED BY <1>1, <1>3, <2>1 DEF Refused, IsToolCall, HidesToolCall
<1>6. /\ ReadSoFar \in DOMAIN sent /\ at = sent[ReadSoFar] /\ ReadSoFar \in 1..ReadSoFar
  BY <1>1, ReadSoFarIs DEF HandInv
<1>7. rulings' \subseteq { sent'[k] : k \in 1..ReadSoFar' }
  BY <1>1, <1>2, <1>6 DEF HandInv
<1> QED BY <1>1, <1>2, <1>4, <1>5, <1>6, <1>7 DEF HandInv

\* The other steps take nothing in hand; they may let go of it.
LEMMA OtherHand ==
  ASSUME HandInv, UNCHANGED << governed, transport, sent, inbox, rulings, at >>,
         pc' = pc \/ (pc' \in {"reading", "copying", "ending", "stopped"}
                      /\ (pc' = "copying" => transport = "http")),
         deaths' \in Nat,
         up' = FALSE /\ deaths' = 0 => pc' \in {"ending", "stopped"}
  PROVE  HandInv'
<1>1. ReadSoFar' = ReadSoFar /\ Refused' = Refused
  BY RefusedSame DEF ReadSoFar
<1>2. pc' = "asking" =>
        governed' /\ IsToolCall(Msgs[at']) /\ at' \notin rulings' /\ Msgs[at'].form # "blank"
  BY DEF HandInv
<1>3. pc' \in {"asking", "refusing", "forwarding"} => ReadSoFar' \in DOMAIN sent' /\ at' = sent'[ReadSoFar']
  BY <1>1 DEF HandInv
<1>4. rulings' \subseteq { sent'[k] : k \in 1..ReadSoFar' }
  BY <1>1 DEF HandInv
<1>5. \A i, j \in DOMAIN sent' : sent'[i] = sent'[j] => i = j
  BY DEF HandInv
<1> QED BY <1>1, <1>2, <1>3, <1>4, <1>5 DEF HandInv

LEMMA StepHand ==
  ASSUME RelayInv, NameInv, HandInv, [Next]_vars PROVE HandInv'
<1> USE DEF client, server
<1>1. CASE \E n \in Sent : Sends(n)
  BY <1>1, SendHand
<1>2. CASE Read
  BY <1>2, ReadHand
<1>3. CASE Rule
  BY <1>3, GateHand DEF Rule
<1>4. CASE Refuses \/ Forwards \/ CannotForward \/ CutShort \/ EndOfInput \/ Stops
  <2>1. UNCHANGED << governed, transport, sent, inbox, rulings, at, up, deaths >>
    BY <1>4 DEF Refuses, Forwards, CannotForward, CutShort, EndOfInput, Stops
  <2>2. /\ pc \notin {"ending", "stopped"} \/ pc' = "stopped"
        /\ pc' \in {"reading", "copying", "ending", "stopped"}
        /\ pc' = "copying" => transport = "http"
    BY <1>4 DEF Refuses, Forwards, CannotForward, CutShort, EndOfInput, Stops, AfterRefusal
  <2>3. up' = FALSE /\ deaths' = 0 => pc' \in {"ending", "stopped"}
    BY <2>1, <2>2 DEF HandInv
  <2> QED BY <2>1, <2>2, <2>3, OtherHand DEF HandInv
<1>5. CASE Closes \/ ServerTakes \/ (\E n \in Sent : ServerAnswers(n)) \/ UNCHANGED vars
  <2>1. UNCHANGED << governed, transport, sent, inbox, rulings, at, up, deaths, pc >>
    BY <1>5 DEF Closes, ServerTakes, ServerAnswers, vars
  <2> QED BY <2>1, OtherHand DEF HandInv
<1>6. CASE Pump
  <2>1. UNCHANGED << governed, transport, sent, inbox, rulings, at, up, deaths >>
        /\ (pc' = pc \/ (pc = "copying" /\ pc' = "reading"))
    BY <1>6 DEF Pump
  <2>2. up' = FALSE /\ deaths' = 0 => pc' \in {"ending", "stopped"}
    BY <2>1 DEF HandInv
  <2> QED BY <2>1, <2>2, OtherHand DEF HandInv
<1>7. CASE ServerEnds
  <2>1. UNCHANGED << governed, transport, sent, inbox, rulings, at, deaths, pc >> /\ pc = "ending"
    BY <1>7 DEF ServerEnds
  <2> QED BY <2>1, OtherHand DEF HandInv
<1>8. CASE ServerDies
  <2>1. UNCHANGED << governed, transport, sent, inbox, rulings, at, pc >> /\ deaths' = deaths + 1
    BY <1>8 DEF ServerDies
  <2>2. deaths' \in Nat /\ deaths' # 0
    BY <2>1 DEF HandInv
  <2> QED BY <2>1, <2>2, OtherHand
<1> QED BY <1>1, <1>2, <1>3, <1>4, <1>5, <1>6, <1>7, <1>8 DEF Next, Relays
-----------------------------------------------------------------------------
\* One element more on both sides.
LEMMA TakesOneMore ==
  ASSUME NEW S, NEW s \in Seq(S), NEW x \in S, NEW t, NEW r \in Nat, NEW P, P \subseteq 1..(r - 1),
         TakenFrom(s, t, P), t[r] = x, r # 0
  PROVE  TakenFrom(Append(s, x), t, P \cup {r})
<1>1. PICK place \in [DOMAIN s -> P] :
        /\ Range(place) = P
        /\ \A j, k \in DOMAIN place : j < k => place[j] < place[k]
        /\ \A k \in DOMAIN place : s[k] = t[place[k]]
  BY DEF TakenFrom
<1>2. PICK n : n = Len(s)
  OBVIOUS
<1>3. PICK u : u = Append(s, x)
  OBVIOUS
<1>4. /\ n \in Nat /\ DOMAIN s = 1..n /\ DOMAIN u = 1..(n + 1)
      /\ \A k \in 1..n : u[k] = s[k]
      /\ u[n + 1] = x
  BY <1>2, <1>3, AppendProperties, LenProperties
<1> DEFINE more == [k \in 1..(n + 1) |-> IF k = n + 1 THEN r ELSE place[k]]
<1>5. /\ DOMAIN more = 1..(n + 1) /\ more[n + 1] = r
      /\ \A k \in 1..n : more[k] = place[k] /\ more[k] \in P /\ more[k] \in Nat /\ more[k] < r
  <2>1. \A k \in 1..n : k # n + 1 /\ k \in 1..(n + 1) /\ place[k] \in P
    BY <1>1, <1>4
  <2>2. \A k \in 1..n : more[k] = place[k]
    BY <2>1
  <2>3. \A p \in P : p \in Nat /\ p < r
    OBVIOUS
  <2>4. n + 1 \in 1..(n + 1)
    BY <1>4
  <2> QED BY <2>1, <2>2, <2>3, <2>4
<1>6. more \in [DOMAIN u -> P \cup {r}]
  <2>1. \A k \in 1..(n + 1) : more[k] \in P \cup {r}
    BY <1>1, <1>4
  <2> QED BY <1>4, <2>1
<1>7. DOMAIN place = 1..n
  BY <1>1, <1>4
<1> HIDE DEF more
<1>8. Range(more) = P \cup {r}
  <2>1. \A p \in P : \E k \in 1..n : place[k] = p
    BY <1>1, <1>7 DEF Range
  <2>2. \A p \in P : \E k \in DOMAIN more : more[k] = p
    <3> SUFFICES ASSUME NEW p \in P PROVE \E k \in DOMAIN more : more[k] = p
      OBVIOUS
    <3>1. PICK k \in 1..n : place[k] = p
      BY <2>1
    <3>2. k \in DOMAIN more /\ more[k] = p
      BY <1>4, <1>5, <3>1
    <3> QED BY <3>2
  <2>3. n + 1 \in DOMAIN more /\ more[n + 1] = r
    BY <1>4, <1>5
  <2>4. \A k \in DOMAIN more : more[k] \in P \cup {r}
    BY <1>4, <1>5
  <2>5. Range(more) = { more[k] : k \in DOMAIN more }
    BY DEF Range
  <2> QED BY <2>2, <2>3, <2>4, <2>5
<1>9. \A j, k \in DOMAIN more : j < k => more[j] < more[k]
  <2> SUFFICES ASSUME NEW j \in 1..(n + 1), NEW k \in 1..(n + 1), j < k PROVE more[j] < more[k]
    BY <1>5
  <2>1. j \in 1..n
    BY <1>4
  <2>2. CASE k = n + 1
    BY <1>5, <2>1, <2>2
  <2>3. CASE k \in 1..n
    <3>1. place[j] < place[k]
      BY <1>1, <1>7, <2>1, <2>3
    <3> QED BY <1>5, <2>1, <2>3, <3>1
  <2> QED BY <1>4, <2>2, <2>3
<1>10. \A k \in DOMAIN more : u[k] = t[more[k]]
  <2>1. \A k \in 1..n : u[k] = t[more[k]]
    BY <1>1, <1>4, <1>5, <1>7
  <2> QED BY <1>4, <1>5, <2>1
<1>11. TakenFrom(u, t, P \cup {r})
  BY <1>6, <1>8, <1>9, <1>10 DEF TakenFrom
<1> QED BY <1>3, <1>11

\* Only what is at the places matters.
LEMMA SameTaken ==
  ASSUME NEW s, NEW t, NEW u, NEW P, TakenFrom(s, t, P), \A k \in P : u[k] = t[k]
  PROVE  TakenFrom(s, u, P)
<1>1. PICK place \in [DOMAIN s -> P] :
        /\ Range(place) = P
        /\ \A j, k \in DOMAIN place : j < k => place[j] < place[k]
        /\ \A k \in DOMAIN place : s[k] = t[place[k]]
  BY DEF TakenFrom
<1>2. \A k \in DOMAIN place : s[k] = u[place[k]]
  BY <1>1
<1> QED BY <1>1, <1>2 DEF TakenFrom

\* What is on its way, as one sequence: the relay's last write, and the server's
\* reading, move a message along it.
LEMMA WritesMove ==
  ASSUME NEW S, NEW a \in Seq(S), NEW b \in Seq(S), NEW x \in S
  PROVE  a \o Append(b, x) \o <<>> = a \o b \o <<x>> /\ a \o b \o <<x>> = Append(a \o b \o <<>>, x)
<1>1. a \o b \in Seq(S) /\ <<x>> \in Seq(S) /\ a \o b \o <<>> = a \o b
  BY ConcatProperties, ConcatEmptySeq
<1>2. Append(b, x) = b \o <<x>> /\ Append(b, x) \in Seq(S)
  BY AppendIsConcat, AppendProperties
<1>3. a \o Append(b, x) \in Seq(S)
  BY <1>2, ConcatProperties
<1>4. a \o Append(b, x) \o <<>> = a \o Append(b, x)
  BY <1>3, ConcatEmptySeq
<1>5. a \o (b \o <<x>>) = a \o b \o <<x>>
  BY <1>1, ConcatAssociative
<1>6. Append(a \o b, x) = a \o b \o <<x>>
  BY <1>1, AppendIsConcat
<1> QED BY <1>1, <1>2, <1>4, <1>5, <1>6

LEMMA ReadingMoves ==
  ASSUME NEW S, NEW a \in Seq(S), NEW b \in Seq(S), b # <<>>
  PROVE  Append(a, Head(b)) \o Tail(b) = a \o b
<1>1. /\ Head(b) \in S /\ Head(b) = b[1] /\ Tail(b) \in Seq(S) /\ Len(Tail(b)) = Len(b) - 1
      /\ \A i \in 1..(Len(b) - 1) : Tail(b)[i] = b[i + 1]
      /\ Len(b) \in Nat \ {0}
  BY HeadTailProperties, ElementOfSeq, LenProperties, EmptySeq
<1>2. PICK first, rest : first = <<Head(b)>> /\ rest = Tail(b)
  OBVIOUS
<1>3. first \in Seq(S) /\ Len(first) = 1 /\ first[1] = b[1]
  BY <1>1, <1>2
<1>4. first \o rest = b
  <2>1. /\ first \o rest \in Seq(S) /\ Len(first \o rest) = Len(b)
        /\ \A i \in 1..Len(b) : (first \o rest)[i] = IF i <= 1 THEN first[i] ELSE rest[i - 1]
    BY <1>1, <1>2, <1>3, ConcatProperties
  <2>2. \A i \in 1..Len(b) : (first \o rest)[i] = b[i]
    <3> SUFFICES ASSUME NEW i \in 1..Len(b) PROVE (first \o rest)[i] = b[i]
      OBVIOUS
    <3>1. CASE i = 1
      BY <1>1, <1>3, <2>1, <3>1
    <3>2. CASE i # 1
      <4>1. i - 1 \in 1..(Len(b) - 1) /\ (i - 1) + 1 = i
        BY <1>1, <3>2
      <4> QED BY <1>1, <1>2, <2>1, <3>2, <4>1
    <3> QED BY <3>1, <3>2
  <2> QED BY <2>1, <2>2, SeqEqual
<1>5. Append(a, Head(b)) = a \o first
  BY <1>1, <1>2, AppendIsConcat
<1>6. (a \o first) \o rest = a \o (first \o rest)
  BY <1>1, <1>2, <1>3, ConcatAssociative
<1> QED BY <1>2, <1>4, <1>5, <1>6
-----------------------------------------------------------------------------
\* What is on its way, and the places it has to come from.
LEMMA OrderIs ==
  OrderKept <=> (transport = "stdio" /\ deaths = 0 => TakenFrom(OnItsWay, sent, Through))
BY DEF OrderKept, Through, ReadSoFar

\* Nothing moves, or what moves stays on its way: the order is kept.
LEMMA SameOrder ==
  ASSUME OrderInv, UNCHANGED << governed, transport, sent, inbox, rulings >>, deaths' = deaths,
         transport = "stdio" /\ deaths = 0 => OnItsWay' = OnItsWay
  PROVE  OrderKept'
<1>1. Refused' = Refused /\ ReadSoFar' = ReadSoFar
  BY RefusedSame DEF ReadSoFar
<1>2. Through' = Through
  BY <1>1 DEF Through
<1>3. PICK way, places : way = OnItsWay' /\ places = Through
  OBVIOUS
<1>4. transport = "stdio" /\ deaths = 0 => TakenFrom(way, sent, places)
  BY <1>3, OrderIs DEF OrderInv
<1>5. OrderKept' <=> (transport' = "stdio" /\ deaths' = 0 => TakenFrom(OnItsWay, sent, Through)')
  BY DEF OrderKept, Through, ReadSoFar
<1>6. TakenFrom(OnItsWay, sent, Through)' <=> TakenFrom(way, sent, places)
  BY <1>2, <1>3 DEF TakenFrom
<1> QED BY <1>4, <1>5, <1>6

LEMMA SendOrder ==
  ASSUME OrderInv, NEW n \in Sent, Sends(n) PROVE OrderKept'
<1>1. /\ UNCHANGED << governed, rulings, transport, deaths, pc, at, received, toServer >>
  BY DEF Sends, server
<1>2. /\ ReadSoFar' = ReadSoFar /\ \A i \in 1..Len(sent) : sent'[i] = sent[i]
  BY SendReads DEF OrderInv
<1>3. ReadSoFar \in 0..Len(sent) /\ Len(sent) \in Nat
  BY ReadSoFarIs DEF OrderInv
<1>4. \A k \in 1..ReadSoFar : sent'[k] = sent[k]
  BY <1>2, <1>3
<1>5. Through' = Through
  BY <1>1, <1>2, <1>4, RefusedSame DEF Through
<1>6. OnItsWay' = OnItsWay
  BY <1>1 DEF OnItsWay
<1>7. PICK way, places, later : way = OnItsWay /\ places = Through /\ later = sent'
  OBVIOUS
<1>8. transport = "stdio" /\ deaths = 0 => TakenFrom(way, later, places)
  <2>1. \A k \in places : later[k] = sent[k]
    BY <1>4, <1>7 DEF Through
  <2> QED BY <1>7, <2>1, OrderIs, SameTaken DEF OrderInv
<1>9. OrderKept' <=> (transport' = "stdio" /\ deaths' = 0 => TakenFrom(OnItsWay, sent, Through)')
  BY DEF OrderKept, Through, ReadSoFar
<1>10. TakenFrom(OnItsWay, sent, Through)' <=> TakenFrom(way, later, places)
  BY <1>5, <1>6, <1>7 DEF TakenFrom
<1> QED BY <1>1, <1>8, <1>9, <1>10

\* The message in hand is let through: it comes after all that did.
LEMMA OneMoreOrder ==
  ASSUME OrderInv, UNCHANGED << transport, sent, deaths, received, toServer >>,
         pc # "forwarding", pc' = "forwarding", at' \in Sent,
         NEW r \in Nat \ {0}, at' = sent[r],
         Through \subseteq 1..(r - 1), Through' = Through \cup {r}
  PROVE  OrderKept'
<1>1. received \in Seq(Sent) /\ toServer \in Seq(Sent)
  BY DEF OrderInv, RelayInv
<1>2. PICK x, way, places : x = at' /\ way = OnItsWay /\ places = Through
  OBVIOUS
<1>3. way = received \o toServer \o <<>> /\ way \in Seq(Sent)
  <2>1. <<>> \in Seq(Sent) /\ received \o toServer \in Seq(Sent)
    BY <1>1, EmptySeq, ConcatProperties
  <2> QED BY <1>2, <2>1, ConcatProperties DEF OnItsWay
<1>4. OnItsWay' = received \o toServer \o <<x>>
  BY <1>2 DEF OnItsWay
<1>5. OnItsWay' = Append(way, x)
  BY <1>1, <1>2, <1>3, <1>4, WritesMove
<1>6. transport = "stdio" /\ deaths = 0 => TakenFrom(Append(way, x), sent, places \cup {r})
  <2>1. transport = "stdio" /\ deaths = 0 => TakenFrom(way, sent, places)
    BY <1>2, OrderIs DEF OrderInv
  <2>2. places \subseteq 1..(r - 1) /\ x \in Sent /\ sent[r] = x /\ r # 0
    BY <1>2
  <2> QED BY <1>3, <2>1, <2>2, TakesOneMore
<1>7. OrderKept' <=> (transport' = "stdio" /\ deaths' = 0 => TakenFrom(OnItsWay, sent, Through)')
  BY DEF OrderKept, Through, ReadSoFar
<1>8. TakenFrom(OnItsWay, sent, Through)' <=> TakenFrom(Append(way, x), sent, places \cup {r})
  BY <1>2, <1>5 DEF TakenFrom
<1> QED BY <1>6, <1>7, <1>8

LEMMA ReadOrder ==
  ASSUME OrderInv, RelayInv', HandInv', Read PROVE OrderKept'
<1>1. /\ ReadSoFar' = ReadSoFar + 1 /\ ReadSoFar' \in 1..Len(sent)
      /\ sent' = sent /\ at' = sent[ReadSoFar'] /\ at' \in Sent
  BY ReadReads DEF OrderInv
<1>2. /\ UNCHANGED << governed, rulings, transport, deaths, received, toServer >> /\ pc = "reading"
      /\ pc' = IF Msgs[Head(inbox)].form = "blank" THEN "reading"
               ELSE IF Looks(Msgs[Head(inbox)]) THEN RelayDecision(Msgs[Head(inbox)]) ELSE "forwarding"
      /\ at' = Head(inbox)
  BY DEF Read, server
<1>3. PICK r : r = ReadSoFar
  OBVIOUS
<1>4. r \in Nat /\ ReadSoFar' = r + 1
  BY <1>1, <1>3, ReadSoFarIs DEF OrderInv
<1>5. Refused' = Refused
  BY <1>2, RefusedSame
<1>6. Through' = Through \cup (IF at' \in Refused THEN {} ELSE {r + 1})
  <2>1. Through' = { k \in 1..(r + 1) : sent[k] \notin Refused }
    BY <1>1, <1>4, <1>5 DEF Through
  <2>2. Through = { k \in 1..r : sent[k] \notin Refused }
    BY <1>3 DEF Through
  <2>3. at' = sent[r + 1]
    BY <1>1, <1>4
  <2> QED BY <1>4, <2>1, <2>2, <2>3
<1>7. CASE pc' = "forwarding"
  <2>1. Through' = Through \cup {r + 1}
    BY <1>5, <1>6, <1>7 DEF HandInv
  <2>2. Through \subseteq 1..((r + 1) - 1) /\ r + 1 \in Nat \ {0} /\ at' = sent[r + 1]
    BY <1>1, <1>3, <1>4 DEF Through
  <2> QED BY <1>1, <1>2, <1>7, <2>1, <2>2, OneMoreOrder
<1>8. CASE pc' # "forwarding"
  <2>1. at' \in Refused
    <3>1. CASE pc' = "reading"
      <4>1. Msgs[at'].form = "blank"
        BY <1>2, <3>1 DEF RelayDecision
      <4> QED BY <1>1, <4>1 DEF Refused
    <3>2. CASE pc' = "asking"
      <4>1. at' \notin rulings' /\ IsToolCall(Msgs[at']) /\ governed
        BY <1>2, <3>2 DEF HandInv
      <4> QED BY <1>1, <1>2, <4>1 DEF Refused
    <3>3. CASE pc' = "refusing"
      BY <1>5, <3>3 DEF HandInv
    <3> QED BY <1>2, <1>8, <3>1, <3>2, <3>3 DEF RelayDecision
  <2>2. Through' = Through /\ OnItsWay' = OnItsWay
    BY <1>2, <1>6, <1>8, <2>1 DEF OnItsWay
  <2>3. PICK way, places : way = OnItsWay /\ places = Through
    OBVIOUS
  <2>4. OrderKept' <=> (transport' = "stdio" /\ deaths' = 0 => TakenFrom(OnItsWay, sent, Through)')
    BY DEF OrderKept, Through, ReadSoFar
  <2>5. TakenFrom(OnItsWay, sent, Through)' <=> TakenFrom(way, sent, places)
    BY <1>1, <2>2, <2>3 DEF TakenFrom
  <2> QED BY <1>2, <2>3, <2>4, <2>5, OrderIs DEF OrderInv
<1> QED BY <1>7, <1>8

LEMMA GateOrder ==
  ASSUME OrderInv, NEW outcome, GateAnswers(outcome) PROVE OrderKept'
<1>1. /\ UNCHANGED << governed, transport, sent, inbox, deaths, at, received, toServer >>
      /\ pc = "asking"
      /\ \/ pc' = "refusing" /\ rulings' = rulings
         \/ pc' = "forwarding" /\ rulings' = rulings \cup {at}
  BY DEF GateAnswers, server, client
<1>2. CASE pc' = "refusing" /\ rulings' = rulings
  <2>1. OnItsWay' = OnItsWay
    BY <1>1, <1>2 DEF OnItsWay
  <2> QED BY <1>1, <1>2, <2>1, SameOrder
<1>3. CASE pc' = "forwarding" /\ rulings' = rulings \cup {at}
  <2>1. PICK r : r = ReadSoFar
    OBVIOUS
  <2>2. /\ r \in DOMAIN sent /\ at = sent[r] /\ at \in Sent /\ IsToolCall(Msgs[at]) /\ governed
        /\ at \notin rulings /\ ~HidesToolCall(Msgs[at]) /\ Msgs[at].form # "blank"
        /\ r \in Nat \ {0} /\ ReadSoFar' = r /\ DOMAIN sent = 1..Len(sent) /\ Len(sent) \in Nat
    <3>1. ReadSoFar \in 0..Len(sent) /\ Len(sent) \in Nat /\ DOMAIN sent = 1..Len(sent)
      BY ReadSoFarIs DEF OrderInv
    <3>2. ReadSoFar \in DOMAIN sent /\ at = sent[ReadSoFar] /\ ReadSoFar' = ReadSoFar
      BY <1>1 DEF OrderInv, HandInv, ReadSoFar
    <3> QED BY <1>1, <2>1, <3>1, <3>2 DEF OrderInv, HandInv, RelayInv
  <2>3. at \in Refused
    BY <2>2 DEF Refused
  <2>4. Refused' = Refused \ {at}
    <3>1. \A n \in Sent : n \in Refused' <=> (n \in Refused /\ n # at)
      BY <1>1, <1>3, <2>2 DEF Refused, IsToolCall, HidesToolCall
    <3> QED BY <3>1 DEF Refused
  <2>5. \A k \in 1..r : sent[k] = at <=> k = r
    BY <2>2 DEF OrderInv, HandInv
  <2>6. Through' = Through \cup {r} /\ Through \subseteq 1..(r - 1)
    <3>1. Through' = { k \in 1..r : sent[k] \notin Refused \ {at} }
      BY <1>1, <2>2, <2>4 DEF Through
    <3>2. Through = { k \in 1..r : sent[k] \notin Refused }
      BY <2>1 DEF Through
    <3>3. r \in 1..r
      BY <2>2
    <3>4. Through' = Through \cup {r}
      BY <2>3, <2>5, <3>1, <3>2, <3>3
    <3>5. ASSUME NEW k \in Through PROVE k \in 1..(r - 1)
      <4>1. k \in 1..r /\ k # r
        BY <2>2, <2>3, <3>2, <3>5
      <4> QED BY <2>2, <4>1
    <3> QED BY <3>4, <3>5
  <2> QED BY <1>1, <1>3, <2>2, <2>6, OneMoreOrder
<1> QED BY <1>1, <1>2, <1>3

LEMMA StepOrder ==
  ASSUME OrderInv, RelayInv', HandInv', [Next]_vars PROVE OrderKept'
<1> USE DEF client, server
<1>0. received \in Seq(Sent) /\ toServer \in Seq(Sent)
  BY DEF OrderInv, RelayInv
<1>1. CASE \E n \in Sent : Sends(n)
  BY <1>1, SendOrder
<1>2. CASE Read
  BY <1>2, ReadOrder
<1>3. CASE Rule
  BY <1>3, GateOrder DEF Rule
<1>4. CASE Forwards
  <2>1. /\ UNCHANGED << governed, transport, sent, inbox, rulings, deaths, received >>
        /\ pc = "forwarding" /\ toServer' = Append(toServer, at) /\ pc' # "forwarding"
    BY <1>4 DEF Forwards
  <2>2. at \in Sent
    BY <2>1 DEF OrderInv, RelayInv
  <2>3. received \o Append(toServer, at) \o <<>> = received \o toServer \o <<at>>
    BY <1>0, <2>2, WritesMove
  <2>4. OnItsWay' = OnItsWay
    BY <2>1, <2>3 DEF OnItsWay
  <2> QED BY <2>1, <2>4, SameOrder
<1>5. CASE CannotForward
  <2>1. /\ UNCHANGED << governed, transport, sent, inbox, rulings, deaths >>
        /\ pc = "forwarding" /\ ~up
    BY <1>5 DEF CannotForward
  <2>2. ~(transport = "stdio" /\ deaths = 0)
    BY <2>1 DEF OrderInv, HandInv
  <2> QED BY <2>1, <2>2, SameOrder
<1>6. CASE \/ Refuses \/ CutShort \/ EndOfInput \/ Stops \/ Closes \/ Pump
           \/ (\E n \in Sent : ServerAnswers(n)) \/ UNCHANGED vars
  <2>1. /\ UNCHANGED << governed, transport, sent, inbox, rulings, deaths, received, toServer, at >>
        /\ pc' = "forwarding" <=> pc = "forwarding"
    BY <1>6 DEF Refuses, CutShort, EndOfInput, Stops, Closes, Pump, ServerAnswers, vars, AfterRefusal
  <2>2. OnItsWay' = OnItsWay
    BY <2>1 DEF OnItsWay
  <2> QED BY <2>1, <2>2, SameOrder
<1>7. CASE ServerTakes
  <2>1. /\ UNCHANGED << governed, transport, sent, inbox, rulings, deaths, at, pc >>
        /\ toServer # <<>> /\ toServer' = Tail(toServer)
        /\ received' = Append(received, Head(toServer))
    BY <1>7 DEF ServerTakes
  <2>2. received' \o toServer' = received \o toServer
    BY <1>0, <2>1, ReadingMoves
  <2>3. OnItsWay' = OnItsWay
    BY <2>1, <2>2 DEF OnItsWay
  <2> QED BY <2>1, <2>3, SameOrder
<1>8. CASE ServerEnds
  <2>1. /\ UNCHANGED << governed, transport, sent, inbox, rulings, deaths, received, at, pc >>
        /\ toServer = <<>> /\ toServer' = <<>>
    BY <1>8 DEF ServerEnds, Gone
  <2>2. OnItsWay' = OnItsWay
    BY <2>1 DEF OnItsWay
  <2> QED BY <2>1, <2>2, SameOrder
<1>9. CASE ServerDies
  <2>1. deaths' # 0
    BY <1>9 DEF ServerDies, OrderInv, HandInv
  <2> QED BY <2>1 DEF OrderKept
<1> QED BY <1>1, <1>2, <1>3, <1>4, <1>5, <1>6, <1>7, <1>8, <1>9 DEF Next, Relays

\* Over stdio, to a server that lives, nothing is lost, repeated or overtaken,
\* whatever is refused on the way and however small the pipes are.
THEOREM NothingIsOvertaken == Spec => []OrderKept
<1>1. OrderInv /\ [Next]_vars => OrderInv'
  BY StepPasses, StepNames, StepHand, StepOrder DEF OrderInv
<1>2. OrderInv => OrderKept
  BY DEF OrderInv
<1> QED BY InitHand, <1>1, <1>2, PTL DEF Spec
-----------------------------------------------------------------------------
(* A request is in one place at a time, and answered once.                 *)

\* A client gives each of its requests an id of its own (JSON-RPC).
IdsDistinct ==
  \A m, n \in Sent : Msgs[m].id # None /\ Msgs[m].id = Msgs[n].id => m = n

\* Where a message that was read may be.
Hand == IF pc \in {"asking", "refusing", "forwarding"} THEN {at} ELSE {}
Answered == { n \in Sent : Msgs[n].id # None /\ IsAnswered(n) }
HaveRead == { sent[k] : k \in 1..ReadSoFar }

\* It is in one of the places at most, and in each sequence once.
Sorted(hand, to, work, from, answered, read) ==
  /\ hand \cup Range(to) \cup work \cup Range(from) \cup answered \subseteq read
  /\ hand \cap (Range(to) \cup work \cup Range(from) \cup answered) = {}
  /\ Range(to) \cap (work \cup Range(from) \cup answered) = {}
  /\ work \cap (Range(from) \cup answered) = {}
  /\ Range(from) \cap answered = {}
  /\ IsInjective(to) /\ IsInjective(from)

\* And a request is in one of them at least.
AllThere(hand, to, work, from, answered, read) ==
  \A n \in read : IsRequest(Msgs[n]) /\ Single(n) =>
    n \in hand \cup Range(to) \cup work \cup Range(from) \cup answered

OneAnswer ==
  /\ \E S : out \in Seq(S)
  /\ \A k, l \in DOMAIN out : out[k].id = out[l].id /\ out[k].id # None => k = l

\* The server and the pump are through when the relay has stopped, and it only
\* stops of its own accord when the client has closed and all was read.
EndInv ==
  /\ up \in BOOLEAN
  /\ ~up => toServer = <<>> /\ working = {}
  /\ transport \in {"stdio", "http"}
  /\ transport = "http" => ~closed /\ pc \notin {"ending", "stopped"}
  /\ pc \in {"ending", "stopped"} /\ deaths = 0 => inbox = <<>> /\ closed
  /\ pc = "stopped" => ~up /\ fromServer = <<>>

PlaceInv ==
  /\ Sorted(Hand, toServer, working, fromServer, Answered, HaveRead)
  /\ transport = "stdio" /\ deaths = 0 =>
       AllThere(Hand, toServer, working, fromServer, Answered, HaveRead)
  /\ OneAnswer
  /\ fromServer \in Seq(Sent)

AnswerInv == RelayInv /\ NameInv /\ HandInv /\ EndInv /\ PlaceInv

LEMMA InitAnswers == Init => AnswerInv
<1> SUFFICES ASSUME Init PROVE AnswerInv
  OBVIOUS
<1>1. /\ sent = <<>> /\ inbox = <<>> /\ out = <<>> /\ toServer = <<>> /\ fromServer = <<>>
      /\ working = {} /\ pc = "reading" /\ up = TRUE /\ closed = FALSE
      /\ transport \in {"stdio", "http"}
  BY DEF Init
<1>2. EndInv
  BY <1>1 DEF EndInv
<1>3. Hand = {} /\ Range(toServer) = {} /\ Range(fromServer) = {} /\ Answered = {}
      /\ IsInjective(toServer) /\ IsInjective(fromServer)
  BY <1>1 DEF Hand, Answered, IsAnswered, Range, IsInjective
<1>4. HaveRead = {}
  BY <1>1, Len(<<>>) = 0 DEF HaveRead, ReadSoFar
<1>5. OneAnswer /\ fromServer \in Seq(Sent)
  BY <1>1, EmptySeq DEF OneAnswer
<1>6. PlaceInv
  BY <1>1, <1>3, <1>4, <1>5 DEF PlaceInv, Sorted, AllThere
<1> QED BY <1>2, <1>6, InitPasses, InitNames, InitHand DEF AnswerInv, OrderInv
-----------------------------------------------------------------------------
\* What goes in at the end of a sequence, and out at its front.
LEMMA RangeGains ==
  ASSUME NEW S, NEW s \in Seq(S), NEW x \in S, x \notin Range(s), IsInjective(s)
  PROVE  Range(Append(s, x)) = Range(s) \cup {x} /\ IsInjective(Append(s, x))
<1>1. PICK u, n : u = Append(s, x) /\ n = Len(s)
  OBVIOUS
<1>2. /\ n \in Nat /\ DOMAIN s = 1..n /\ DOMAIN u = 1..(n + 1)
      /\ \A k \in 1..n : u[k] = s[k]
      /\ u[n + 1] = x
  BY <1>1, AppendProperties, LenProperties
<1>3. \A k \in 1..n : s[k] # x
  BY <1>2 DEF Range
<1>4. Range(u) = Range(s) \cup {x}
  <2>1. \A k \in 1..(n + 1) : k \in 1..n \/ k = n + 1
    BY <1>2
  <2>2. Range(u) \subseteq Range(s) \cup {x}
    BY <1>2, <2>1 DEF Range
  <2>3. n + 1 \in 1..(n + 1) /\ \A k \in 1..n : k \in 1..(n + 1)
    BY <1>2
  <2>4. Range(s) \cup {x} \subseteq Range(u)
    BY <1>2, <2>3 DEF Range
  <2> QED BY <2>2, <2>4
<1>5. IsInjective(u)
  <2> SUFFICES ASSUME NEW j \in 1..(n + 1), NEW k \in 1..(n + 1), u[j] = u[k] PROVE j = k
    BY <1>2 DEF IsInjective
  <2>1. CASE j \in 1..n /\ k \in 1..n
    BY <1>2, <2>1 DEF IsInjective
  <2>2. CASE j = n + 1 \/ k = n + 1
    BY <1>2, <1>3, <2>2
  <2> QED BY <1>2, <2>1, <2>2
<1> QED BY <1>1, <1>4, <1>5

LEMMA RangeLoses ==
  ASSUME NEW S, NEW s \in Seq(S), s # <<>>, IsInjective(s)
  PROVE  /\ Range(Tail(s)) = Range(s) \ {Head(s)} /\ IsInjective(Tail(s))
         /\ Head(s) \in Range(s) /\ Head(s) \in S /\ Tail(s) \in Seq(S)
<1>1. PICK u, n : u = Tail(s) /\ n = Len(s)
  OBVIOUS
<1>2. /\ n \in Nat \ {0} /\ DOMAIN s = 1..n /\ Head(s) = s[1] /\ s[1] \in S
      /\ u \in Seq(S) /\ Len(u) = n - 1 /\ DOMAIN u = 1..(n - 1)
      /\ \A k \in 1..(n - 1) : u[k] = s[k + 1]
  BY <1>1, HeadTailProperties, LenProperties, EmptySeq, ElementOfSeq
<1>3. \A k \in 1..(n - 1) : k + 1 \in 1..n /\ k + 1 # 1
  BY <1>2
<1>4. 1 \in DOMAIN s /\ s[1] \in Range(s)
  BY <1>2 DEF Range
<1>5. Range(u) \subseteq Range(s) \ {s[1]}
  BY <1>2, <1>3, <1>4 DEF Range, IsInjective
<1>6. Range(s) \ {s[1]} \subseteq Range(u)
  <2> SUFFICES ASSUME NEW k \in 1..n, k # 1 PROVE s[k] \in Range(u)
    BY <1>2 DEF Range
  <2>1. k - 1 \in 1..(n - 1) /\ (k - 1) + 1 = k
    BY <1>2
  <2>2. u[k - 1] = s[k]
    BY <1>2, <2>1
  <2> QED BY <1>2, <2>1, <2>2 DEF Range
<1>7. IsInjective(u)
  <2> SUFFICES ASSUME NEW j \in 1..(n - 1), NEW k \in 1..(n - 1), u[j] = u[k] PROVE j = k
    BY <1>2 DEF IsInjective
  <2>1. j + 1 = k + 1
    BY <1>2, <1>3 DEF IsInjective
  <2> QED BY <1>2, <2>1
<1> QED BY <1>1, <1>2, <1>4, <1>5, <1>6, <1>7

\* A message that was not answered is, and no other.
LEMMA AnswersOne ==
  ASSUME IdsDistinct, OneAnswer, NEW x \in Sent, x \notin Answered, NEW by,
         Answers(Msgs[x].id, by)
  PROVE  /\ Answered' = Answered \cup (IF Msgs[x].id # None THEN {x} ELSE {})
         /\ OneAnswer'
<1>1. PICK S : out \in Seq(S)
  BY DEF OneAnswer
<1>2. PICK a : a = [id |-> Msgs[x].id, by |-> by]
  OBVIOUS
<1>3. out' = Append(out, a) /\ a.id = Msgs[x].id
  BY <1>2 DEF Answers
<1> DEFINE T == S \cup {a}
<1>4. out \in Seq(T) /\ a \in T
  BY <1>1, SeqMonotonic
<1> HIDE DEF T
<1>5. PICK n : n = Len(out)
  OBVIOUS
<1>6. /\ out' \in Seq(T) /\ n \in Nat /\ DOMAIN out = 1..n /\ DOMAIN out' = 1..(n + 1)
      /\ \A k \in 1..n : out'[k] = out[k]
      /\ out'[n + 1] = a
  BY <1>3, <1>4, <1>5, AppendProperties, LenProperties
<1>7. \A k \in 1..(n + 1) : k \in 1..n \/ k = n + 1
  BY <1>6
<1>8. n + 1 \in 1..(n + 1) /\ \A k \in 1..n : k \in 1..(n + 1)
  BY <1>6
<1>9. \A m \in Sent : IsAnswered(m)' <=> IsAnswered(m) \/ Msgs[m].id = Msgs[x].id
  BY <1>3, <1>6, <1>7, <1>8 DEF IsAnswered
<1>10. Answered' = Answered \cup (IF Msgs[x].id # None THEN {x} ELSE {})
  BY <1>9 DEF Answered, IdsDistinct
<1>11. Msgs[x].id # None => \A k \in 1..n : out[k].id # Msgs[x].id
  BY <1>6 DEF Answered, IsAnswered
<1>12. ASSUME NEW k \in DOMAIN out', NEW l \in DOMAIN out', out'[k].id = out'[l].id, out'[k].id # None
       PROVE  k = l
  <2>1. CASE k \in 1..n /\ l \in 1..n
    BY <1>6, <1>12, <2>1 DEF OneAnswer
  <2>2. CASE k = n + 1 \/ l = n + 1
    BY <1>3, <1>6, <1>7, <1>11, <1>12, <2>2
  <2> QED BY <1>6, <1>7, <2>1, <2>2
<1> QED BY <1>6, <1>10, <1>12 DEF OneAnswer
-----------------------------------------------------------------------------
LEMMA StepEnds ==
  ASSUME HandInv, EndInv, [Next]_vars PROVE EndInv'
<1> USE DEF EndInv, client, server
<1>1. CASE \E n \in Sent : Sends(n)
  BY <1>1 DEF Sends
<1>2. CASE Read
  BY <1>2 DEF Read, RelayDecision
<1>3. CASE Rule
  BY <1>3 DEF Rule, GateAnswers
<1>4. CASE Refuses \/ Forwards \/ CutShort \/ EndOfInput
  BY <1>4 DEF Refuses, Forwards, CutShort, EndOfInput, AfterRefusal
<1>5. CASE CannotForward
  BY <1>5 DEF CannotForward, HandInv
<1>6. CASE Stops
  BY <1>6 DEF Stops
<1>7. CASE Closes \/ Pump
  BY <1>7 DEF Closes, Pump
<1>8. CASE ServerTakes \/ (\E n \in Sent : ServerAnswers(n))
  BY <1>8 DEF ServerTakes, ServerAnswers
<1>9. CASE ServerEnds
  BY <1>9 DEF ServerEnds, Gone
<1>10. CASE ServerDies
  <2>1. deaths' # 0
    BY <1>10 DEF ServerDies, HandInv
  <2>2. /\ up /\ up' = FALSE /\ toServer' = <<>> /\ working' = {}
        /\ UNCHANGED << transport, closed, pc, inbox, fromServer >>
    BY <1>10 DEF ServerDies, Gone
  <2> QED BY <2>1, <2>2
<1>11. CASE UNCHANGED vars
  BY <1>11 DEF vars
<1> QED BY <1>1, <1>2, <1>3, <1>4, <1>5, <1>6, <1>7, <1>8, <1>9, <1>10, <1>11 DEF Next, Relays
-----------------------------------------------------------------------------
LEMMA HandIsRead ==
  ASSUME NameInv, HandInv PROVE Hand \subseteq HaveRead /\ HaveRead \subseteq Sent
<1>1. /\ ReadSoFar \in 0..Len(sent) /\ Len(sent) \in Nat /\ DOMAIN sent = 1..Len(sent)
  BY ReadSoFarIs
<1>2. ReadSoFar \in DOMAIN sent => ReadSoFar \in 1..ReadSoFar
  BY <1>1
<1>3. \A k \in 1..ReadSoFar : sent[k] \in Sent
  BY <1>1, ElementOfSeq DEF NameInv
<1> QED BY <1>2, <1>3 DEF HandInv, Hand, HaveRead

\* The places as values, for a step that leaves some of them alone.
LEMMA PlacesKept ==
  ASSUME PlaceInv, UNCHANGED << transport, deaths, toServer, working, fromServer, out >>,
         Hand' = Hand, HaveRead' = HaveRead
  PROVE  PlaceInv'
<1>1. Answered' = Answered
  BY DEF Answered, IsAnswered
<1> QED BY <1>1 DEF PlaceInv, Sorted, AllThere, OneAnswer, IsRequest, Single

LEMMA SendPlaces ==
  ASSUME NameInv, PlaceInv, NEW n \in Sent, Sends(n) PROVE PlaceInv'
<1>1. UNCHANGED << transport, deaths, toServer, working, fromServer, out, pc, at >>
  BY DEF Sends, server
<1>2. ReadSoFar' = ReadSoFar /\ \A i \in 1..Len(sent) : sent'[i] = sent[i]
  BY SendReads
<1>3. \A k \in 1..ReadSoFar : sent'[k] = sent[k]
  BY <1>2, ReadSoFarIs
<1>4. HaveRead' = HaveRead
  BY <1>2, <1>3 DEF HaveRead
<1> QED BY <1>1, <1>4, PlacesKept DEF Hand

\* What is read was nowhere before.
LEMMA ReadPlaces ==
  ASSUME NameInv, HandInv, PlaceInv, Read PROVE PlaceInv'
<1>1. /\ ReadSoFar' = ReadSoFar + 1 /\ ReadSoFar' \in 1..Len(sent)
      /\ sent' = sent /\ at' = sent[ReadSoFar'] /\ at' \in Sent /\ at' = Head(inbox)
  BY ReadReads
<1>2. /\ UNCHANGED << transport, deaths, toServer, working, fromServer, out >> /\ pc = "reading"
      /\ pc' \in {"reading", "asking", "refusing", "forwarding"}
      /\ pc' = "reading" => Msgs[Head(inbox)].form = "blank"
  BY DEF Read, server, RelayDecision
<1>3. PICK r, x : r = ReadSoFar /\ x = at'
  OBVIOUS
<1>4. /\ r \in Nat /\ ReadSoFar' = r + 1 /\ Len(sent) \in Nat /\ DOMAIN sent = 1..Len(sent)
      /\ r + 1 \in 1..Len(sent)
  BY <1>1, <1>3, ReadSoFarIs
<1>5. x = sent[r + 1]
  BY <1>1, <1>3, <1>4
<1>6. HaveRead' = HaveRead \cup {x}
  <2>1. HaveRead' = { sent[k] : k \in 1..(r + 1) } /\ HaveRead = { sent[k] : k \in 1..r }
    BY <1>1, <1>3, <1>4 DEF HaveRead
  <2>2. \A k \in 1..(r + 1) : k \in 1..r \/ k = r + 1
    BY <1>4
  <2>3. r + 1 \in 1..(r + 1) /\ \A k \in 1..r : k \in 1..(r + 1)
    BY <1>4
  <2> QED BY <1>5, <2>1, <2>2, <2>3
<1>7. x \notin HaveRead
  <2>1. \A k \in 1..r : k \in DOMAIN sent /\ r + 1 \in DOMAIN sent /\ k # r + 1
    BY <1>4
  <2>2. \A k \in 1..r : sent[k] # sent[r + 1]
    BY <2>1 DEF HandInv
  <2> QED BY <1>3, <1>5, <2>2 DEF HaveRead
<1>8. Hand = {} /\ Hand' = IF pc' = "reading" THEN {} ELSE {x}
  BY <1>2, <1>3 DEF Hand
<1>9. pc' = "reading" => ~Single(x)
  BY <1>1, <1>2, <1>3 DEF Single
<1>10. Answered' = Answered
  BY <1>2 DEF Answered, IsAnswered
<1> DEFINE hand == IF pc' = "reading" THEN {} ELSE {x}
           read == HaveRead \cup {x}
<1>11. hand \in {{}, {x}} /\ (hand = {} => ~Single(x))
  BY <1>9
<1> HIDE DEF hand
<1>12. Sorted(hand, toServer, working, fromServer, Answered, read)
  BY <1>7, <1>11 DEF PlaceInv, Sorted
<1>13. transport = "stdio" /\ deaths = 0 => AllThere(hand, toServer, working, fromServer, Answered, read)
  BY <1>8, <1>11 DEF PlaceInv, AllThere
<1>14. Sorted(Hand, toServer, working, fromServer, Answered, HaveRead)'
  BY <1>2, <1>6, <1>8, <1>10, <1>12 DEF Sorted, hand
<1>15. transport' = "stdio" /\ deaths' = 0 =>
         AllThere(Hand, toServer, working, fromServer, Answered, HaveRead)'
  BY <1>2, <1>6, <1>8, <1>10, <1>13 DEF AllThere, hand, IsRequest, Single
<1> QED BY <1>2, <1>14, <1>15 DEF PlaceInv, OneAnswer

\* What is in hand is answered by the relay itself: refused, or not deliverable.
LEMMA OwnAnswerPlaces ==
  ASSUME IdsDistinct, NameInv, HandInv, PlaceInv, pc \in {"refusing", "forwarding"},
         NEW by, Answers(Msgs[at].id, by), pc' = "reading",
         UNCHANGED << transport, deaths, sent, inbox, toServer, working, fromServer >>
  PROVE  PlaceInv'
<1>1. Hand = {at} /\ Hand' = {} /\ HaveRead' = HaveRead
  BY DEF Hand, HaveRead, ReadSoFar
<1>2. PICK x : x = at
  OBVIOUS
<1>3. x \in Sent /\ x \notin Answered
  BY <1>1, <1>2, HandIsRead DEF PlaceInv, Sorted
<1>4. /\ Answered' = Answered \cup (IF Msgs[x].id # None THEN {x} ELSE {}) /\ OneAnswer'
  BY <1>2, <1>3, AnswersOne DEF PlaceInv
<1>5. IsRequest(Msgs[x]) /\ Single(x) => Msgs[x].id # None
  BY DEF IsRequest, Single
<1>6. PICK ans : ans = Answered'
  OBVIOUS
<1>7. Sorted({}, toServer, working, fromServer, ans, HaveRead)
  BY <1>1, <1>2, <1>4, <1>6 DEF PlaceInv, Sorted
<1>8. transport = "stdio" /\ deaths = 0 => AllThere({}, toServer, working, fromServer, ans, HaveRead)
  BY <1>1, <1>2, <1>4, <1>5, <1>6 DEF PlaceInv, AllThere
<1> QED BY <1>1, <1>4, <1>6, <1>7, <1>8 DEF PlaceInv, Sorted, AllThere, IsRequest, Single

LEMMA ForwardPlaces ==
  ASSUME RelayInv, NameInv, HandInv, PlaceInv, Forwards PROVE PlaceInv'
<1>1. /\ UNCHANGED << transport, deaths, sent, inbox, working, fromServer, out >>
      /\ pc = "forwarding" /\ pc' \in {"copying", "reading"} /\ toServer' = Append(toServer, at)
  BY DEF Forwards, client
<1>2. Hand = {at} /\ Hand' = {} /\ HaveRead' = HaveRead /\ Answered' = Answered
  BY <1>1 DEF Hand, HaveRead, ReadSoFar, Answered, IsAnswered
<1>3. PICK x, to : x = at /\ to = toServer'
  OBVIOUS
<1>4. x \in Sent /\ x \notin Range(toServer) /\ IsInjective(toServer) /\ toServer \in Seq(Sent)
  BY <1>2, <1>3, HandIsRead DEF PlaceInv, Sorted, RelayInv
<1>5. Range(to) = Range(toServer) \cup {x} /\ IsInjective(to)
  BY <1>1, <1>3, <1>4, RangeGains
<1>6. Sorted({}, to, working, fromServer, Answered, HaveRead)
  BY <1>2, <1>3, <1>5 DEF PlaceInv, Sorted
<1>7. transport = "stdio" /\ deaths = 0 => AllThere({}, to, working, fromServer, Answered, HaveRead)
  BY <1>2, <1>3, <1>5 DEF PlaceInv, AllThere
<1> QED BY <1>1, <1>2, <1>3, <1>6, <1>7 DEF PlaceInv, Sorted, AllThere, OneAnswer, IsRequest, Single

LEMMA PumpPlaces ==
  ASSUME IdsDistinct, PlaceInv, Pump PROVE PlaceInv'
<1>1. /\ UNCHANGED << transport, deaths, sent, inbox, working, toServer, at >>
      /\ fromServer # <<>> /\ fromServer' = Tail(fromServer)
      /\ Answers(Msgs[Head(fromServer)].id, "server")
      /\ pc' = pc \/ (pc = "copying" /\ pc' = "reading")
  BY DEF Pump, client
<1>2. Hand' = Hand /\ HaveRead' = HaveRead
  BY <1>1 DEF Hand, HaveRead, ReadSoFar
<1>3. PICK x, from, ans : x = Head(fromServer) /\ from = fromServer' /\ ans = Answered'
  OBVIOUS
<1>4. /\ Range(from) = Range(fromServer) \ {x} /\ IsInjective(from)
      /\ x \in Range(fromServer) /\ x \in Sent /\ from \in Seq(Sent)
  BY <1>1, <1>3, RangeLoses DEF PlaceInv, Sorted
<1>5. x \notin Answered
  BY <1>4 DEF PlaceInv, Sorted
<1>6. /\ ans = Answered \cup (IF Msgs[x].id # None THEN {x} ELSE {}) /\ OneAnswer'
  BY <1>1, <1>3, <1>4, <1>5, AnswersOne DEF PlaceInv
<1>7. IsRequest(Msgs[x]) /\ Single(x) => Msgs[x].id # None
  BY DEF IsRequest, Single
<1>8. Sorted(Hand, toServer, working, from, ans, HaveRead)
  BY <1>4, <1>6 DEF PlaceInv, Sorted
<1>9. transport = "stdio" /\ deaths = 0 => AllThere(Hand, toServer, working, from, ans, HaveRead)
  BY <1>4, <1>6, <1>7 DEF PlaceInv, AllThere
<1> QED BY <1>1, <1>2, <1>3, <1>4, <1>6, <1>8, <1>9 DEF PlaceInv, Sorted, AllThere, IsRequest, Single

LEMMA TakePlaces ==
  ASSUME RelayInv, PlaceInv, ServerTakes PROVE PlaceInv'
<1>1. /\ UNCHANGED << transport, deaths, sent, inbox, fromServer, out, at, pc >>
      /\ toServer # <<>> /\ toServer' = Tail(toServer)
      /\ \/ working' = working \cup {Head(toServer)}
         \/ working' = working /\ ~IsRequest(Msgs[Head(toServer)])
  BY DEF ServerTakes, client
<1>2. Hand' = Hand /\ HaveRead' = HaveRead /\ Answered' = Answered
  BY <1>1 DEF Hand, HaveRead, ReadSoFar, Answered, IsAnswered
<1>3. PICK x, to, work : x = Head(toServer) /\ to = toServer' /\ work = working'
  OBVIOUS
<1>4. /\ Range(to) = Range(toServer) \ {x} /\ IsInjective(to) /\ x \in Range(toServer)
  BY <1>1, <1>3, RangeLoses DEF PlaceInv, Sorted, RelayInv
<1>5. work = working \cup {x} \/ (work = working /\ ~IsRequest(Msgs[x]))
  BY <1>1, <1>3
<1>6. Sorted(Hand, to, work, fromServer, Answered, HaveRead)
  BY <1>4, <1>5 DEF PlaceInv, Sorted
<1>7. transport = "stdio" /\ deaths = 0 => AllThere(Hand, to, work, fromServer, Answered, HaveRead)
  BY <1>4, <1>5 DEF PlaceInv, AllThere
<1> QED BY <1>1, <1>2, <1>3, <1>6, <1>7 DEF PlaceInv, Sorted, AllThere, OneAnswer, IsRequest, Single

LEMMA ServerAnswerPlaces ==
  ASSUME PlaceInv, NEW n \in Sent, ServerAnswers(n) PROVE PlaceInv'
<1>1. /\ UNCHANGED << transport, deaths, sent, inbox, toServer, out, at, pc >>
      /\ n \in working /\ working' = working \ {n} /\ fromServer' = Append(fromServer, n)
  BY DEF ServerAnswers, client
<1>2. Hand' = Hand /\ HaveRead' = HaveRead /\ Answered' = Answered
  BY <1>1 DEF Hand, HaveRead, ReadSoFar, Answered, IsAnswered
<1>3. PICK from, work : from = fromServer' /\ work = working'
  OBVIOUS
<1>4. n \notin Range(fromServer) /\ IsInjective(fromServer) /\ fromServer \in Seq(Sent)
  BY <1>1 DEF PlaceInv, Sorted
<1>5. Range(from) = Range(fromServer) \cup {n} /\ IsInjective(from) /\ from \in Seq(Sent)
  BY <1>1, <1>3, <1>4, RangeGains, AppendProperties
<1>6. Sorted(Hand, toServer, work, from, Answered, HaveRead)
  BY <1>1, <1>3, <1>5 DEF PlaceInv, Sorted
<1>7. transport = "stdio" /\ deaths = 0 => AllThere(Hand, toServer, work, from, Answered, HaveRead)
  BY <1>1, <1>3, <1>5 DEF PlaceInv, AllThere
<1> QED BY <1>1, <1>2, <1>3, <1>5, <1>6, <1>7
  DEF PlaceInv, Sorted, AllThere, OneAnswer, IsRequest, Single

\* A server that dies takes its pipe and its work along; one that ends has none.
LEMMA GonePlaces ==
  ASSUME PlaceInv, HandInv, EndInv, ServerEnds \/ ServerDies PROVE PlaceInv'
<1>1. /\ UNCHANGED << transport, sent, inbox, fromServer, out, at, pc >>
      /\ toServer' = <<>> /\ working' = {}
      /\ \/ deaths' = deaths /\ toServer = <<>> /\ working = {}
         \/ deaths' # 0
  BY DEF ServerEnds, ServerDies, Gone, client, HandInv
<1>2. Hand' = Hand /\ HaveRead' = HaveRead /\ Answered' = Answered
  BY <1>1 DEF Hand, HaveRead, ReadSoFar, Answered, IsAnswered
<1>3. Range(<<>>) = {} /\ IsInjective(<<>>)
  BY DEF Range, IsInjective
<1>4. PICK to, work : to = toServer' /\ work = working'
  OBVIOUS
<1>5. Sorted(Hand, to, work, fromServer, Answered, HaveRead)
  BY <1>1, <1>3, <1>4 DEF PlaceInv, Sorted
<1>6. transport = "stdio" /\ deaths' = 0 => AllThere(Hand, to, work, fromServer, Answered, HaveRead)
  BY <1>1, <1>4 DEF PlaceInv
<1> QED BY <1>1, <1>2, <1>4, <1>5, <1>6 DEF PlaceInv, Sorted, AllThere, OneAnswer, IsRequest, Single

LEMMA StepPlaces ==
  ASSUME IdsDistinct, AnswerInv, [Next]_vars PROVE PlaceInv'
<1>0. RelayInv /\ NameInv /\ HandInv /\ EndInv /\ PlaceInv
  BY DEF AnswerInv
<1> USE DEF client, server
<1>1. CASE \E n \in Sent : Sends(n)
  BY <1>0, <1>1, SendPlaces
<1>2. CASE Read
  BY <1>0, <1>2, ReadPlaces
<1>3. CASE Rule
  <2>1. /\ UNCHANGED << transport, deaths, sent, inbox, toServer, working, fromServer, out, at >>
        /\ pc = "asking" /\ pc' \in {"refusing", "forwarding"}
    BY <1>3 DEF Rule, GateAnswers
  <2>2. Hand' = Hand /\ HaveRead' = HaveRead
    BY <2>1 DEF Hand, HaveRead, ReadSoFar
  <2> QED BY <1>0, <2>1, <2>2, PlacesKept
<1>4. CASE Refuses
  <2>1. /\ UNCHANGED << transport, deaths, sent, inbox, toServer, working, fromServer >>
        /\ pc = "refusing" /\ pc' = "reading" /\ Answers(Msgs[at].id, "gate")
    BY <1>4 DEF Refuses, RefusalId, AfterRefusal
  <2> QED BY <1>0, <2>1, OwnAnswerPlaces
<1>5. CASE Forwards
  BY <1>0, <1>5, ForwardPlaces
<1>6. CASE CannotForward
  <2>1. /\ UNCHANGED << transport, deaths, sent, inbox, toServer, working, fromServer >>
        /\ pc = "forwarding" /\ ~up
    BY <1>6 DEF CannotForward
  <2>2. CASE transport = "http"
    <3>1. Answers(Msgs[at].id, "proxy") /\ pc' = "reading"
      BY <1>6, <2>2 DEF CannotForward
    <3> QED BY <1>0, <2>1, <3>1, OwnAnswerPlaces
  <2>3. CASE transport # "http"
    <3>1. out' = out /\ pc' \in {"reading", "ending"}
      BY <1>6, <2>3 DEF CannotForward
    <3>2. Hand' = {} /\ HaveRead' = HaveRead /\ Answered' = Answered
      BY <2>1, <3>1 DEF Hand, HaveRead, ReadSoFar, Answered, IsAnswered
    <3>3. deaths # 0
      BY <1>0, <2>1 DEF HandInv, EndInv
    <3>4. Sorted({}, toServer, working, fromServer, Answered, HaveRead)
      BY <1>0 DEF PlaceInv, Sorted
    <3> QED BY <1>0, <2>1, <3>1, <3>2, <3>3, <3>4 DEF PlaceInv, Sorted, OneAnswer
  <2> QED BY <2>2, <2>3
<1>7. CASE CutShort \/ EndOfInput \/ Closes \/ UNCHANGED vars
  <2>1. /\ UNCHANGED << transport, deaths, sent, inbox, toServer, working, fromServer, out, at >>
        /\ \/ pc' = pc
           \/ pc \in {"copying", "reading"} /\ pc' \in {"reading", "ending"}
    BY <1>7 DEF CutShort, EndOfInput, Closes, vars
  <2>2. Hand' = Hand /\ HaveRead' = HaveRead
    BY <2>1 DEF Hand, HaveRead, ReadSoFar
  <2> QED BY <1>0, <2>1, <2>2, PlacesKept
<1>8. CASE Stops
  <2>1. /\ UNCHANGED << transport, deaths, sent, inbox, toServer, working, out, at >>
        /\ pc = "ending" /\ pc' = "stopped" /\ fromServer = <<>> /\ fromServer' = <<>>
    BY <1>8 DEF Stops, Joined
  <2>2. Hand' = Hand /\ HaveRead' = HaveRead
    BY <2>1 DEF Hand, HaveRead, ReadSoFar
  <2> QED BY <1>0, <2>1, <2>2, PlacesKept
<1>9. CASE Pump
  BY <1>0, <1>9, PumpPlaces
<1>10. CASE ServerTakes
  BY <1>0, <1>10, TakePlaces
<1>11. CASE \E n \in Sent : ServerAnswers(n)
  BY <1>0, <1>11, ServerAnswerPlaces
<1>12. CASE ServerEnds \/ ServerDies
  BY <1>0, <1>12, GonePlaces
<1> QED
  BY <1>1, <1>2, <1>3, <1>4, <1>5, <1>6, <1>7, <1>8, <1>9, <1>10, <1>11, <1>12 DEF Next, Relays

\* A set of which no two elements differ.
LEMMA AtMostOne ==
  ASSUME NEW T, \A j, k \in T : j = k PROVE Cardinality(T) <= 1
<1>1. CASE T = {}
  BY <1>1, FS_EmptySet
<1>2. CASE T # {}
  <2>1. PICK k : T = {k}
    BY <1>2
  <2>2. Cardinality({k}) = 1
    BY FS_Singleton
  <2>3. Cardinality(T) = 1
    BY <2>1, <2>2
  <2> QED BY <2>3
<1> QED BY <1>1, <1>2

LEMMA OnlyAnswer ==
  ASSUME OneAnswer, NEW n \in Sent, IsRequest(Msgs[n]), Single(n)
  PROVE  Cardinality({ k \in DOMAIN out : out[k].id = Msgs[n].id }) <= 1
<1>1. Msgs[n].id # None
  BY DEF IsRequest, Single
<1> DEFINE T == { k \in DOMAIN out : out[k].id = Msgs[n].id }
<1>2. \A j, k \in T : j = k
  BY <1>1 DEF OneAnswer
<1> HIDE DEF T
<1>3. Cardinality(T) <= 1
  BY <1>2, AtMostOne
<1> QED BY <1>3 DEF T

\* When the relay has stopped of its own accord every place is empty but one.
LEMMA AllAnswered ==
  ASSUME AnswerInv, pc = "stopped", deaths = 0,
         NEW n \in Sent, Contains(sent, n), IsRequest(Msgs[n]), Single(n)
  PROVE  IsAnswered(n)
<1>1. /\ transport = "stdio" /\ inbox = <<>> /\ toServer = <<>> /\ working = {} /\ fromServer = <<>>
  BY DEF AnswerInv, EndInv
<1>2. Hand = {} /\ Range(toServer) = {} /\ Range(fromServer) = {}
  BY <1>1 DEF Hand, Range
<1>3. n \in HaveRead
  <2>1. ReadSoFar = Len(sent)
    BY <1>1, ReadSoFarIs, Len(<<>>) = 0 DEF ReadSoFar, AnswerInv
  <2>2. PICK k \in 1..Len(sent) : sent[k] = n
    BY DEF Contains
  <2> QED BY <2>1, <2>2 DEF HaveRead
<1>4. n \in Answered
  BY <1>1, <1>2, <1>3 DEF AnswerInv, PlaceInv, AllThere
<1> QED BY <1>4 DEF Answered

\* With ids that are told apart no request is answered twice, by the server, the
\* gate or the proxy, and a relay that stops of its own accord has passed on
\* every answer.
THEOREM EachIsAnsweredOnce == IdsDistinct => (Spec => []AnsweredOnce)
<1> SUFFICES ASSUME IdsDistinct PROVE Spec => []AnsweredOnce
  OBVIOUS
<1>1. AnswerInv /\ [Next]_vars => AnswerInv'
  BY StepPasses, StepNames, StepHand, StepEnds, StepPlaces DEF AnswerInv
<1>2. AnswerInv => AnsweredOnce
  BY OnlyAnswer, AllAnswered DEF AnsweredOnce, AnswerInv, PlaceInv
<1> QED BY InitAnswers, <1>1, <1>2, PTL DEF Spec
=============================================================================
