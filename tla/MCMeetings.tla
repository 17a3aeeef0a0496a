---------------------------- MODULE MCMeetings ------------------------------
(***************************************************************************)
(* Instances of Meetings for TLC: one meeting that wants one human, and    *)
(* visitors of every kind that admission and quorum tell apart.            *)
(***************************************************************************)
EXTENDS Meetings

MCVisitor(name, human, attested, clearance) ==
  [name |-> name, human |-> human, attested |-> attested, clearance |-> clearance]

Ana      == MCVisitor("ana", TRUE, TRUE, 3)
Observer == MCVisitor("ana", TRUE, FALSE, None)
Guest    == MCVisitor("bo", TRUE, TRUE, 0)
Bot      == MCVisitor("bot", FALSE, TRUE, 2)

MCNames == {"ana", "bo", "bot"}
MCHumans == {"ana", "bo"}
MCAgendas == {"plan"}
OneMeeting == {"m1"}
MCTemplates == { [min |-> 1, cls |-> 2, agenda |-> "plan"] }
MCVisitors == { Ana, Bot }
EveryVisitor == { Ana, Observer, Guest, Bot }
=============================================================================
