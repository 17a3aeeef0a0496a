------------------------------ MODULE Decisions -------------------------------
(***************************************************************************)
(* The promise of one tenant's pipeline: rulings, answers and notes are    *)
(* atomic, and nothing that was recorded is ever changed or lost.          *)
(***************************************************************************)
EXTENDS DecisionBook

VARIABLE book

Init == book = EmptyBook

Rule == \E verdict \in Rulings : HasRoom(book) /\ book' = WithRuling(book, verdict)

Approve == \E id \in BookIds : MayApprove(book, id) /\ book' = WithAnswer(book, id, "approved")

Reject == \E id \in BookIds : MayReject(book, id) /\ book' = WithAnswer(book, id, "rejected")

Note == HasRoom(book) /\ book' = WithNote(book)

Next == Rule \/ Approve \/ Reject \/ Note

Spec == Init /\ [][Next]_book
=============================================================================
