---------------------------- MODULE MCAuthoring -----------------------------
(***************************************************************************)
(* Instances of Authoring for TLC: one policy, the whole interview, for    *)
(* each topic an answer that compiles and one that does not, a waiver or a *)
(* different one, and documents of two levels that propose a threshold.    *)
(***************************************************************************)
EXTENDS Authoring

MCOrder == << "scope", "principals", "roles", "thresholds", "escalation", "expiry", "exceptions" >>
MCSpecs == {"p"}
MCWords ==
  [ scope      |-> { <<"repo.write">>, <<"repo.write", ",", "budget">> },
    principals |-> { <<"0xana", "/", "0xbob", "and", "0xana">>, <<"ana">> },
    roles      |-> { <<"none">>, <<"the", "author", "never", "signs">> },
    thresholds |-> { <<"2", "of", "3">>, <<"two", "approvers", "unless", "friday">>,
                     <<"within", "2", "days">>, <<"0", "approvals">> },
    escalation |-> { <<"after", "8", "hours">>, <<"to", "the", "ciso">> },
    expiry     |-> { <<"in", "30", "days">>, <<"not", "applicable">> },
    exceptions |-> { <<"none">>, <<"itar", "and", "public">>, <<"anything", "else">> } ]

Doc(name, format, phrases, chunks) ==
  [name |-> name, format |-> format, phrases |-> phrases, chunks |-> chunks]
Memo == Doc("memo", "text", {"controlled unclassified information", "unclassified", "cui"},
            << <<"approvals", "of", "two", "...">>, <<"approval", "of", "two", "signers">>,
               <<"valid", "until", "4", "weeks">> >>)
Note == Doc("note", "text", {"public release"}, << <<"approve", "with", "2">> >>)
Scan == Doc("scan", "pdf", {"itar"}, << <<"expires">> >>)
Plain == Doc("plain", "text", {}, << <<"expires">> >>)
MCBatches == { <<Memo, Scan>>, <<Note>>, <<Plain>> }

MCCatalogs == { {}, {"ThresholdApproval", "TimeBoundedElevation"},
                {"ThresholdApproval", "SegregationOfDuties", "IncidentEscalation",
                 "TimeBoundedElevation", "ClassificationGate"} }
Unattended == [class |-> <<"repo.write">>, human |-> FALSE]
MCHistories == { <<>>,
                 << Unattended, [Unattended EXCEPT !.human = TRUE],
                    [Unattended EXCEPT !.class = <<"budget">>],
                    [Unattended EXCEPT !.class = <<"mail">>] >> }
=============================================================================
