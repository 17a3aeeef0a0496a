---------------------------- MODULE MCDeployment ----------------------------
(***************************************************************************)
(* Instances of Deployment for TLC: one policy on approvers and a          *)
(* threshold they can or cannot meet, documents of two levels, and a       *)
(* registry that holds the template or does not; what is deployed may be   *)
(* bound to two classes.                                                   *)
(***************************************************************************)
EXTENDS Deployment

MCOrder == << "principals", "thresholds" >>
MCSpecs == {"p"}
MCWords ==
  [ scope      |-> { <<"repo.write">>, <<"repo.read">> },
    principals |-> { <<"0xana", "and", "0xbob">> },
    thresholds |-> { <<"two", "signatures">>, <<"1", "of", "2">>, <<"3", "of", "3">> } ]
Doc(name, phrases) == [name |-> name, format |-> "text", phrases |-> phrases, chunks |-> << <<"text">> >>]
MCBatches == { << Doc("memo", {"cui"}) >>, << Doc("note", {"public release"}) >> }
\* Two must approve; or a verdict this version of the app has not heard of.
MCProtocol == { << 2, 2 >>, << 4, 0 >> }
MCCatalogs == { {"ThresholdApproval"}, {} }
\* Nothing is replayed here.
MCHistories == {}
=============================================================================
