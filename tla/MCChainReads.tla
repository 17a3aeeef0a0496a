---------------------------- MODULE MCChainReads ------------------------------
(***************************************************************************)
(* Instances of ChainReads for TLC: a tree of four tenants, one that goes *)
(* round in a circle and none at all, subjects with and without a record.  *)
(***************************************************************************)
EXTENDS ChainReads, TLC

MCNodes == {"root", "unit", "site", "team"}
Tenant(ceiling, kids) == [ceiling |-> ceiling, kids |-> kids]
World(root, tree, record, height) ==
  [root |-> root, tree |-> tree, record |-> record, height |-> height, id |-> 40204, balance |-> 7]
Cleared(clearance, foreign) == [clearance |-> clearance, foreign |-> foreign]

Full == [root |-> Tenant(3, <<"unit", "site">>), unit |-> Tenant(1, <<"team">>),
          site |-> Tenant(9, <<>>), team |-> Tenant(0, <<>>)]
Round == [Full EXCEPT !.unit = Tenant(2, <<"root">>), !.site = None]
Bare == [n \in MCNodes |-> None]
MCWorlds ==
  { World("root", Full, Cleared(3, FALSE), 2), World("root", Round, Cleared(3, TRUE), 0),
    [World(None, Bare, Unrecorded, 1) EXCEPT !.id = 1] }
MCEntitlements ==
  { [tier |-> "academic", expires |-> e, now |-> 1, tenant |-> t] : e \in {1, 2}, t \in {"root", "unit"} }
MCCounts == {0, 2}
MCTokens == << "WrappedSALT" >>

\* The readers are alike.
Alike == Permutations(Readers)
=============================================================================
