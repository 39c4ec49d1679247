---------------------------- MODULE MCDonateFlow ----------------------------
(* Instances of DonateFlow: two organisations, a cause that has both, and  *)
(* a donor with or without a pledge to the first.                          *)
EXTENDS DonateFlow

CONSTANTS o1, o2

Org2      == [cause |-> FALSE, orgs |-> <<o2>>]
CauseBoth == [cause |-> TRUE, orgs |-> <<o1, o2>>]

TargetsHere == {Org2, CauseBoth}
OneTarget   == {Org2}

doc(org, amount) == [org |-> org, amount |-> amount]
NoPledges  == {[i \in Ids |-> doc(None, 0)]}
OnePledge  == {[i \in Ids |-> IF i = 1 THEN doc(o1, 2) ELSE doc(None, 0)]}

NewDonor   == {[default |-> 0, tips |-> 0]}
PayingDonor == {[default |-> 2, tips |-> 0]}
=============================================================================
