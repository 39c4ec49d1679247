----------------------------- MODULE MCCheckout -----------------------------
(* Instances of Checkout: the donor has one pledge, p1 to o1, and the       *)
(* bucket screen hands over small orders.                                   *)
EXTENDS Checkout

CONSTANTS o1, o2, p1

row(org, id, amount) == [org |-> org, id |-> id, amount |-> amount]
order(once, amount, tips, items) ==
    [once |-> once, amount |-> amount, tips |-> tips, items |-> items]

(* Change a pledge and add one; with and without a tip. *)
ChangeAndAdd == order(FALSE, 3, 0, <<row(o1, p1, 1), row(o2, NoId, 2)>>)
Tipped       == order(FALSE, 2, 1, <<row(o2, NoId, 2), row(o1, p1, 0)>>)
(* Give once; the sum may be the sum paid monthly. *)
GiveOnce     == order(TRUE, 2, 1, <<row(o1, NoId, 2), row(o2, NoId, 0)>>)
(* Every row removed. *)
NoItems      == order(FALSE, 0, 1, <<>>)
(* Stop a pledge, or keep it. *)
StopPledge   == order(FALSE, 2, 0, <<row(o1, p1, 0), row(o2, NoId, 2)>>)
KeepPledge   == order(FALSE, 2, 0, <<row(o1, p1, 1), row(o2, NoId, 1)>>)

ProfilesHere == {[default |-> 3, tips |-> 0], [default |-> 0, tips |-> 0]}
PledgesHere  == {[d \in Loaded |-> [org |-> o1, amount |-> 3]]}

(* One row, too small a share to be saved. *)
TooSmall     == order(FALSE, 1, 0, <<row(o2, NoId, 0)>>)
AllOrders      == {ChangeAndAdd, Tipped, GiveOnce, NoItems, TooSmall}
StopOrKeep     == {StopPledge, KeepPledge}
=============================================================================
