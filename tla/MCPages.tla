------------------------------ MODULE MCPages ------------------------------
(***************************************************************************)
(* BuyerPages for TLC: three auctions of which two are listed, and what    *)
(* the browser may have on record: a bid to be revealed, two bids of one   *)
(* second on one auction, and on two.                                      *)
(***************************************************************************)
EXTENDS BuyerPages, TLC

CONSTANTS w1, i1, i2, i3, s1, s2

MCSubs == [hardware |-> {"hw-a"}, software |-> {"sw-a"}]

MCCategory == i1 :> "hw-a" @@ i2 :> "sw-a" @@ i3 :> "hw-a"

Saved(item, amount, salt, revealed, second) ==
    [itemId |-> item, hash |-> Book!Keccak(amount, salt),
     revealed |-> revealed, timestamp |-> second]

MCHistories ==
    {<<Saved(i1, 3, s1, FALSE, 1)>>,
     <<Saved(i1, 3, s1, TRUE, 1), Saved(i1, 4, s2, TRUE, 1)>>,
     <<Saved(i1, 4, s1, TRUE, 1), Saved(i2, 3, s2, FALSE, 1)>>}

MCRivalBids == {Book!Keccak(4, s2)}
=============================================================================
