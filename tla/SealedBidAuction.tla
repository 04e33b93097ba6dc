-------------------------- MODULE SealedBidAuction --------------------------
(***************************************************************************)
(* What a sealed-bid auction promises, with no contract, clock, hash or    *)
(* money in it: bids are sealed while bidding lasts, once per bidder and   *)
(* above the reserve; they are opened only after bidding has ended, and as *)
(* what they were sealed as; the award, made once, goes to the highest     *)
(* opened bid at its own price.  LelangContract implements it.             *)
(***************************************************************************)
EXTENDS Integers

CONSTANTS Bidders, Reserve, Amounts, NoAward

VARIABLES
    phase,   \* "bidding", "opening" or "awarded"
    sealed,  \* bidder -> amount, for the bidders that have sealed a bid
    opened,  \* the bidders that have opened theirs
    award    \* the winner and the price

vars == <<phase, sealed, opened, award>>

Init ==
    /\ phase = "bidding"
    /\ sealed = [b \in {} |-> 0]
    /\ opened = {}
    /\ award = NoAward

Seal(b, amount) ==
    /\ phase = "bidding"
    /\ b \notin DOMAIN sealed
    /\ amount > Reserve
    /\ sealed' = [c \in DOMAIN sealed \cup {b} |->
                    IF c = b THEN amount ELSE sealed[c]]
    /\ UNCHANGED <<phase, opened, award>>

EndBidding ==
    /\ phase = "bidding"
    /\ phase' = "opening"
    /\ UNCHANGED <<sealed, opened, award>>

Open(b) ==
    /\ phase = "opening"
    /\ b \in DOMAIN sealed \ opened
    /\ opened' = opened \cup {b}
    /\ UNCHANGED <<phase, sealed, award>>

Award(b) ==
    /\ phase = "opening"
    /\ b \in opened
    /\ \A c \in opened : sealed[c] <= sealed[b]
    /\ award' = [winner |-> b, price |-> sealed[b]]
    /\ phase' = "awarded"
    /\ UNCHANGED <<sealed, opened>>

Next ==
    \/ \E b \in Bidders, amount \in Amounts : Seal(b, amount)
    \/ EndBidding
    \/ \E b \in Bidders : Open(b) \/ Award(b)

Spec == Init /\ [][Next]_vars
=============================================================================
