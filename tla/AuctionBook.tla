----------------------------- MODULE AuctionBook -----------------------------
(***************************************************************************)
(* What the auction endpoints of the Express backend promise when one call *)
(* is answered at a time: a book of auctions, of sealed bids and of the    *)
(* settlements announced, in which every call takes effect at once or not  *)
(* at all.  AuctionBackend, with SQLite, implements it statement by        *)
(* statement; the browser applications are modelled against it.            *)
(***************************************************************************)
EXTENDS Integers

CONSTANTS
    Wallets, Items, Amounts, Salts, Prices,
    Ulp,        \* distance between adjacent doubles at these amounts
    None        \* SQL NULL

VARIABLES
    auctions,   \* item -> row
    sealed,     \* the bids on record: item, bidder and commitment
    answers,    \* what bidders were told: a bid is stored, a bid is revealed
    settled     \* what bidders were told: claimed, refunded

vars == <<auctions, sealed, answers, settled>>

\* parseFloat of a decimal amount: the nearest double.
Rounded(amount) == ((amount + (Ulp \div 2)) \div Ulp) * Ulp

\* current_highest_bid || starting_price.
Price(auction) ==
    IF auction.current_highest_bid \in {None, 0}
      THEN auction.starting_price
      ELSE auction.current_highest_bid

Commitment == [amount : Amounts, salt : Salts]

\* The commitment that is stored is opened by this amount and this salt only.
Keccak(amount, salt) == [amount |-> amount, salt |-> salt]

Init ==
    /\ auctions = [i \in {} |-> None]
    /\ sealed = {}
    /\ answers = {}
    /\ settled = {}

Create(wallet, item, price) ==
    /\ item \notin DOMAIN auctions
    /\ auctions' = [i \in DOMAIN auctions \cup {item} |->
           IF i = item
             THEN [seller_address         |-> wallet,
                   starting_price         |-> price,
                   current_highest_bid    |-> None,
                   highest_bidder_address |-> None,
                   auction_status         |-> "active"]
             ELSE auctions[i]]
    /\ UNCHANGED <<sealed, answers, settled>>

\* The seller ends the auction, or opens it again.
SetStatus(wallet, item, value) ==
    /\ item \in DOMAIN auctions
    /\ auctions[item].seller_address = wallet
    /\ auctions' = [auctions EXCEPT ![item].auction_status = value]
    /\ UNCHANGED <<sealed, answers, settled>>

Seal(wallet, item, hash) ==
    /\ item \in DOMAIN auctions
    /\ sealed' = sealed \cup {[item |-> item, wallet |-> wallet, hash |-> hash]}
    /\ answers' = answers \cup {[kind |-> "stored", wallet |-> wallet,
                                 item |-> item, hash |-> hash]}
    /\ UNCHANGED <<auctions, settled>>

\* Variant: an equal bid takes over.
Reveal_TieWins(wallet, item, hash) ==
    /\ [item |-> item, wallet |-> wallet, hash |-> hash] \in sealed
    /\ item \in DOMAIN auctions
    /\ answers' = answers \cup {[kind |-> "revealed", wallet |-> wallet,
                                 item |-> item, amount |-> hash.amount]}
    /\ auctions' =
           IF Rounded(hash.amount) >= Price(auctions[item])
             THEN [auctions EXCEPT
                       ![item].current_highest_bid = Rounded(hash.amount),
                       ![item].highest_bidder_address = wallet]
             ELSE auctions
    /\ UNCHANGED <<sealed, settled>>

\* The bid is opened, and is the highest from here on if it raises the price.
Reveal(wallet, item, hash) ==
    /\ [item |-> item, wallet |-> wallet, hash |-> hash] \in sealed
    /\ item \in DOMAIN auctions
    /\ answers' = answers \cup {[kind |-> "revealed", wallet |-> wallet,
                                 item |-> item, amount |-> hash.amount]}
    /\ auctions' =
           IF Rounded(hash.amount) > Price(auctions[item])
             THEN [auctions EXCEPT
                       ![item].current_highest_bid = Rounded(hash.amount),
                       ![item].highest_bidder_address = wallet]
             ELSE auctions
    /\ UNCHANGED <<sealed, settled>>

\* The highest bidder of the moment is told that the asset is theirs.
Claim(wallet, item) ==
    /\ item \in DOMAIN auctions
    /\ auctions[item].highest_bidder_address = wallet
    /\ settled' = settled \cup {[user_address |-> wallet, item_id |-> item,
                                 notification_type |-> "claim_success"]}
    /\ UNCHANGED <<auctions, sealed, answers>>

\* Everybody else is told that their collateral was paid back.
Refund(wallet, item) ==
    /\ item \in DOMAIN auctions
    /\ auctions[item].highest_bidder_address # wallet
    /\ settled' = settled \cup {[user_address |-> wallet, item_id |-> item,
                                 notification_type |-> "refund_success"]}
    /\ UNCHANGED <<auctions, sealed, answers>>

Next ==
    \E w \in Wallets, i \in Items :
        \/ \E p \in Prices : Create(w, i, p)
        \/ \E v \in {"active", "ended"} : SetStatus(w, i, v)
        \/ \E h \in Commitment : Seal(w, i, h) \/ Reveal(w, i, h)
        \/ Claim(w, i)
        \/ Refund(w, i)

Spec == Init /\ [][Next]_vars
=============================================================================
