----------------------------- MODULE BuyerPages -----------------------------
(***************************************************************************)
(* The pages of the buyer application, apps/user, in one tab that is       *)
(* logged in: the bid form, the history with its refunds and claims, the   *)
(* auction page, the leaderboard and the marketplace.                      *)
(*                                                                         *)
(* A page loads what it shows with calls of its own, in no order the code  *)
(* fixes, and what is under way when it is left changes nothing.  A refund *)
(* or a claim is different: its continuation writes localStorage after the *)
(* page is left too.  A call is answered, refused or lost; what the        *)
(* backend, AuctionBook, does with it and what the page does with the      *)
(* answer is one action.  Tabs and the session are BuyerSession.           *)
(***************************************************************************)
EXTENDS Integers, Sequences, FiniteSets, FiniteSetsExt

CONSTANTS
    Accounts,    \* accounts that log in at this browser, one after the other
    Rival,       \* a bidder, and the seller, on other computers
    Items, Amounts, Salts, Prices, Ulp, None,   \* as in AuctionBook
    Seconds,     \* timestamps of bids: text that ends with the second
    Subs,        \* main category -> its subcategories
    Category,    \* item -> its subcategory
    ListLimit,   \* how many auctions the backend lists (50)
    Histories,   \* the bids this browser may have on record at first
    RivalBids,   \* what the rival may have stored at first, on each auction
    MaxPresses,  \* bound: submissions, refunds and claims
    MaxCalls,    \* bound: refunds and claims under way at a time
    MaxFiles,    \* bound: key files downloaded
    MaxOthers    \* bound: what the rival and the seller do

Wallets == Accounts \cup {Rival}

ASSUME PageConstants ==
    /\ Rival \notin Accounts /\ None \notin Items \cup Amounts \cup Salts
    /\ Subs \in [{"hardware", "software"} -> SUBSET STRING]
    /\ \A i \in Items : \E m \in DOMAIN Subs : Category[i] \in Subs[m]
    /\ "all" \notin UNION {Subs[m] : m \in DOMAIN Subs}
    /\ ListLimit \in Nat \ {0}
    /\ {MaxPresses, MaxCalls, MaxFiles, MaxOthers} \subseteq Nat

VARIABLES
    auctions, sealed, answers, settled,  \* the backend: AuctionBook
    listing,                             \* its auctions, the newest first
    wallet,                              \* who is logged in
    bid_history,                         \* localStorage: saved bids
    refunded_bids, claimed_bids,         \* localStorage: their timestamps
    keyFiles,                            \* key files on the user's disk
    page,                                \* the page shown
    calls,                               \* slot -> a refund or claim under way
    presses,                             \* how often the user has pressed
    others                               \* how often the others have acted

book == <<auctions, sealed, answers, settled, listing, others>>
marks == <<refunded_bids, claimed_bids>>
vars == <<book, wallet, bid_history, marks, keyFiles, page, calls, presses>>

Book == INSTANCE AuctionBook

Elements(s) == {s[k] : k \in DOMAIN s}

Bid == [itemId : Items, hash : Book!Commitment, revealed : BOOLEAN,
        timestamp : Seconds]

ASSUME PageRecords ==
    Histories \subseteq Seq(Bid) /\ RivalBids \subseteq Book!Commitment

\* parseFloat of the amount, which is what bid_history keeps.
AmountOf(bid) == Book!Rounded(bid.hash.amount)

\* GET /auctions: the newest ListLimit auctions, whatever limit is asked for.
Listed ==
    SubSeq(listing, 1, IF Len(listing) < ListLimit THEN Len(listing)
                                                   ELSE ListLimit)

\* GET /zkp-proxy/proofs/:id
ProofsFor(item) == {b \in sealed : b.item = item}

Slots == 1 .. MaxCalls
Free == [kind |-> "free"]

-----------------------------------------------------------------------------
(***************************************************************************)
(* What a page shows, and what it has asked for.                           *)
(***************************************************************************)

Start == [kind |-> "login"]

\* asked: the itemIds the list was asked for with and has not arrived for.
FormPage(item, salt) ==
    [kind |-> "bid", itemId |-> item, asked |-> {item}, assets |-> <<>>,
     selectedAsset |-> None, bidAmount |-> None, saltKey |-> salt,
     zkpStatus |-> "idle", downloaded |-> FALSE]

HistoryPage(bids, refunded, claimed) ==
    [kind |-> "history", bids |-> bids, refunded |-> refunded,
     claimed |-> claimed, prices |-> None, asked |-> TRUE]

DetailPage(item) ==
    [kind |-> "detail", itemId |-> item, auction |-> None,
     asked |-> TRUE, loading |-> TRUE, actionLoading |-> FALSE]

BoardPage ==
    [kind |-> "board", assets |-> <<>>, selectedAssetId |-> None,
     listAsked |-> TRUE, asked |-> {}, participants |-> {}]

\* todo: the auctions whose bids are still to be asked for, one by one.
MarketPage ==
    [kind |-> "market", assets |-> <<>>, stage |-> "list", todo |-> <<>>,
     allCommits |-> {}, missed |-> {}, globalCommits |-> {},
     mainFilter |-> "all", subFilter |-> "all"]

TypeOK ==
    /\ Elements(listing) = DOMAIN auctions /\ DOMAIN auctions \subseteq Items
    /\ bid_history \in Seq(Bid)
    /\ refunded_bids \subseteq Seconds /\ claimed_bids \subseteq Seconds
    /\ keyFiles \subseteq [item : Items, hash : Book!Commitment]
    /\ page.kind = "bid" =>
           /\ page.zkpStatus \in {"idle", "generating", "done"}
           /\ page.zkpStatus # "idle" => page.bidAmount \in Amounts
           /\ page.downloaded => page.zkpStatus = "done"
           /\ page.selectedAsset \in Items \cup {None}
           /\ page.saltKey \in Salts
    /\ page.kind = "history" => page.bids \in Seq(Bid)
    /\ page.kind = "market" =>
           \/ page.subFilter = "all"
           \/ /\ page.mainFilter # "all"
              /\ page.subFilter \in Subs[page.mainFilter]
    /\ presses \in 0 .. MaxPresses /\ others \in 0 .. MaxOthers

-----------------------------------------------------------------------------
(***************************************************************************)
(* Going from page to page.                                                *)
(***************************************************************************)

\* What the calls of the page that is left still do.
Left == [s \in Slots |->
    IF calls[s] = Free THEN Free ELSE [calls[s] EXCEPT !.here = FALSE]]

Shows(p) ==
    /\ page' = p
    /\ calls' = Left
    /\ UNCHANGED <<book, wallet, bid_history, marks, keyFiles, presses>>

OpenMarketplace == page.kind # "market" /\ Shows(MarketPage)

OpenLeaderboard == page.kind # "board" /\ Shows(BoardPage)

OpenHistory ==
    /\ page.kind # "history"
    /\ Shows(HistoryPage(bid_history, refunded_bids, claimed_bids))

\* A card of the marketplace, or the button of an open auction.  Effects
\* choose the first salt.
OpenBidForm(item, salt) ==
    /\ \/ page.kind = "market" /\ item \in Elements(page.assets)
       \/ /\ page.kind = "detail" /\ page.itemId = item
          /\ ~ page.loading /\ page.auction # None
          /\ page.auction = "active"
    /\ page.kind = "market" =>
           /\ page.mainFilter # "all" => Category[item] \in Subs[page.mainFilter]
           /\ page.subFilter \in {"all", Category[item]}
    /\ Shows(FormPage(item, salt))

\* No link leads to the auction page: it is an address, come back to.
OpenAuction(item) == page.kind = "login" /\ Shows(DetailPage(item))

\* The tab is loaded again and an account logs in.
LogIn(account) ==
    /\ page.kind # "login"
    /\ page' = Start
    /\ calls' = [s \in Slots |-> Free]
    /\ wallet' = account
    /\ UNCHANGED <<book, bid_history, marks, keyFiles, presses>>

\* An action that concerns the page only.
PageOnly ==
    UNCHANGED <<book, wallet, bid_history, marks, keyFiles, calls, presses>>

-----------------------------------------------------------------------------
(***************************************************************************)
(* SubmitBid: the form.                                                    *)
(***************************************************************************)

\* Variant: a new salt leaves downloaded as it is.
WithAsset_KeepsDownloaded(form, item, salt) ==
    IF item = form.selectedAsset
      THEN form
      ELSE [form EXCEPT !.selectedAsset = item, !.saltKey = salt]

\* setSelectedAsset, and the effect on its id: generateRandomSalt.
WithAsset(form, item, salt) ==
    IF item = form.selectedAsset
      THEN form
      ELSE [form EXCEPT !.selectedAsset = item, !.saltKey = salt,
                        !.downloaded = FALSE]

\* The list arrives that was asked for when the address named itemId: that
\* auction is selected, or the newest one if the list has no such auction.
FormListArrives(itemId, salt, ok) ==
    LET asked == [page EXCEPT !.asked = @ \ {itemId}]
        current == IF itemId \in Elements(Listed) THEN itemId
                   ELSE IF Listed # <<>> THEN Listed[1] ELSE None
    IN
    /\ page.kind = "bid" /\ itemId \in page.asked
    /\ page' = IF ok
                 THEN WithAsset([asked EXCEPT !.assets = Listed], current, salt)
                 ELSE asked
    /\ PageOnly

\* The form can be used once an auction is selected, until the proving
\* console covers it.
FormIsOpen ==
    /\ page.kind = "bid" /\ page.zkpStatus = "idle"
    /\ page.assets # <<>> /\ page.selectedAsset # None

\* The dropdown selects the auction and changes the address; the list is
\* asked for again.
SelectAsset(item, salt) ==
    /\ FormIsOpen
    /\ item \in Elements(page.assets) /\ item # page.selectedAsset
    /\ page' = [WithAsset(page, item, salt) EXCEPT
           !.itemId = item,
           !.asked = IF item = page.itemId THEN @ ELSE @ \cup {item}]
    /\ PageOnly

\* Typing does not reset downloaded, the button "Acak Kunci" does.
TypeAmount(amount) ==
    /\ FormIsOpen
    /\ page' = [page EXCEPT !.bidAmount = amount]
    /\ PageOnly

TypeSalt(salt) ==
    /\ FormIsOpen
    /\ page' = [page EXCEPT !.saltKey = salt]
    /\ PageOnly

GenerateRandomSalt(salt) ==
    /\ FormIsOpen
    /\ page' = [page EXCEPT !.saltKey = salt, !.downloaded = FALSE]
    /\ PageOnly

\* The amounts are those the balance covers.
HandleStartCommit ==
    /\ FormIsOpen /\ page.bidAmount # None
    /\ page' = [page EXCEPT !.zkpStatus = "generating", !.downloaded = FALSE]
    /\ PageOnly

LogsEnd ==
    /\ page.kind = "bid" /\ page.zkpStatus = "generating"
    /\ page' = [page EXCEPT !.zkpStatus = "done"]
    /\ PageOnly

\* Follows amount and salt.
ComputedHash == Book!Keccak(page.bidAmount, page.saltKey)

DownloadKeyFile ==
    /\ page.kind = "bid" /\ page.zkpStatus = "done"
    /\ page.selectedAsset # None
    /\ keyFiles' = keyFiles \cup
           {[item |-> page.selectedAsset, hash |-> ComputedHash]}
    /\ Cardinality(keyFiles') <= MaxFiles
    /\ page' = [page EXCEPT !.downloaded = TRUE]
    /\ UNCHANGED <<book, wallet, bid_history, marks, calls, presses>>

\* Stored or not, the bid is saved and the history opens.
HandleFinalSubmit(timestamp) ==
    LET item == page.selectedAsset
        bid == [itemId |-> item, hash |-> ComputedHash, revealed |-> FALSE,
                timestamp |-> timestamp]
    IN
    /\ page.kind = "bid" /\ page.zkpStatus = "done" /\ page.downloaded
    /\ presses < MaxPresses /\ presses' = presses + 1
    /\ \A k \in DOMAIN bid_history : bid_history[k].timestamp <= timestamp
    /\ \/ Book!Seal(wallet, item, ComputedHash) /\ UNCHANGED <<listing, others>>
       \/ UNCHANGED book
    /\ bid_history' = Append(bid_history, bid)
    /\ page' = HistoryPage(bid_history', refunded_bids, claimed_bids)
    /\ calls' = Left
    /\ UNCHANGED <<wallet, marks, keyFiles>>

-----------------------------------------------------------------------------
(***************************************************************************)
(* History, and the refunds and claims of AuctionDetail.                   *)
(***************************************************************************)

\* The prices are asked for once, when the page is opened.
PricesArrive(ok) ==
    /\ page.kind = "history" /\ page.asked
    /\ page' = [page EXCEPT
           !.asked = FALSE,
           !.prices = IF ok THEN [i \in Elements(Listed) |->
                                      Book!Price(auctions[i])]
                            ELSE None]
    /\ PageOnly

\* getIsHighestBidForAsset: a tie with the price is a win, and without a
\* price the bid has lost.
IsHighest(bid) ==
    /\ page.prices # None /\ bid.itemId \in DOMAIN page.prices
    /\ AmountOf(bid) >= page.prices[bid.itemId]

Send(call) ==
    /\ presses < MaxPresses /\ presses' = presses + 1
    /\ \E s \in Slots :
           /\ calls[s] = Free
           /\ \A z \in 1 .. s - 1 : calls[z] # Free
           /\ calls' = [calls EXCEPT ![s] = call]

HistoryCall(kind, bid, marked) ==
    [kind |-> kind, from |-> "history", here |-> TRUE, wallet |-> wallet,
     item |-> bid.itemId, timestamp |-> bid.timestamp, marks |-> marked]

HandleWithdrawRefund(k) ==
    LET bid == page.bids[k] IN
    /\ bid.revealed /\ ~ IsHighest(bid) /\ bid.timestamp \notin page.refunded
    /\ Send(HistoryCall("refund", bid, page.refunded))
    /\ UNCHANGED <<book, wallet, bid_history, marks, keyFiles, page>>

HandleClaimAsset(k) ==
    LET bid == page.bids[k] IN
    /\ bid.revealed /\ IsHighest(bid) /\ bid.timestamp \notin page.claimed
    /\ Send(HistoryCall("claim", bid, page.claimed))
    /\ UNCHANGED <<book, wallet, bid_history, marks, keyFiles, page>>

\* Variant: the mark is set when the answer is an error too.
HistoryContinues_AnyAnswer(c, ok) ==
    LET updated == c.marks \cup {c.timestamp} IN
    /\ refunded_bids' = IF c.kind = "refund" THEN updated ELSE refunded_bids
    /\ claimed_bids' = IF c.kind = "claim" THEN updated ELSE claimed_bids
    /\ UNCHANGED page

\* On success: the marks the page had when the button was pressed, and the
\* bid's own.
HistoryContinues(c, ok) ==
    LET updated == c.marks \cup {c.timestamp}
        refunds == IF ok /\ c.kind = "refund" THEN updated ELSE refunded_bids
        claims == IF ok /\ c.kind = "claim" THEN updated ELSE claimed_bids
    IN
    /\ refunded_bids' = refunds /\ claimed_bids' = claims
    /\ page' = IF ~ (ok /\ c.here) THEN page
               ELSE IF c.kind = "refund" THEN [page EXCEPT !.refunded = refunds]
               ELSE [page EXCEPT !.claimed = claims]

\* Both buttons of an auction that is not active, for whoever looks at it.
HandleDetailCall(kind) ==
    /\ page.kind = "detail" /\ ~ page.loading
    /\ page.auction # None /\ page.auction # "active"
    /\ ~ page.actionLoading
    /\ Send([kind |-> kind, from |-> "detail", here |-> TRUE,
             wallet |-> wallet, item |-> page.itemId])
    /\ page' = [page EXCEPT !.actionLoading = TRUE]
    /\ UNCHANGED <<book, wallet, bid_history, marks, keyFiles>>

\* On success the auction is loaded again.
DetailContinues(c, ok) ==
    /\ page' = IF c.here
                 THEN [page EXCEPT !.actionLoading = FALSE,
                                   !.loading = @ \/ ok, !.asked = @ \/ ok]
                 ELSE page
    /\ UNCHANGED marks

\* Variant: loading is only reset on success.
DetailArrives_NoFinally(ok) ==
    /\ page.kind = "detail" /\ page.asked
    /\ page' = IF ok /\ page.itemId \in DOMAIN auctions
                 THEN [page EXCEPT !.asked = FALSE, !.loading = FALSE,
                           !.auction = auctions[page.itemId].auction_status]
                 ELSE [page EXCEPT !.asked = FALSE]
    /\ PageOnly

\* Both answers have arrived, or one has failed; a page that showed the
\* auction goes on showing it.
DetailArrives(ok) ==
    /\ page.kind = "detail" /\ page.asked
    /\ page' = [page EXCEPT
           !.asked = FALSE, !.loading = FALSE,
           !.auction = IF ok /\ page.itemId \in DOMAIN auctions
                         THEN auctions[page.itemId].auction_status
                         ELSE page.auction]
    /\ PageOnly

\* What the backend does with a call that it accepts.
Accepted(c) ==
    /\ \/ c.kind = "claim" /\ Book!Claim(c.wallet, c.item)
       \/ c.kind = "refund" /\ Book!Refund(c.wallet, c.item)
    /\ UNCHANGED <<listing, others>>

\* Accepted and answered, accepted and the answer lost, or refused.
Answer(s) ==
    /\ calls[s] # Free
    /\ \E ok \in BOOLEAN :
           /\ \/ Accepted(calls[s])
              \/ ~ ok /\ UNCHANGED book
           /\ IF calls[s].from = "history" THEN HistoryContinues(calls[s], ok)
                                           ELSE DetailContinues(calls[s], ok)
    /\ calls' = [calls EXCEPT ![s] = Free]
    /\ UNCHANGED <<wallet, bid_history, keyFiles, presses>>

-----------------------------------------------------------------------------
(***************************************************************************)
(* Leaderboard.                                                            *)
(***************************************************************************)

\* setSelectedAssetId, and the effect on it.
WithSelected(board, item) ==
    IF item = board.selectedAssetId THEN board
    ELSE [board EXCEPT !.selectedAssetId = item, !.asked = @ \cup {item}]

BoardListArrives(ok) ==
    LET loaded == [page EXCEPT !.listAsked = FALSE] IN
    /\ page.kind = "board" /\ page.listAsked
    /\ page' = IF ok /\ Listed # <<>>
                 THEN WithSelected([loaded EXCEPT !.assets = Listed], Listed[1])
                 ELSE loaded
    /\ PageOnly

SelectBoardAsset(item) ==
    /\ page.kind = "board" /\ item \in Elements(page.assets)
    /\ item # page.selectedAssetId
    /\ page' = WithSelected(page, item)
    /\ PageOnly

\* bids.find: of the saved bids on an item, the first.
SavedFor(item) == {k \in DOMAIN bid_history : bid_history[k].itemId = item}

FoundHash(item) ==
    IF SavedFor(item) = {} THEN None ELSE bid_history[Min(SavedFor(item))].hash

\* A row for every stored bid.  Every row of this wallet shows the first
\* saved bid on the auction; the others stay sealed, revealed or not.
Rows(item) ==
    {[proof |-> b,
      shown |-> IF b.wallet = wallet THEN FoundHash(item) ELSE None] :
        b \in ProofsFor(item)}

\* Variant: the amount is looked up for the auction selected now.
RowsArrive_Selected(item, ok) ==
    /\ page.kind = "board" /\ item \in page.asked
    /\ page' = [page EXCEPT
           !.asked = @ \ {item},
           !.participants =
               IF ok THEN {[proof |-> b,
                            shown |-> IF b.wallet = wallet
                                        THEN FoundHash(page.selectedAssetId)
                                        ELSE None] : b \in ProofsFor(item)}
               ELSE {}]
    /\ PageOnly

\* The answers of one selection replace the rows, whichever is selected by
\* then.
RowsArrive(item, ok) ==
    /\ page.kind = "board" /\ item \in page.asked
    /\ page' = [page EXCEPT
           !.asked = @ \ {item},
           !.participants = IF ok THEN Rows(item) ELSE {}]
    /\ PageOnly

-----------------------------------------------------------------------------
(***************************************************************************)
(* Marketplace.                                                            *)
(***************************************************************************)

MarketListArrives(ok) ==
    /\ page.kind = "market" /\ page.stage = "list"
    /\ page' = IF ok
                 THEN [page EXCEPT !.assets = Listed, !.todo = Listed,
                                   !.stage = "proofs"]
                 ELSE [page EXCEPT !.stage = "done"]
    /\ PageOnly

\* Variant: the loop is inside the try.
MarketProofsArrive_OneTry(ok) ==
    /\ page.kind = "market" /\ page.stage = "proofs" /\ page.todo # <<>>
    /\ page' = IF ok
                 THEN [page EXCEPT !.todo = Tail(@),
                           !.allCommits = @ \cup ProofsFor(Head(page.todo))]
                 ELSE [page EXCEPT !.stage = "done", !.todo = <<>>,
                                   !.missed = @ \cup {Head(page.todo)}]
    /\ PageOnly

\* The bids of the next auction arrive, or are skipped.
MarketProofsArrive(ok) ==
    /\ page.kind = "market" /\ page.stage = "proofs" /\ page.todo # <<>>
    /\ page' = IF ok
                 THEN [page EXCEPT !.todo = Tail(@),
                           !.allCommits = @ \cup ProofsFor(Head(page.todo))]
                 ELSE [page EXCEPT !.todo = Tail(@),
                                   !.missed = @ \cup {Head(page.todo)}]
    /\ PageOnly

\* setGlobalCommits, once, after the last.
MarketLoopEnds ==
    /\ page.kind = "market" /\ page.stage = "proofs" /\ page.todo = <<>>
    /\ page' = [page EXCEPT !.stage = "done", !.globalCommits = page.allCommits]
    /\ PageOnly

\* Variant: the subcategory stays.
HandleMainFilterChange_KeepsSub(filter) ==
    /\ page.kind = "market"
    /\ page' = [page EXCEPT !.mainFilter = filter]
    /\ PageOnly

HandleMainFilterChange(filter) ==
    /\ page.kind = "market"
    /\ page' = [page EXCEPT !.mainFilter = filter, !.subFilter = "all"]
    /\ PageOnly

\* The subcategories offered are those of the main category chosen.
SetSubFilter(filter) ==
    /\ page.kind = "market" /\ page.mainFilter # "all"
    /\ filter \in Subs[page.mainFilter] \cup {"all"}
    /\ page' = [page EXCEPT !.subFilter = filter]
    /\ PageOnly

-----------------------------------------------------------------------------
(***************************************************************************)
(* The backend under other users.                                          *)
(***************************************************************************)

\* Room for one more step, which the tab does not see.
Elsewhere ==
    /\ others < MaxOthers /\ others' = others + 1
    /\ UNCHANGED <<wallet, bid_history, marks, keyFiles, page, calls, presses>>

RivalCreates(item) ==
    /\ \E p \in Prices : Book!Create(Rival, item, p)
    /\ listing' = <<item>> \o listing
    /\ Elsewhere

RivalSeals(item, hash) ==
    /\ Book!Seal(Rival, item, hash) /\ UNCHANGED listing
    /\ Elsewhere

RivalReveals(item) ==
    /\ \E b \in ProofsFor(item) :
           b.wallet = Rival /\ Book!Reveal(Rival, item, b.hash)
    /\ UNCHANGED listing
    /\ Elsewhere

SellerEnds(item) ==
    /\ Book!SetStatus(Rival, item, "ended") /\ UNCHANGED listing
    /\ Elsewhere

-----------------------------------------------------------------------------
\* The best of the revealed bids on an item that beat the price.
Best(bids, item, price) ==
    {k \in DOMAIN bids :
        /\ bids[k].revealed /\ bids[k].itemId = item
        /\ AmountOf(bids[k]) > price
        /\ \A j \in DOMAIN bids :
               bids[j].revealed /\ bids[j].itemId = item =>
                   AmountOf(bids[j]) <= AmountOf(bids[k])}

\* One account has used this browser, all it saved was stored, and the rival
\* has bid too.
Init ==
    /\ wallet \in Accounts
    /\ bid_history \in Histories
    /\ \E p \in Prices : auctions =
           [i \in {bid_history[k].itemId : k \in DOMAIN bid_history} |->
               LET best == Best(bid_history, i, p) IN
               [seller_address |-> Rival, starting_price |-> p,
                current_highest_bid |->
                    IF best = {} THEN None
                    ELSE AmountOf(bid_history[CHOOSE k \in best : TRUE]),
                highest_bidder_address |-> IF best = {} THEN None ELSE wallet,
                auction_status |-> "active"]]
    /\ listing \in [1 .. Cardinality(DOMAIN auctions) -> DOMAIN auctions]
    /\ Elements(listing) = DOMAIN auctions
    /\ \E h \in RivalBids : sealed =
           {[item |-> b.itemId, wallet |-> wallet, hash |-> b.hash] :
               b \in Elements(bid_history)}
           \cup {[item |-> i, wallet |-> Rival, hash |-> h] :
                   i \in DOMAIN auctions}
    /\ answers = {[kind |-> "revealed", wallet |-> wallet, item |-> b.itemId,
                   amount |-> b.hash.amount] :
                      b \in {c \in Elements(bid_history) : c.revealed}}
    /\ settled = {}
    /\ refunded_bids = {} /\ claimed_bids = {}
    /\ keyFiles = {[item |-> b.itemId, hash |-> b.hash] :
                      b \in Elements(bid_history)}
    /\ page = Start
    /\ calls = [s \in Slots |-> Free]
    /\ presses = 0 /\ others = 0

User ==
    \/ OpenMarketplace \/ OpenLeaderboard \/ OpenHistory
    \/ \E a \in Accounts : LogIn(a)
    \/ \E i \in Items :
           \/ OpenAuction(i) \/ SelectBoardAsset(i)
           \/ \E s \in Salts : OpenBidForm(i, s) \/ SelectAsset(i, s)
    \/ \E a \in Amounts : TypeAmount(a)
    \/ \E s \in Salts : TypeSalt(s) \/ GenerateRandomSalt(s)
    \/ HandleStartCommit \/ DownloadKeyFile
    \/ \E ts \in Seconds : HandleFinalSubmit(ts)
    \/ /\ page.kind = "history"
       /\ \E k \in DOMAIN page.bids :
              HandleWithdrawRefund(k) \/ HandleClaimAsset(k)
    \/ \E kind \in {"claim", "refund"} : HandleDetailCall(kind)
    \/ \E f \in {"all"} \cup DOMAIN Subs : HandleMainFilterChange(f)
    \/ \E f \in {"all"} \cup UNION {Subs[m] : m \in DOMAIN Subs} : SetSubFilter(f)

\* What a page has asked for arrives, or the call fails.
Arrives ==
    \/ \E ok \in BOOLEAN :
           \/ \E i \in Items, s \in Salts : FormListArrives(i, s, ok)
           \/ PricesArrive(ok) \/ DetailArrives(ok) \/ BoardListArrives(ok)
           \/ \E i \in Items : RowsArrive(i, ok)
           \/ MarketListArrives(ok) \/ MarketProofsArrive(ok)
    \/ LogsEnd \/ MarketLoopEnds

Others ==
    \E i \in Items :
        \/ RivalCreates(i) \/ RivalReveals(i) \/ SellerEnds(i)
        \/ \E h \in Book!Commitment : RivalSeals(i, h)

Next == User \/ Arrives \/ (\E s \in Slots : Answer(s)) \/ Others

Spec == Init /\ [][Next]_vars

-----------------------------------------------------------------------------
(***************************************************************************)
(* Properties.                                                             *)
(***************************************************************************)

\* Whatever the backend has stored for a bid of this browser, the opening is
\* in a key file the user has downloaded, although lists that arrive late
\* change auction and salt under the form (SubmitBid.jsx:76, 95, 529).
OpeningIsKept ==
    \A b \in sealed :
        b.wallet \in Accounts => [item |-> b.item, hash |-> b.hash] \in keyFiles

\* A timestamp is marked as refunded or claimed only if the backend settled
\* the auction of a bid saved in that second, although bids are told apart by
\* their second only, calls overlap and pages are left (History.jsx:79, 96).
MarksAreAcknowledged ==
    \A ts \in refunded_bids \cup claimed_bids :
        \E k \in DOMAIN bid_history, n \in settled :
            /\ bid_history[k].timestamp = ts
            /\ n.item_id = bid_history[k].itemId
            /\ ts \notin claimed_bids => n.notification_type = "refund_success"
            /\ ts \notin refunded_bids => n.notification_type = "claim_success"

\* The leaderboard never shows an amount but one this browser has saved for
\* the auction of that row, whatever order selections are answered in
\* (Leaderboard.jsx:98).
AmountsAreOfTheRowsAuction ==
    page.kind = "board" =>
        \A row \in page.participants :
            row.shown # None =>
                /\ row.proof.wallet = wallet
                /\ \E k \in DOMAIN bid_history :
                       /\ bid_history[k].itemId = row.proof.item
                       /\ bid_history[k].hash = row.shown

\* Once the marketplace has loaded, it shows every stored bid of this browser
\* on the auctions it lists, but for the auctions whose own call failed: one
\* failure hides one auction (Marketplace.jsx:133).
OneFailureHidesOneAuction ==
    page.kind = "market" /\ page.stage = "done" =>
        \A i \in Elements(page.assets) \ page.missed :
            \A b \in ProofsFor(i) :
                b.wallet \in Accounts => b \in page.globalCommits

\* The spinner of an auction and its disabled buttons are there only while a
\* call is under way whose answer or failure takes them away, though pages
\* are left and come back to (AuctionDetail.jsx:63, 83, 102).
WaitsOnlyForAnswers ==
    page.kind = "detail" =>
        /\ page.loading => page.asked
        /\ page.actionLoading =>
               \E s \in Slots : /\ calls[s] # Free
                                /\ calls[s].from = "detail" /\ calls[s].here
                                /\ calls[s].item = page.itemId
=============================================================================
