---------------------------- MODULE BuyerSession ----------------------------
(***************************************************************************)
(* The buyer application, apps/user, as the tabs of one browser run it:    *)
(* the session and the saved bids in localStorage, which all tabs share,   *)
(* the pages that read them when they are opened and write them when an    *)
(* answer comes in, and the calls under way.                               *)
(*                                                                         *)
(* A tab's JavaScript runs to its next await, and effects run with the     *)
(* render that causes them: one action is one click, one answer or one     *)
(* timer.  A call keeps the values its handler had when it was sent, and   *)
(* its continuation runs after the page is left too; only closing or       *)
(* loading the tab drops it.  What the backend does with a call and what   *)
(* the tab does with the answer is one action: nothing else in the browser *)
(* depends on the time between.  The answer may be lost, and the call may  *)
(* fail before the backend sees it.  The backend is AuctionBook; the form  *)
(* on the bid page is BuyerPages.                                          *)
(***************************************************************************)
EXTENDS Integers, Sequences

CONSTANTS
    Tabs,        \* tabs of the browser
    Accounts,    \* accounts of the Keplr extension
    TestWallet,  \* the address of the developer bypass
    Rival,       \* a bidder on another computer
    Items, Amounts, Salts, Prices, Ulp, None,   \* as in AuctionBook
    Bypass,      \* the bypass tokens
    MaxSends,    \* bound: calls the user makes
    MaxCalls     \* bound: calls under way at a time

Wallets == Accounts \cup {TestWallet, Rival}

ASSUME BuyerConstants ==
    /\ {TestWallet, Rival, None, Bypass} \cap Accounts = {}
    /\ TestWallet \notin {Rival, None, Bypass}
    /\ Rival \notin {None, Bypass} /\ None # Bypass
    /\ MaxSends \in Nat /\ MaxCalls \in Nat

VARIABLES
    auctions, sealed, answers, settled,  \* the backend: AuctionBook
    jwt_token, wallet_address,           \* localStorage: the session
    bid_history,                         \* localStorage: saved bids
    tabs,                                \* tab -> its page
    calls,                               \* slot -> a call under way
    sends                                \* calls the user has made

book == <<auctions, sealed, answers, settled>>
session == <<jwt_token, wallet_address>>
vars == <<book, session, bid_history, tabs, calls, sends>>

Book == INSTANCE AuctionBook

\* As in AuctionBackend: prices are positive.
ASSUME BuyerAmounts ==
    /\ Amounts \subseteq Nat /\ Prices \subseteq Nat \ {0}
    /\ \A a \in Amounts : Book!Rounded(a) \in Nat
    /\ None \notin Nat

WalletOf(token) == IF token = Bypass THEN TestWallet ELSE token

\* An entry of bid_history; the hash stands for amount and salt too.
Bid == [itemId : Items, hash : Book!Commitment, revealed : BOOLEAN]

Slots == 1 .. MaxCalls
Free == [kind |-> "free"]
Timers == {"enter", "fallback"}

\* tab: where the continuation runs; here: the page that made the call is
\* still the one shown; bids: the list that page had.
Call(kind, t, token, item, hash, bids) ==
    [kind |-> kind, tab |-> t, here |-> TRUE, token |-> token,
     item |-> item, hash |-> hash, bids |-> bids]

\* "browse": the pages that neither read nor write what is modelled here.
Pages == {"browse", "bid", "reveal"}

Blank(page) == [page |-> page, bids |-> <<>>, busy |-> FALSE]

TypeOK ==
    /\ jwt_token \in Accounts \cup {Bypass, None}
    /\ wallet_address \in Accounts \cup {TestWallet, None}
    /\ bid_history \in Seq(Bid)
    /\ \A t \in Tabs :
           /\ tabs[t].page \in Pages \cup {"login", "closed"}
           /\ tabs[t].bids \in Seq(Bid)
    /\ \A s \in Slots : calls[s] # Free => calls[s].tab \in Tabs
    /\ sends \in 0 .. MaxSends

-----------------------------------------------------------------------------
(***************************************************************************)
(* Pages.                                                                  *)
(***************************************************************************)

\* The effects a page runs when it is opened: the list is read once.
Mounted(page, bids) ==
    [Blank(page) EXCEPT !.bids = IF page = "reveal" THEN bids ELSE <<>>]

\* The calls once tab t shows another page.
Left(cs, t) ==
    [s \in Slots |-> IF cs[s] # Free /\ cs[s].tab = t
                       THEN [cs[s] EXCEPT !.here = FALSE] ELSE cs[s]]

\* Without credentials every route but /login redirects there.
Route(want, token) == IF token = None THEN "login" ELSE want

\* Tab t comes to a path: the page that shows it already stays, another is
\* opened, and opening the login page ends the session.
Goes(t, want, token, bids, cs) ==
    LET page == Route(want, token) IN
    IF page = tabs[t].page
      THEN /\ tabs' = tabs /\ calls' = cs
           /\ jwt_token' = token /\ wallet_address' = WalletOf(token)
      ELSE /\ tabs' = [tabs EXCEPT ![t] = Mounted(page, bids)]
           /\ calls' = Left(cs, t)
           /\ jwt_token' = IF page = "login" THEN None ELSE token
           /\ wallet_address' =
                  IF page = "login" THEN None ELSE WalletOf(token)

Send(call) ==
    /\ sends < MaxSends
    /\ sends' = sends + 1
    /\ \E s \in Slots :
           /\ calls[s] = Free
           /\ \A z \in 1 .. s - 1 : calls[z] # Free
           /\ calls' = [calls EXCEPT ![s] = call]

Freed(s) == [calls EXCEPT ![s] = Free]

\* The page of a call, if it is still shown, turns into p.
Shows(s, p) ==
    tabs' = IF calls[s].here THEN [tabs EXCEPT ![calls[s].tab] = p] ELSE tabs

\* The tab is closed, or about to be loaded again.  Its calls may still
\* reach the backend; nobody waits for their answers.
Close(t) ==
    /\ tabs[t].page # "closed"
    /\ tabs' = [tabs EXCEPT ![t] = Blank("closed")]
    /\ calls' = [s \in Slots |->
           IF calls[s].kind \in Timers /\ calls[s].tab = t
             THEN Free ELSE calls[s]]
    /\ UNCHANGED <<book, session, bid_history, sends>>

\* A page that the stored session allows is shown, and its effects run,
\* before App removes the session.
Load(t, want) ==
    /\ tabs[t].page = "closed"
    /\ \A s \in Slots : calls[s] # Free => calls[s].tab # t
    /\ tabs' = [tabs EXCEPT ![t] = Mounted(Route(want, jwt_token), bid_history)]
    /\ jwt_token' = None /\ wallet_address' = None
    /\ UNCHANGED <<book, bid_history, calls, sends>>

\* Links, buttons and the history of the browser.
Navigate(t, want) ==
    /\ tabs[t].page \notin {"closed", want}
    /\ Goes(t, want, jwt_token, bid_history, calls)
    /\ UNCHANGED <<book, bid_history, sends>>

Logout(t) ==
    /\ tabs[t].page \in Pages
    /\ bid_history' = <<>>
    /\ Goes(t, "login", None, <<>>, calls)
    /\ UNCHANGED <<book, sends>>

-----------------------------------------------------------------------------
(***************************************************************************)
(* Login.                                                                  *)
(***************************************************************************)

\* Without Keplr the mock wallet signs, and the backend answers a bypass
\* token; token stands for what the backend will answer.
ConnectWallet(t, token) ==
    /\ tabs[t].page = "login" /\ ~ tabs[t].busy
    /\ tabs' = [tabs EXCEPT ![t].busy = TRUE]
    /\ Send(Call("auth", t, token, None, None, <<>>))
    /\ UNCHANGED <<book, session, bid_history>>

\* Variant: the address is stored when Keplr connects.
Authenticated_Early(s, ok) ==
    /\ calls[s].kind = "auth"
    /\ IF ok
         THEN jwt_token' = calls[s].token /\ UNCHANGED wallet_address
         ELSE /\ wallet_address' = WalletOf(calls[s].token)
              /\ UNCHANGED jwt_token
    /\ calls' = [calls EXCEPT
           ![s].kind = IF ok THEN "enter" ELSE "fallback"]
    /\ UNCHANGED <<bid_history, tabs, sends>>

\* The session is stored as a whole.  Either way a timer is started.
Authenticated(s, ok) ==
    /\ calls[s].kind = "auth"
    /\ IF ok
         THEN /\ jwt_token' = calls[s].token
              /\ wallet_address' = WalletOf(calls[s].token)
         ELSE UNCHANGED session
    /\ calls' = [calls EXCEPT
           ![s].kind = IF ok THEN "enter" ELSE "fallback"]
    /\ UNCHANGED <<bid_history, tabs, sends>>

\* The timers: one second after success the marketplace opens; after a
\* failure the bypass session is stored first.  When another tab has ended
\* the session the login page stays, without its overlay.
LoginTimer(s) ==
    LET c == calls[s]
        token == IF c.kind = "fallback" THEN Bypass ELSE jwt_token
    IN
    /\ c.kind \in {"enter", "fallback"}
    /\ IF token = None /\ c.here
         THEN /\ tabs' = [tabs EXCEPT ![c.tab].busy = FALSE]
              /\ calls' = Freed(s)
              /\ UNCHANGED session
         ELSE Goes(c.tab, "browse", token, bid_history, Freed(s))
    /\ UNCHANGED <<book, bid_history, sends>>

DirectBypass(t) ==
    /\ tabs[t].page = "login" /\ ~ tabs[t].busy
    /\ Goes(t, "browse", Bypass, bid_history, calls)
    /\ UNCHANGED <<book, bid_history, sends>>

-----------------------------------------------------------------------------
(***************************************************************************)
(* SubmitBid.handleFinalSubmit.                                            *)
(***************************************************************************)

\* The button stays enabled during the call: it may be pressed again.
FinalSubmit(t, item, hash) ==
    /\ tabs[t].page = "bid"
    /\ Send(Call("store", t, jwt_token, item, hash, <<>>))
    /\ UNCHANGED <<book, session, bid_history, tabs>>

\* Variant: the salt is not saved.
BidSaved_NoSalt(s) ==
    LET c == calls[s]
        bid == [itemId |-> c.item, hash |-> [amount |-> c.hash.amount],
                revealed |-> FALSE]
    IN
    /\ c.kind = "store"
    /\ bid_history' = Append(bid_history, bid)
    /\ Goes(c.tab, "browse", jwt_token, bid_history', Freed(s))
    /\ UNCHANGED sends

\* Whatever came of the call, the bid is added to the list as it is now, and
\* the user is told that it was sent.
BidSaved(s) ==
    LET c == calls[s]
        bid == [itemId |-> c.item, hash |-> c.hash, revealed |-> FALSE]
    IN
    /\ c.kind = "store"
    /\ bid_history' = Append(bid_history, bid)
    /\ Goes(c.tab, "browse", jwt_token, bid_history', Freed(s))
    /\ UNCHANGED sends

-----------------------------------------------------------------------------
(***************************************************************************)
(* RevealBid.handleReveal.                                                 *)
(***************************************************************************)

\* The user picks an unrevealed bid of the list and enters its opening.
RevealBid(t, k) ==
    LET bid == tabs[t].bids[k] IN
    /\ tabs[t].page = "reveal" /\ ~ tabs[t].busy
    /\ ~ bid.revealed
    /\ tabs' = [tabs EXCEPT ![t].busy = TRUE]
    /\ Send(Call("reveal", t, jwt_token, bid.itemId, bid.hash, tabs[t].bids))
    /\ UNCHANGED <<book, session, bid_history>>

\* The bids once those with this hash are revealed.
MarkRevealed(bids, hash) ==
    [k \in DOMAIN bids |-> [bids[k] EXCEPT
         !.revealed = bids[k].revealed \/ bids[k].hash = hash]]

\* Variant: the bid is marked before the answer is looked at.
BidRevealed_Optimistic(s, ok) ==
    LET c == calls[s]
        updated == MarkRevealed(c.bids, c.hash)
    IN
    /\ c.kind = "reveal"
    /\ bid_history' = updated
    /\ Shows(s, [tabs[c.tab] EXCEPT !.bids = updated, !.busy = FALSE])
    /\ calls' = Freed(s)
    /\ UNCHANGED <<session, sends>>

\* Variant: only the revealed bids are written back.
BidRevealed_Filtered(s, ok) ==
    LET c == calls[s]
        updated == MarkRevealed(c.bids, c.hash)
    IN
    /\ c.kind = "reveal"
    /\ bid_history' = IF ok
                        THEN SelectSeq(updated, LAMBDA b : b.revealed)
                        ELSE bid_history
    /\ Shows(s, [tabs[c.tab] EXCEPT !.bids = updated, !.busy = FALSE])
    /\ calls' = Freed(s)
    /\ UNCHANGED <<session, sends>>

\* On success the list this page read when it was opened is written back.
BidRevealed(s, ok) ==
    LET c == calls[s]
        updated == MarkRevealed(c.bids, c.hash)
    IN
    /\ c.kind = "reveal"
    /\ IF ok
         THEN /\ bid_history' = updated
              /\ Shows(s, [tabs[c.tab] EXCEPT !.bids = updated, !.busy = FALSE])
         ELSE /\ UNCHANGED bid_history
              /\ Shows(s, [tabs[c.tab] EXCEPT !.busy = FALSE])
    /\ calls' = Freed(s)
    /\ UNCHANGED <<session, sends>>

-----------------------------------------------------------------------------
(***************************************************************************)
(* The network and the backend.                                            *)
(***************************************************************************)

\* A reveal carries the number the amount parses to, and the backend hashes
\* that number: a bid of more digits than a number keeps is never opened.
Openable(hash) == Book!Keccak(Book!Rounded(hash.amount), hash.salt) = hash

\* What the backend does with a call it accepts.  The wallet is the one the
\* token was issued to.
Accepted(c) ==
    \/ c.kind = "auth" /\ UNCHANGED book
    \/ /\ c.kind = "store" /\ c.token # None
       /\ Book!Seal(WalletOf(c.token), c.item, c.hash)
    \/ /\ c.kind = "reveal" /\ c.token # None
       /\ Openable(c.hash)
       /\ Book!Reveal(WalletOf(c.token), c.item, c.hash)

\* What the tab does with the answer, or with the error.
Continue(s, ok) ==
    \/ /\ tabs[calls[s].tab].page = "closed"
       /\ calls' = Freed(s)
       /\ UNCHANGED <<session, bid_history, tabs, sends>>
    \/ /\ tabs[calls[s].tab].page # "closed"
       /\ \/ Authenticated(s, ok)
          \/ BidSaved(s)
          \/ BidRevealed(s, ok)

\* The backend accepts the call and the answer arrives; or the answer is
\* lost, or the backend refuses, or the call never gets there.
Answer(s) ==
    /\ calls[s].kind \notin {"free"} \cup Timers
    /\ \/ Accepted(calls[s]) /\ \E ok \in BOOLEAN : Continue(s, ok)
       \/ UNCHANGED book /\ Continue(s, FALSE)

\* The rival opens the bid it has stored.
RivalReveals ==
    /\ \E b \in sealed : b.wallet = Rival /\ Book!Reveal(Rival, b.item, b.hash)
    /\ UNCHANGED <<session, bid_history, tabs, calls, sends>>

-----------------------------------------------------------------------------
\* The auctions run, the rival has stored a bid on each.
Init ==
    /\ \E p \in Prices, h \in {g \in Book!Commitment : Openable(g)} :
           /\ auctions = [i \in Items |->
                  [seller_address |-> Rival, starting_price |-> p,
                   current_highest_bid |-> None,
                   highest_bidder_address |-> None,
                   auction_status |-> "active"]]
           /\ sealed = {[item |-> i, wallet |-> Rival, hash |-> h] : i \in Items}
    /\ answers = {}
    /\ settled = {}
    /\ jwt_token = None /\ wallet_address = None
    /\ bid_history = <<>>
    /\ tabs = [t \in Tabs |-> Blank("closed")]
    /\ calls = [s \in Slots |-> Free]
    /\ sends = 0

User(t) ==
    \/ Close(t)
    \/ \E want \in Pages : Load(t, want) \/ Navigate(t, want)
    \/ Logout(t)
    \/ \E token \in Accounts \cup {Bypass} : ConnectWallet(t, token)
    \/ DirectBypass(t)
    \/ \E i \in Items, h \in Book!Commitment : FinalSubmit(t, i, h)
    \/ \E k \in DOMAIN tabs[t].bids : RevealBid(t, k)

Next ==
    \/ \E t \in Tabs : User(t)
    \/ \E s \in Slots : Answer(s) \/ LoginTimer(s)
    \/ RivalReveals

Spec == Init /\ [][Next]_vars

-----------------------------------------------------------------------------
(***************************************************************************)
(* Properties.                                                             *)
(***************************************************************************)

\* The token and the address in localStorage are there together and belong
\* to one wallet, whatever tabs log in, bypass, reload and log out at the
\* same time, and whenever the timers of Login run out (Login.jsx:42,
\* keplr.js:162).
SessionIsOneWallets ==
    wallet_address = WalletOf(jwt_token)

\* A bid is shown as revealed only if the backend acknowledged an opening of
\* that commitment by the wallet that stored it: no lost answer, stale list
\* of another tab, or bid that never reached the backend gets past this
\* (RevealBid.jsx:147, SubmitBid.jsx:206).
RevealedIsAcknowledged ==
    \A k \in DOMAIN bid_history :
        bid_history[k].revealed =>
            \E a \in answers :
                /\ a.kind = "revealed"
                /\ a.amount = bid_history[k].hash.amount
                /\ [item |-> a.item, wallet |-> a.wallet,
                    hash |-> bid_history[k].hash] \in sealed

\* A bid leaves bid_history only when the user logs out, or when a reveal is
\* answered that was sent from a page opened before the bid was saved
\* (keplr.js:211, RevealBid.jsx:156).
OnlyNewerBidsAreOverwritten ==
    [][\A k \in DOMAIN bid_history :
           LET bid == bid_history[k]
               Kept(bids) == \E j \in DOMAIN bids :
                   [bids[j] EXCEPT !.revealed = bid.revealed] = bid
           IN
           \/ Kept(bid_history')
           \/ \E t \in Tabs : Logout(t)
           \/ \E s \in Slots : /\ calls[s].kind = "reveal" /\ calls'[s] = Free
                               /\ ~ Kept(calls[s].bids)]_vars

\* An auction changes only when a bid on it is opened for the first time: a
\* reveal sent again, because its answer was lost or the bid was saved twice,
\* leaves price and bidder alone (RevealBid.jsx:143, auctionController.js:336).
RepeatedRevealChangesNothing ==
    [][auctions' # auctions => answers' # answers]_vars
=============================================================================
