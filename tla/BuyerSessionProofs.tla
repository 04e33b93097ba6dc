------------------------- MODULE BuyerSessionProofs -------------------------
(***************************************************************************)
(* What the tabs of one browser can rely on, for any number of tabs,       *)
(* accounts, auctions and calls under way.  bid_history is written from    *)
(* lists that were read long before, so what is true of the stored list    *)
(* has to be true of every copy of it too: of the list on each page and of *)
(* the one each reveal under way will write back.                          *)
(***************************************************************************)
EXTENDS BuyerSession, SequenceTheorems, TLAPS

CallRecord ==
    [kind : {"auth", "enter", "fallback", "store", "reveal"}, tab : Tabs,
     here : BOOLEAN, token : Accounts \cup {Bypass, None},
     item : Items \cup {None}, hash : Book!Commitment \cup {None},
     bids : Seq(Bid)]

TabRecord ==
    [page : Pages \cup {"login", "closed"}, bids : Seq(Bid), busy : BOOLEAN]

\* The calls that carry a bid.
CarriesBid(c) == c.item \in Items /\ c.hash \in Book!Commitment

CallsTyped(cs) ==
    /\ cs \in [Slots -> {Free} \cup CallRecord]
    /\ \A s \in Slots :
           /\ cs[s].kind \in {"store", "reveal"} => CarriesBid(cs[s])
           /\ cs[s].kind = "auth" => cs[s].token # None

\* The inductive type invariant, with the session.
TypeInv ==
    /\ jwt_token \in Accounts \cup {Bypass, None}
    /\ wallet_address = WalletOf(jwt_token)
    /\ bid_history \in Seq(Bid)
    /\ tabs \in [Tabs -> TabRecord]
    /\ CallsTyped(calls)
    /\ sends \in 0 .. MaxSends

-----------------------------------------------------------------------------
(***************************************************************************)
(* Lists of bids.                                                          *)
(***************************************************************************)

LEMMA ListElements ==
  ASSUME NEW bids \in Seq(Bid), NEW k \in DOMAIN bids
  PROVE  bids[k] \in Bid
BY LenProperties, ElementOfSeq

LEMMA MarkedList ==
  ASSUME NEW bids \in Seq(Bid), NEW hash
  PROVE  /\ MarkRevealed(bids, hash) \in Seq(Bid)
         /\ DOMAIN MarkRevealed(bids, hash) = DOMAIN bids
         /\ \A k \in DOMAIN bids :
                MarkRevealed(bids, hash)[k] =
                    [bids[k] EXCEPT
                        !.revealed = bids[k].revealed \/ bids[k].hash = hash]
<1> DEFINE marked == MarkRevealed(bids, hash)
<1>1. /\ DOMAIN marked = DOMAIN bids
      /\ \A k \in DOMAIN bids :
             marked[k] = [bids[k] EXCEPT
                 !.revealed = bids[k].revealed \/ bids[k].hash = hash]
  BY DEF MarkRevealed
<1>2. \A k \in DOMAIN bids : marked[k] \in Bid
  <2> SUFFICES ASSUME NEW k \in DOMAIN bids PROVE marked[k] \in Bid
    OBVIOUS
  <2>1. bids[k] \in Bid
    BY ListElements
  <2>2. (bids[k].revealed \/ bids[k].hash = hash) \in BOOLEAN
    BY <2>1 DEF Bid
  <2>3. QED
    BY <1>1, <2>1, <2>2 DEF Bid
<1>3. DOMAIN bids = 1 .. Len(bids) /\ Len(bids) \in Nat
  BY LenProperties
<1>4. marked = [k \in 1 .. Len(bids) |-> marked[k]]
  BY <1>3 DEF MarkRevealed
<1>5. marked \in [1 .. Len(bids) -> Bid]
  BY <1>2, <1>3, <1>4
<1>6. marked \in Seq(Bid)
  BY <1>3, <1>5, SeqDef
<1>7. QED
  BY <1>1, <1>6

-----------------------------------------------------------------------------
(***************************************************************************)
(* Pages and calls.                                                        *)
(***************************************************************************)

LEMMA NoneIsNoToken ==
  /\ None \notin Accounts \cup {Bypass}
  /\ \A token \in Accounts \cup {Bypass} :
         WalletOf(token) \in Accounts \cup {TestWallet}
  /\ WalletOf(None) = None
BY BuyerConstants DEF WalletOf

LEMMA BlankTyped ==
  ASSUME NEW page \in Pages \cup {"login", "closed"}, NEW bids \in Seq(Bid)
  PROVE  Blank(page) \in TabRecord /\ Mounted(page, bids) \in TabRecord
<1>1. <<>> \in Seq(Bid)
  BY EmptySeq
<1>2. Blank(page) \in TabRecord
  BY <1>1 DEF Blank, TabRecord
<1>3. Mounted(page, bids) \in TabRecord
  BY <1>1 DEF Mounted, Blank, TabRecord
<1>4. QED
  BY <1>2, <1>3

LEMMA LeftTyped ==
  ASSUME NEW cs, CallsTyped(cs), NEW t
  PROVE  CallsTyped(Left(cs, t))
<1> DEFINE left == Left(cs, t)
<1>1. left = [s \in Slots |-> left[s]]
  BY DEF Left
<1>2. ASSUME NEW s \in Slots
      PROVE  \/ left[s] = cs[s]
             \/ cs[s] \in CallRecord /\ left[s] = [cs[s] EXCEPT !.here = FALSE]
  BY DEF Left, CallsTyped
<1>3. ASSUME NEW s \in Slots
      PROVE  /\ left[s] \in {Free} \cup CallRecord
             /\ left[s].kind \in {"store", "reveal"} => CarriesBid(left[s])
             /\ left[s].kind = "auth" => left[s].token # None
  <2>1. /\ cs[s] \in {Free} \cup CallRecord
        /\ cs[s].kind \in {"store", "reveal"} => CarriesBid(cs[s])
        /\ cs[s].kind = "auth" => cs[s].token # None
    BY DEF CallsTyped
  <2>2. CASE left[s] = cs[s]
    BY <2>1, <2>2
  <2>3. CASE cs[s] \in CallRecord /\ left[s] = [cs[s] EXCEPT !.here = FALSE]
    BY <2>1, <2>3 DEF CallRecord, CarriesBid
  <2>4. QED
    BY <1>2, <2>2, <2>3
<1>4. CallsTyped(left)
  <2>1. left \in [Slots -> {Free} \cup CallRecord]
    BY <1>1, <1>3
  <2>2. QED
    BY <1>3, <2>1 DEF CallsTyped
<1>5. QED
  BY <1>4

LEMMA LeftCopies ==
  ASSUME NEW cs, CallsTyped(cs), NEW t, NEW s \in Slots
  PROVE  /\ Left(cs, t)[s].kind = cs[s].kind
         /\ cs[s] # Free => Left(cs, t)[s].bids = cs[s].bids
<1>1. \/ Left(cs, t)[s] = cs[s]
      \/ /\ cs[s] \in CallRecord
         /\ Left(cs, t)[s] = [cs[s] EXCEPT !.here = FALSE]
  BY DEF Left, CallsTyped
<1>2. QED
  BY <1>1 DEF CallRecord

LEMMA FreedTyped ==
  ASSUME CallsTyped(calls), NEW s \in Slots
  PROVE  CallsTyped(Freed(s))
<1>1. Free.kind = "free"
  BY DEF Free
<1>2. QED
  BY <1>1 DEF Freed, CallsTyped

LEMMA SendTyped ==
  ASSUME CallsTyped(calls), sends \in 0 .. MaxSends,
         NEW call \in CallRecord,
         call.kind \in {"store", "reveal"} => CarriesBid(call),
         call.kind = "auth" => call.token # None,
         Send(call)
  PROVE  /\ CallsTyped(calls') /\ sends' \in 0 .. MaxSends
         /\ \E s \in Slots : calls' = [calls EXCEPT ![s] = call]
<1>1. PICK s \in Slots : calls' = [calls EXCEPT ![s] = call]
  BY DEF Send
<1>2. CallsTyped(calls')
  BY <1>1 DEF CallsTyped
<1>3. sends' \in 0 .. MaxSends
  BY BuyerConstants DEF Send
<1>4. QED
  BY <1>1, <1>2, <1>3

\* Coming to a path keeps the session whole, or ends it.
LEMMA GoesTyped ==
  ASSUME TypeInv, NEW t \in Tabs, NEW want \in Pages \cup {"login"},
         NEW token \in Accounts \cup {Bypass, None}, NEW bids \in Seq(Bid),
         NEW cs, CallsTyped(cs),
         Goes(t, want, token, bids, cs)
  PROVE  /\ jwt_token' \in Accounts \cup {Bypass, None}
         /\ wallet_address' = WalletOf(jwt_token')
         /\ tabs' \in [Tabs -> TabRecord]
         /\ CallsTyped(calls')
<1> DEFINE page == Route(want, token)
<1>1. page \in Pages \cup {"login"}
  BY DEF Route
<1>2. CASE page = tabs[t].page
  BY <1>2 DEF Goes, TypeInv
<1>3. CASE page # tabs[t].page
  <2>1. /\ tabs' = [tabs EXCEPT ![t] = Mounted(page, bids)]
        /\ calls' = Left(cs, t)
        /\ jwt_token' = IF page = "login" THEN None ELSE token
        /\ wallet_address' = IF page = "login" THEN None ELSE WalletOf(token)
    BY <1>3 DEF Goes
  <2>2. tabs' \in [Tabs -> TabRecord]
    BY <1>1, <2>1, BlankTyped DEF TypeInv
  <2>3. CallsTyped(calls')
    BY <2>1, LeftTyped
  <2>4. wallet_address' = WalletOf(jwt_token')
    BY <2>1, NoneIsNoToken
  <2>5. jwt_token' \in Accounts \cup {Bypass, None}
    BY <2>1
  <2>6. QED
    BY <2>2, <2>3, <2>4, <2>5
<1>4. QED
  BY <1>2, <1>3

-----------------------------------------------------------------------------
(***************************************************************************)
(* Types, and the session.                                                 *)
(***************************************************************************)

LEMMA CallTyped ==
  ASSUME NEW kind \in {"auth", "store", "reveal"}, NEW t \in Tabs,
         NEW token \in Accounts \cup {Bypass, None},
         NEW item \in Items \cup {None}, NEW hash \in Book!Commitment \cup {None},
         NEW bids \in Seq(Bid)
  PROVE  Call(kind, t, token, item, hash, bids) \in CallRecord
BY DEF Call, CallRecord

LEMMA InitTyped == Init => TypeInv
<1> SUFFICES ASSUME Init PROVE TypeInv
  OBVIOUS
<1>1. <<>> \in Seq(Bid)
  BY EmptySeq
<1>2. tabs \in [Tabs -> TabRecord]
  BY <1>1 DEF Init, Blank, TabRecord
<1>3. CallsTyped(calls)
  BY DEF Init, CallsTyped, Free
<1>4. wallet_address = WalletOf(jwt_token) /\ sends \in 0 .. MaxSends
  BY NoneIsNoToken, BuyerConstants DEF Init
<1>5. QED
  BY <1>1, <1>2, <1>3, <1>4 DEF Init, TypeInv

LEMMA UserTyped ==
  ASSUME TypeInv, NEW t \in Tabs, User(t)
  PROVE  TypeInv'
<1>0. <<>> \in Seq(Bid)
  BY EmptySeq
<1>1. CASE Close(t)
  <2>1. tabs' \in [Tabs -> TabRecord]
    BY <1>1, BlankTyped DEF Close, TypeInv
  <2>2. CallsTyped(calls')
    <3>1. /\ calls' = [s \in Slots |-> calls'[s]]
          /\ \A s \in Slots : calls'[s] \in {Free, calls[s]}
      BY <1>1 DEF Close
    <3>2. Free.kind = "free"
      BY DEF Free
    <3>3. QED
      BY <3>1, <3>2 DEF TypeInv, CallsTyped
  <2>3. QED
    BY <1>1, <2>1, <2>2 DEF Close, TypeInv, book, session
<1>2. CASE \E want \in Pages : Load(t, want)
  <2>1. PICK want \in Pages : Load(t, want)
    BY <1>2
  <2>2. Route(want, jwt_token) \in Pages \cup {"login"}
    BY DEF Route
  <2>3. tabs' \in [Tabs -> TabRecord]
    BY <2>1, <2>2, BlankTyped DEF Load, TypeInv
  <2>4. QED
    BY <2>1, <2>3, NoneIsNoToken DEF Load, TypeInv
<1>3. CASE \E want \in Pages : Navigate(t, want)
  <2>1. PICK want \in Pages : Navigate(t, want)
    BY <1>3
  <2>2. /\ Goes(t, want, jwt_token, bid_history, calls)
        /\ UNCHANGED <<bid_history, sends>>
    BY <2>1 DEF Navigate
  <2>3. QED
    BY <2>2, GoesTyped DEF TypeInv
<1>4. CASE Logout(t)
  <2>1. /\ Goes(t, "login", None, <<>>, calls)
        /\ bid_history' = <<>> /\ UNCHANGED sends
    BY <1>4 DEF Logout
  <2>2. QED
    BY <1>0, <2>1, GoesTyped DEF TypeInv
<1>5. CASE \E token \in Accounts \cup {Bypass} : ConnectWallet(t, token)
  <2>1. PICK token \in Accounts \cup {Bypass} : ConnectWallet(t, token)
    BY <1>5
  <2> DEFINE call == Call("auth", t, token, None, None, <<>>)
  <2>2. call \in CallRecord /\ call.kind = "auth" /\ call.token # None
    BY <1>0, CallTyped, NoneIsNoToken DEF Call
  <2>3. Send(call) /\ UNCHANGED <<session, bid_history>>
        /\ tabs' = [tabs EXCEPT ![t].busy = TRUE]
    BY <2>1 DEF ConnectWallet
  <2>4. CallsTyped(calls') /\ sends' \in 0 .. MaxSends
    BY <2>2, <2>3, SendTyped DEF TypeInv
  <2>5. tabs' \in [Tabs -> TabRecord]
    BY <2>3 DEF TypeInv, TabRecord
  <2>6. QED
    BY <2>3, <2>4, <2>5 DEF TypeInv, session
<1>6. CASE DirectBypass(t)
  <2>1. /\ Goes(t, "browse", Bypass, bid_history, calls)
        /\ UNCHANGED <<bid_history, sends>>
    BY <1>6 DEF DirectBypass
  <2>2. QED
    BY <2>1, GoesTyped DEF TypeInv, Pages
<1>7. CASE \E i \in Items, h \in Book!Commitment : FinalSubmit(t, i, h)
  <2>1. PICK i \in Items, h \in Book!Commitment : FinalSubmit(t, i, h)
    BY <1>7
  <2> DEFINE call == Call("store", t, jwt_token, i, h, <<>>)
  <2>2. call \in CallRecord /\ call.kind = "store" /\ CarriesBid(call)
    BY <1>0, CallTyped DEF Call, CarriesBid, TypeInv
  <2>3. Send(call) /\ UNCHANGED <<session, bid_history, tabs>>
    BY <2>1 DEF FinalSubmit
  <2>4. CallsTyped(calls') /\ sends' \in 0 .. MaxSends
    BY <2>2, <2>3, SendTyped DEF TypeInv
  <2>5. QED
    BY <2>3, <2>4 DEF TypeInv, session
<1>8. CASE \E k \in DOMAIN tabs[t].bids : RevealBid(t, k)
  <2>1. PICK k \in DOMAIN tabs[t].bids : RevealBid(t, k)
    BY <1>8
  <2> DEFINE bid == tabs[t].bids[k]
             call == Call("reveal", t, jwt_token, bid.itemId, bid.hash,
                          tabs[t].bids)
  <2>2. tabs[t].bids \in Seq(Bid) /\ bid \in Bid
    BY ListElements DEF TypeInv, TabRecord
  <2>3. call \in CallRecord /\ call.kind = "reveal" /\ CarriesBid(call)
    BY <2>2, CallTyped DEF Call, CarriesBid, Bid, TypeInv
  <2>4. Send(call) /\ UNCHANGED <<session, bid_history>>
        /\ tabs' = [tabs EXCEPT ![t].busy = TRUE]
    BY <2>1 DEF RevealBid
  <2>5. CallsTyped(calls') /\ sends' \in 0 .. MaxSends
    BY <2>3, <2>4, SendTyped DEF TypeInv
  <2>6. tabs' \in [Tabs -> TabRecord]
    BY <2>4 DEF TypeInv, TabRecord
  <2>7. QED
    BY <2>4, <2>5, <2>6 DEF TypeInv, session
<1>9. QED
  BY <1>1, <1>2, <1>3, <1>4, <1>5, <1>6, <1>7, <1>8 DEF User

\* What an answer, or its absence, does in the tab.
LEMMA ContinueTyped ==
  ASSUME TypeInv, NEW s \in Slots, NEW ok \in BOOLEAN,
         calls[s].kind \notin {"free"} \cup Timers, Continue(s, ok)
  PROVE  TypeInv'
<1> DEFINE c == calls[s]
<1>0. c \in CallRecord /\ CallsTyped(Freed(s))
  BY FreedTyped DEF TypeInv, CallsTyped, Free
<1>1. CASE /\ calls' = Freed(s)
           /\ UNCHANGED <<session, bid_history, tabs, sends>>
  BY <1>0, <1>1 DEF TypeInv, session
<1>2. CASE Authenticated(s, ok)
  <2>1. c.token \in Accounts \cup {Bypass}
    BY <1>0, <1>2 DEF Authenticated, TypeInv, CallsTyped, CallRecord
  <2>2. /\ jwt_token' \in Accounts \cup {Bypass, None}
        /\ wallet_address' = WalletOf(jwt_token')
    BY <1>2, <2>1 DEF Authenticated, TypeInv, session
  <2>3. CallsTyped(calls')
    <3>1. PICK kind \in {"enter", "fallback"} :
              calls' = [calls EXCEPT ![s].kind = kind]
      BY <1>2 DEF Authenticated
    <3>2. [c EXCEPT !.kind = kind] \in CallRecord
      BY <1>0 DEF CallRecord
    <3>3. [c EXCEPT !.kind = kind].kind = kind
      BY <1>0 DEF CallRecord
    <3>4. QED
      BY <3>1, <3>2, <3>3 DEF TypeInv, CallsTyped
  <2>4. QED
    BY <1>2, <2>2, <2>3 DEF Authenticated, TypeInv
<1>3. CASE BidSaved(s)
  <2> DEFINE bid == [itemId |-> c.item, hash |-> c.hash, revealed |-> FALSE]
  <2>1. /\ bid_history' = Append(bid_history, bid)
        /\ Goes(c.tab, "browse", jwt_token, bid_history', Freed(s))
        /\ UNCHANGED sends
    BY <1>3 DEF BidSaved
  <2>2. bid \in Bid
    BY <1>3 DEF BidSaved, TypeInv, CallsTyped, CarriesBid, Bid
  <2>3. bid_history' \in Seq(Bid)
    BY <2>1, <2>2, AppendProperties DEF TypeInv
  <2>4. c.tab \in Tabs
    BY <1>0 DEF CallRecord
  <2>5. QED
    BY <1>0, <2>1, <2>3, <2>4, GoesTyped DEF TypeInv, Pages
<1>4. CASE BidRevealed(s, ok)
  <2>1. /\ c.bids \in Seq(Bid) /\ c.tab \in Tabs
        /\ MarkRevealed(c.bids, c.hash) \in Seq(Bid)
    BY <1>0, MarkedList DEF CallRecord
  <2>2. bid_history' \in Seq(Bid)
    BY <1>4, <2>1 DEF BidRevealed, TypeInv
  <2>3. tabs' \in [Tabs -> TabRecord]
    <3>1. PICK p : /\ Shows(s, p)
                   /\ p \in {[tabs[c.tab] EXCEPT
                                 !.bids = MarkRevealed(c.bids, c.hash),
                                 !.busy = FALSE],
                             [tabs[c.tab] EXCEPT !.busy = FALSE]}
      BY <1>4 DEF BidRevealed
    <3>2. tabs[c.tab] \in TabRecord
      BY <2>1 DEF TypeInv
    <3>3. p \in TabRecord
      BY <2>1, <3>1, <3>2 DEF TabRecord
    <3>4. QED
      BY <2>1, <3>1, <3>3 DEF Shows, TypeInv
  <2>4. QED
    BY <1>0, <1>4, <2>2, <2>3 DEF BidRevealed, TypeInv, session
<1>5. QED
  BY <1>1, <1>2, <1>3, <1>4 DEF Continue

LEMMA TimerTyped ==
  ASSUME TypeInv, NEW s \in Slots, LoginTimer(s)
  PROVE  TypeInv'
<1> DEFINE c == calls[s]
           token == IF c.kind = "fallback" THEN Bypass ELSE jwt_token
<1>1. /\ c.tab \in Tabs /\ CallsTyped(Freed(s))
      /\ token \in Accounts \cup {Bypass, None}
  BY FreedTyped DEF LoginTimer, TypeInv, CallsTyped, CallRecord, Free
<1>2. CASE Goes(c.tab, "browse", token, bid_history, Freed(s))
  <2>1. UNCHANGED <<bid_history, sends>>
    BY DEF LoginTimer
  <2>2. QED
    BY <1>1, <1>2, <2>1, GoesTyped DEF TypeInv, Pages
<1>3. CASE /\ tabs' = [tabs EXCEPT ![c.tab].busy = FALSE]
           /\ calls' = Freed(s)
           /\ UNCHANGED session
  <2>1. tabs' \in [Tabs -> TabRecord]
    BY <1>3 DEF TypeInv, TabRecord
  <2>2. QED
    BY <1>1, <1>3, <2>1 DEF LoginTimer, TypeInv, session
<1>4. QED
  BY <1>2, <1>3 DEF LoginTimer

LEMMA NextTyped == TypeInv /\ [Next]_vars => TypeInv'
<1> SUFFICES ASSUME TypeInv, [Next]_vars PROVE TypeInv'
  OBVIOUS
<1>1. ASSUME NEW t \in Tabs, User(t) PROVE TypeInv'
  BY <1>1, UserTyped
<1>2. ASSUME NEW s \in Slots, Answer(s) PROVE TypeInv'
  BY <1>2, ContinueTyped DEF Answer
<1>3. ASSUME NEW s \in Slots, LoginTimer(s) PROVE TypeInv'
  BY <1>3, TimerTyped
<1>4. ASSUME RivalReveals PROVE TypeInv'
  BY <1>4 DEF RivalReveals, TypeInv, session
<1>5. ASSUME UNCHANGED vars PROVE TypeInv'
  BY <1>5 DEF vars, TypeInv, session
<1>6. QED
  BY <1>1, <1>2, <1>3, <1>4, <1>5 DEF Next

LEMMA TypeInvIsInvariant == Spec => []TypeInv
BY InitTyped, NextTyped, PTL DEF Spec

\* Types.
THEOREM BuyerTypeCorrect == Spec => []TypeOK
<1>1. TypeInv => TypeOK
  <2> SUFFICES ASSUME TypeInv PROVE TypeOK
    OBVIOUS
  <2>1. wallet_address \in Accounts \cup {TestWallet, None}
    BY NoneIsNoToken DEF TypeInv
  <2>2. \A t \in Tabs : /\ tabs[t].page \in Pages \cup {"login", "closed"}
                       /\ tabs[t].bids \in Seq(Bid)
    BY DEF TypeInv, TabRecord
  <2>3. \A s \in Slots : calls[s] # Free => calls[s].tab \in Tabs
    BY DEF TypeInv, CallsTyped, CallRecord
  <2>4. QED
    BY <2>1, <2>2, <2>3 DEF TypeInv, TypeOK
<1>2. QED
  BY <1>1, TypeInvIsInvariant, PTL

\* Token and address are one wallet's (Login.jsx:42, keplr.js:162), for any
\* number of tabs that log in, bypass, reload and log out at once.
THEOREM BuyerSessionIsOneWallets == Spec => []SessionIsOneWallets
<1>1. TypeInv => SessionIsOneWallets
  BY DEF TypeInv, SessionIsOneWallets
<1>2. QED
  BY <1>1, TypeInvIsInvariant, PTL

-----------------------------------------------------------------------------
(***************************************************************************)
(* Revealed bids.                                                          *)
(***************************************************************************)

\* Among these answers is one for an opening of this commitment, by the
\* wallet one of these sealed bids has.
AckedBy(hash, told, stored) ==
    \E a \in told :
        /\ a.kind = "revealed"
        /\ a.amount = hash.amount
        /\ [item |-> a.item, wallet |-> a.wallet, hash |-> hash] \in stored

ListAcked(bids, told, stored) ==
    \A k \in DOMAIN bids :
        bids[k].revealed => AckedBy(bids[k].hash, told, stored)

\* The saved list and all copies of it.
AckInv ==
    /\ ListAcked(bid_history, answers, sealed)
    /\ \A t \in Tabs : ListAcked(tabs[t].bids, answers, sealed)
    /\ \A s \in Slots : calls[s].kind = "reveal" =>
           ListAcked(calls[s].bids, answers, sealed)

\* The backend forgets neither answers nor sealed bids.
BookGrows == answers \subseteq answers' /\ sealed \subseteq sealed'

LEMMA AckedStays ==
  ASSUME BookGrows, NEW bids, ListAcked(bids, answers, sealed)
  PROVE  ListAcked(bids, answers', sealed')
BY DEF BookGrows, ListAcked, AckedBy

LEMMA EmptyAcked ==
  ASSUME NEW told, NEW stored
  PROVE  ListAcked(<<>>, told, stored)
BY DEF ListAcked

LEMMA MountedBids ==
  ASSUME NEW page, NEW bids
  PROVE  Mounted(page, bids).bids \in {<<>>, bids}
BY DEF Mounted, Blank

\* A step in which the lists are old ones or the saved one.
LEMMA CopiesStayAcked ==
  ASSUME AckInv, BookGrows,
         ListAcked(bid_history', answers', sealed'),
         \A t \in Tabs : \/ tabs'[t].bids = tabs[t].bids
                         \/ ListAcked(tabs'[t].bids, answers', sealed'),
         \A s \in Slots : calls'[s].kind = "reveal" =>
             \/ calls[s].kind = "reveal" /\ calls'[s].bids = calls[s].bids
             \/ ListAcked(calls'[s].bids, answers', sealed')
  PROVE  AckInv'
<1>1. \A t \in Tabs : ListAcked(tabs'[t].bids, answers', sealed')
  BY AckedStays DEF AckInv
<1>2. \A s \in Slots : calls'[s].kind = "reveal" =>
          ListAcked(calls'[s].bids, answers', sealed')
  BY AckedStays DEF AckInv
<1>3. QED
  BY <1>1, <1>2 DEF AckInv

LEMMA FreedReveals ==
  ASSUME CallsTyped(calls), NEW s \in Slots, NEW z \in Slots,
         Freed(s)[z].kind = "reveal"
  PROVE  calls[z].kind = "reveal" /\ Freed(s)[z].bids = calls[z].bids
<1>1. Free.kind = "free"
  BY DEF Free
<1>2. QED
  BY <1>1 DEF Freed, CallsTyped

\* What Goes leaves in tabs and calls.
LEMMA GoesCopies ==
  ASSUME TypeInv, NEW t \in Tabs, NEW want, NEW token, NEW bids,
         NEW cs, CallsTyped(cs), Goes(t, want, token, bids, cs)
  PROVE  /\ \A u \in Tabs : tabs'[u].bids \in {tabs[u].bids, <<>>, bids}
         /\ \A s \in Slots : calls'[s].kind = "reveal" =>
                cs[s].kind = "reveal" /\ calls'[s].bids = cs[s].bids
<1>0. Free.kind = "free"
  BY DEF Free
<1>1. CASE tabs' = tabs /\ calls' = cs
  BY <1>1
<1>2. CASE \E page : /\ tabs' = [tabs EXCEPT ![t] = Mounted(page, bids)]
                     /\ calls' = Left(cs, t)
  <2>1. PICK page : /\ tabs' = [tabs EXCEPT ![t] = Mounted(page, bids)]
                    /\ calls' = Left(cs, t)
    BY <1>2
  <2>2. \A u \in Tabs : tabs'[u] \in {tabs[u], Mounted(page, bids)}
    BY <2>1 DEF TypeInv
  <2>3. \A u \in Tabs : tabs'[u].bids \in {tabs[u].bids, <<>>, bids}
    BY <2>2, MountedBids
  <2>4. ASSUME NEW s \in Slots, calls'[s].kind = "reveal"
        PROVE  cs[s].kind = "reveal" /\ calls'[s].bids = cs[s].bids
    <3>1. /\ Left(cs, t)[s].kind = cs[s].kind
          /\ cs[s] # Free => Left(cs, t)[s].bids = cs[s].bids
      BY LeftCopies
    <3>2. QED
      BY <1>0, <2>1, <2>4, <3>1
  <2>5. QED
    BY <2>3, <2>4
<1>3. QED
  BY <1>1, <1>2 DEF Goes

LEMMA InitAcked == Init => AckInv
<1> SUFFICES ASSUME Init PROVE AckInv
  OBVIOUS
<1>1. bid_history = <<>> /\ \A t \in Tabs : tabs[t].bids = <<>>
  BY DEF Init, Blank
<1>2. \A s \in Slots : calls[s].kind # "reveal"
  BY DEF Init, Free
<1>3. QED
  BY <1>1, <1>2, EmptyAcked DEF AckInv

LEMMA UserAcked ==
  ASSUME TypeInv, AckInv, NEW t \in Tabs, User(t)
  PROVE  AckInv'
<1>0. Free.kind = "free" /\ \A page : Blank(page).bids = <<>>
  BY DEF Free, Blank
<1>1. BookGrows
  BY DEF User, Close, Load, Navigate, Logout, ConnectWallet, DirectBypass,
         FinalSubmit, RevealBid, BookGrows, book
<1>2. bid_history' \in {bid_history, <<>>}
  BY DEF User, Close, Load, Navigate, Logout, ConnectWallet, DirectBypass,
         FinalSubmit, RevealBid
<1>3. ListAcked(bid_history', answers', sealed')
  BY <1>1, <1>2, AckedStays, EmptyAcked DEF AckInv
<1>4. /\ \A u \in Tabs : tabs'[u].bids \in {tabs[u].bids, <<>>, bid_history}
      /\ \A s \in Slots : calls'[s].kind = "reveal" =>
             \/ calls[s].kind = "reveal" /\ calls'[s].bids = calls[s].bids
             \/ calls'[s].bids = tabs[t].bids
  <2>1. CASE Close(t)
    <3>1. \A s \in Slots : calls'[s] \in {Free, calls[s]}
      BY <2>1 DEF Close
    <3>2. \A u \in Tabs : tabs'[u] \in {tabs[u], Blank("closed")}
      BY <2>1 DEF Close, TypeInv
    <3>3. QED
      BY <1>0, <3>1, <3>2
  <2>2. CASE \E want \in Pages : Load(t, want)
    <3>1. PICK page : tabs' = [tabs EXCEPT ![t] = Mounted(page, bid_history)]
      BY <2>2 DEF Load
    <3>2. \A u \in Tabs : tabs'[u] \in {tabs[u], Mounted(page, bid_history)}
      BY <3>1 DEF TypeInv
    <3>3. UNCHANGED calls
      BY <2>2 DEF Load
    <3>4. QED
      BY <3>2, <3>3, MountedBids
  <2>3. CASE \E want, token, bids :
                 Goes(t, want, token, bids, calls) /\ bids \in {<<>>, bid_history}
    <3>1. PICK want, token, bids :
              Goes(t, want, token, bids, calls) /\ bids \in {<<>>, bid_history}
      BY <2>3
    <3>2. QED
      BY <3>1, GoesCopies DEF TypeInv
  <2>4. CASE \E call : /\ Send(call)
                       /\ call.kind = "reveal" => call.bids = tabs[t].bids
                       /\ tabs' \in {tabs, [tabs EXCEPT ![t].busy = TRUE]}
    <3>1. PICK call : /\ Send(call)
                      /\ call.kind = "reveal" => call.bids = tabs[t].bids
                      /\ tabs' \in {tabs, [tabs EXCEPT ![t].busy = TRUE]}
      BY <2>4
    <3>2. \A s \in Slots : calls'[s] \in {calls[s], call}
      BY <3>1 DEF Send, TypeInv, CallsTyped
    <3>3. \A u \in Tabs : tabs'[u].bids = tabs[u].bids
      BY <3>1 DEF TypeInv, TabRecord
    <3>4. QED
      BY <3>1, <3>2, <3>3
  <2>5. ASSUME \E token \in Accounts \cup {Bypass} : ConnectWallet(t, token)
        PROVE  \E call : /\ Send(call) /\ call.kind = "auth"
                         /\ tabs' = [tabs EXCEPT ![t].busy = TRUE]
    BY <2>5 DEF ConnectWallet, Call
  <2>6. ASSUME \E i \in Items, h \in Book!Commitment : FinalSubmit(t, i, h)
        PROVE  \E call : Send(call) /\ call.kind = "store" /\ tabs' = tabs
    BY <2>6 DEF FinalSubmit, Call
  <2>7. ASSUME \E k \in DOMAIN tabs[t].bids : RevealBid(t, k)
        PROVE  \E call : /\ Send(call) /\ call.bids = tabs[t].bids
                         /\ tabs' = [tabs EXCEPT ![t].busy = TRUE]
    BY <2>7 DEF RevealBid, Call
  <2>8. ASSUME \/ \E want \in Pages : Navigate(t, want)
               \/ Logout(t) \/ DirectBypass(t)
        PROVE  \E want, token, bids :
                   Goes(t, want, token, bids, calls) /\ bids \in {<<>>, bid_history}
    BY <2>8 DEF Navigate, Logout, DirectBypass
  <2>9. QED
    BY <2>1, <2>2, <2>3, <2>4, <2>5, <2>6, <2>7, <2>8 DEF User
<1>5. \A bids \in {<<>>, bid_history, tabs[t].bids} :
          ListAcked(bids, answers', sealed')
  BY <1>1, AckedStays, EmptyAcked DEF AckInv
<1>6. QED
  BY <1>1, <1>3, <1>4, <1>5, CopiesStayAcked

\* What the backend has answered when it has accepted a call.
LEMMA AcceptedAcks ==
  ASSUME NEW c, Accepted(c)
  PROVE  /\ BookGrows
         /\ c.kind = "reveal" => AckedBy(c.hash, answers', sealed')
<1>1. CASE UNCHANGED book /\ c.kind = "auth"
  BY <1>1 DEF BookGrows, book
<1>2. CASE c.kind = "store" /\ Book!Seal(WalletOf(c.token), c.item, c.hash)
  BY <1>2 DEF BookGrows, Book!Seal
<1>3. CASE c.kind = "reveal" /\ Book!Reveal(WalletOf(c.token), c.item, c.hash)
  <2> DEFINE a == [kind |-> "revealed", wallet |-> WalletOf(c.token),
                   item |-> c.item, amount |-> c.hash.amount]
  <2>1. /\ answers' = answers \cup {a} /\ UNCHANGED sealed
        /\ [item |-> a.item, wallet |-> a.wallet, hash |-> c.hash] \in sealed
    BY <1>3 DEF Book!Reveal
  <2>2. QED
    BY <2>1 DEF BookGrows, AckedBy
<1>4. QED
  BY <1>1, <1>2, <1>3 DEF Accepted

LEMMA MarkedAcked ==
  ASSUME NEW bids \in Seq(Bid), NEW hash, NEW told, NEW stored,
         ListAcked(bids, told, stored), AckedBy(hash, told, stored)
  PROVE  ListAcked(MarkRevealed(bids, hash), told, stored)
<1> DEFINE marked == MarkRevealed(bids, hash)
<1> SUFFICES ASSUME NEW k \in DOMAIN bids, marked[k].revealed
             PROVE  AckedBy(marked[k].hash, told, stored)
  BY MarkedList DEF ListAcked
<1>1. bids[k] \in Bid
  BY ListElements
<1>2. marked[k] = [bids[k] EXCEPT
          !.revealed = bids[k].revealed \/ bids[k].hash = hash]
  BY MarkedList
<1>3. /\ marked[k].hash = bids[k].hash
      /\ marked[k].revealed <=> bids[k].revealed \/ bids[k].hash = hash
  BY <1>1, <1>2 DEF Bid
<1>4. QED
  BY <1>3 DEF ListAcked

LEMMA AppendedAcked ==
  ASSUME NEW bids \in Seq(Bid), NEW bid, NEW told, NEW stored,
         ListAcked(bids, told, stored), ~ bid.revealed
  PROVE  ListAcked(Append(bids, bid), told, stored)
BY DEF ListAcked

LEMMA AnswerAcked ==
  ASSUME TypeInv, AckInv, NEW s \in Slots, Answer(s)
  PROVE  AckInv'
<1> DEFINE c == calls[s]
<1>0. c \in CallRecord /\ CallsTyped(Freed(s)) /\ Free.kind = "free"
  BY FreedTyped DEF Answer, TypeInv, CallsTyped, Free
<1>1. PICK ok \in BOOLEAN :
          /\ Continue(s, ok)
          /\ BookGrows
          /\ ok /\ c.kind = "reveal" => AckedBy(c.hash, answers', sealed')
  BY AcceptedAcks DEF Answer, BookGrows, book
<1>2. ListAcked(bid_history, answers', sealed')
  BY <1>1, AckedStays DEF AckInv
<1>3. CASE /\ calls' = Freed(s)
           /\ UNCHANGED <<session, bid_history, tabs, sends>>
  BY <1>1, <1>2, <1>3, FreedReveals, CopiesStayAcked DEF TypeInv
<1>4. CASE Authenticated(s, ok)
  <2>1. PICK kind \in {"enter", "fallback"} :
            calls' = [calls EXCEPT ![s].kind = kind]
    BY <1>4 DEF Authenticated
  <2>2. calls'[s].kind = kind /\ \A z \in Slots : z # s => calls'[z] = calls[z]
    BY <1>0, <2>1 DEF TypeInv, CallsTyped, CallRecord
  <2>3. UNCHANGED <<bid_history, tabs>>
    BY <1>4 DEF Authenticated
  <2>4. QED
    BY <1>1, <1>2, <2>2, <2>3, CopiesStayAcked
<1>5. CASE BidSaved(s)
  <2> DEFINE bid == [itemId |-> c.item, hash |-> c.hash, revealed |-> FALSE]
  <2>1. /\ bid_history' = Append(bid_history, bid)
        /\ Goes(c.tab, "browse", jwt_token, bid_history', Freed(s))
    BY <1>5 DEF BidSaved
  <2>2. ListAcked(bid_history', answers', sealed')
    BY <1>2, <2>1, AppendedAcked DEF TypeInv
  <2>3. c.tab \in Tabs
    BY <1>0 DEF CallRecord
  <2>4. /\ \A u \in Tabs : tabs'[u].bids \in {tabs[u].bids, <<>>, bid_history'}
        /\ \A z \in Slots : calls'[z].kind = "reveal" =>
               Freed(s)[z].kind = "reveal" /\ calls'[z].bids = Freed(s)[z].bids
    <3>1. PICK bids : /\ bids = bid_history'
                      /\ Goes(c.tab, "browse", jwt_token, bids, Freed(s))
      BY <2>1
    <3>2. QED
      BY <1>0, <2>3, <3>1, GoesCopies
  <2>5. QED
    BY <1>1, <2>2, <2>4, FreedReveals, EmptyAcked, CopiesStayAcked DEF TypeInv
<1>6. CASE BidRevealed(s, ok)
  <2> DEFINE updated == MarkRevealed(c.bids, c.hash)
  <2>1. c.kind = "reveal" /\ c.bids \in Seq(Bid) /\ c.tab \in Tabs
    BY <1>0, <1>6 DEF BidRevealed, CallRecord
  <2>2. ok => ListAcked(updated, answers', sealed')
    BY <1>1, <2>1, AckedStays, MarkedAcked DEF AckInv
  <2>3. ListAcked(bid_history', answers', sealed')
    BY <1>2, <1>6, <2>2 DEF BidRevealed
  <2>4. ASSUME NEW u \in Tabs
        PROVE  \/ tabs'[u].bids = tabs[u].bids
               \/ (ok /\ tabs'[u].bids = updated)
    <3>1. PICK p : /\ Shows(s, p)
                   /\ \/ ok /\ p = [tabs[c.tab] EXCEPT !.bids = updated,
                                                      !.busy = FALSE]
                      \/ p = [tabs[c.tab] EXCEPT !.busy = FALSE]
      BY <1>6 DEF BidRevealed
    <3>2. tabs[c.tab] \in TabRecord
      BY <2>1 DEF TypeInv
    <3>3. p.bids = tabs[c.tab].bids \/ (ok /\ p.bids = updated)
      <4>1. [tabs[c.tab] EXCEPT !.bids = updated, !.busy = FALSE].bids = updated
        BY <3>2 DEF TabRecord
      <4>2. [tabs[c.tab] EXCEPT !.busy = FALSE].bids = tabs[c.tab].bids
        BY <3>2 DEF TabRecord
      <4>3. QED
        BY <3>1, <4>1, <4>2
    <3>4. QED
      BY <2>1, <3>1, <3>3 DEF Shows, TypeInv
  <2>5. calls' = Freed(s)
    BY <1>6 DEF BidRevealed
  <2>6. QED
    BY <1>1, <2>2, <2>3, <2>4, <2>5, FreedReveals, CopiesStayAcked DEF TypeInv
<1>7. QED
  BY <1>1, <1>3, <1>4, <1>5, <1>6 DEF Continue

LEMMA TimerAcked ==
  ASSUME TypeInv, AckInv, NEW s \in Slots, LoginTimer(s)
  PROVE  AckInv'
<1> DEFINE c == calls[s]
<1>1. /\ BookGrows
      /\ UNCHANGED <<bid_history, answers, sealed>>
  BY DEF LoginTimer, BookGrows, book
<1>2. c.tab \in Tabs /\ CallsTyped(Freed(s)) /\ tabs[c.tab] \in TabRecord
  BY FreedTyped DEF LoginTimer, TypeInv, CallsTyped, CallRecord, Free
<1>3. CASE \E token : Goes(c.tab, "browse", token, bid_history, Freed(s))
  <2>1. /\ \A u \in Tabs : tabs'[u].bids \in {tabs[u].bids, <<>>, bid_history}
        /\ \A z \in Slots : calls'[z].kind = "reveal" =>
               Freed(s)[z].kind = "reveal" /\ calls'[z].bids = Freed(s)[z].bids
    BY <1>2, <1>3, GoesCopies
  <2>2. QED
    BY <1>1, <2>1, FreedReveals, EmptyAcked, CopiesStayAcked DEF TypeInv, AckInv
<1>4. CASE /\ tabs' = [tabs EXCEPT ![c.tab].busy = FALSE]
           /\ calls' = Freed(s)
  <2>1. \A u \in Tabs : tabs'[u].bids = tabs[u].bids
    BY <1>2, <1>4 DEF TypeInv, TabRecord
  <2>2. QED
    BY <1>1, <1>4, <2>1, FreedReveals, CopiesStayAcked DEF TypeInv, AckInv
<1>5. QED
  BY <1>3, <1>4 DEF LoginTimer

LEMMA RivalAcked ==
  ASSUME AckInv, RivalReveals
  PROVE  AckInv'
<1>1. BookGrows /\ UNCHANGED <<bid_history, tabs, calls>>
  BY DEF RivalReveals, Book!Reveal, BookGrows
<1>2. QED
  BY <1>1, AckedStays, CopiesStayAcked DEF AckInv

LEMMA NextAcked == TypeInv /\ AckInv /\ [Next]_vars => AckInv'
<1> SUFFICES ASSUME TypeInv, AckInv, [Next]_vars PROVE AckInv'
  OBVIOUS
<1>1. CASE Next
  BY <1>1, UserAcked, AnswerAcked, TimerAcked, RivalAcked DEF Next
<1>2. CASE UNCHANGED vars
  BY <1>2 DEF vars, book, AckInv
<1>3. QED
  BY <1>1, <1>2

\* A bid is shown as revealed only if the backend acknowledged its opening,
\* for any number of tabs, bids and calls under way (RevealBid.jsx:147).
THEOREM BuyerRevealedIsAcknowledged == Spec => []RevealedIsAcknowledged
<1>1. AckInv => RevealedIsAcknowledged
  BY DEF AckInv, ListAcked, AckedBy, RevealedIsAcknowledged
<1>2. Spec => []AckInv
  BY InitAcked, NextAcked, TypeInvIsInvariant, PTL DEF Spec
<1>3. QED
  BY <1>1, <1>2, PTL

-----------------------------------------------------------------------------
(***************************************************************************)
(* Prices.                                                                 *)
(***************************************************************************)

AuctionRow ==
    [seller_address : {Rival}, starting_price : Prices,
     current_highest_bid : Nat \cup {None},
     highest_bidder_address : Wallets \cup {None}, auction_status : {"active"}]

\* No acknowledged opening is above the price.
PriceInv ==
    /\ auctions \in [Items -> AuctionRow]
    /\ \A b \in sealed : b.hash \in Book!Commitment
    /\ \A a \in answers : a.kind = "revealed" =>
           /\ a.item \in Items /\ a.amount \in Amounts
           /\ Book!Rounded(a.amount) <= Book!Price(auctions[a.item])

LEMMA PriceIsNat ==
  ASSUME PriceInv, NEW i \in Items
  PROVE  Book!Price(auctions[i]) \in Nat
BY BuyerAmounts DEF PriceInv, AuctionRow, Book!Price

LEMMA InitPrices == Init => PriceInv
<1> SUFFICES ASSUME Init PROVE PriceInv
  OBVIOUS
<1>1. PICK p \in Prices, h \in Book!Commitment :
          /\ auctions = [i \in Items |->
                 [seller_address |-> Rival, starting_price |-> p,
                  current_highest_bid |-> None,
                  highest_bidder_address |-> None,
                  auction_status |-> "active"]]
          /\ sealed = {[item |-> i, wallet |-> Rival, hash |-> h] : i \in Items}
  BY DEF Init
<1>2. answers = {}
  BY DEF Init
<1>3. QED
  BY <1>1, <1>2 DEF PriceInv, AuctionRow

LEMMA RevealPrices ==
  ASSUME PriceInv, NEW wallet \in Wallets, NEW i, NEW h \in Book!Commitment,
         Book!Reveal(wallet, i, h)
  PROVE  /\ PriceInv'
         /\ auctions' # auctions => answers' # answers
<1> DEFINE n == Book!Rounded(h.amount)
           a == [kind |-> "revealed", wallet |-> wallet,
                 item |-> i, amount |-> h.amount]
           row == [auctions[i] EXCEPT !.current_highest_bid = n,
                                      !.highest_bidder_address = wallet]
<1>1. /\ i \in Items /\ h.amount \in Amounts
      /\ answers' = answers \cup {a} /\ UNCHANGED sealed
      /\ auctions' = IF n > Book!Price(auctions[i])
             THEN [auctions EXCEPT ![i].current_highest_bid = n,
                                   ![i].highest_bidder_address = wallet]
             ELSE auctions
  BY DEF Book!Reveal, Book!Commitment, PriceInv
<1>2. n \in Nat /\ Book!Price(auctions[i]) \in Nat
  BY <1>1, BuyerAmounts, PriceIsNat
<1>0. a.kind = "revealed" /\ a.item = i /\ a.amount = h.amount
  OBVIOUS
<1>3. CASE n > Book!Price(auctions[i])
  <2>1. auctions[i] \in AuctionRow
    BY <1>1 DEF PriceInv
  <2>2. row \in AuctionRow /\ row.current_highest_bid = n
    BY <1>2, <2>1 DEF AuctionRow
  <2>3. Book!Price(row) = n
    BY <1>2, <1>3, <2>2, BuyerAmounts DEF Book!Price
  <2>4. /\ auctions' \in [Items -> AuctionRow]
        /\ \A k \in Items : auctions'[k] = IF k = i THEN row ELSE auctions[k]
    BY <1>1, <1>3, <2>2 DEF PriceInv
  <2>5. ASSUME NEW b \in answers', b.kind = "revealed"
        PROVE  /\ b.item \in Items /\ b.amount \in Amounts
               /\ Book!Rounded(b.amount) <= Book!Price(auctions'[b.item])
    <3>1. CASE b = a
      <4>1. b.item = i /\ b.amount = h.amount
        BY <1>0, <3>1
      <4>2. auctions'[b.item] = row
        BY <1>1, <2>4, <4>1
      <4>3. Book!Price(auctions'[b.item]) = n /\ Book!Rounded(b.amount) = n
        BY <2>3, <4>1, <4>2
      <4>4. QED
        BY <1>1, <1>2, <4>1, <4>3
    <3>2. CASE b \in answers
      <4>1. /\ b.item \in Items /\ b.amount \in Amounts
            /\ Book!Rounded(b.amount) <= Book!Price(auctions[b.item])
        BY <2>5, <3>2 DEF PriceInv
      <4>0. Book!Rounded(b.amount) \in Nat
        BY <4>1, BuyerAmounts
      <4>2. CASE b.item = i
        BY <1>2, <1>3, <2>3, <2>4, <4>0, <4>1, <4>2
      <4>3. CASE b.item # i
        BY <2>4, <4>1, <4>3
      <4>4. QED
        BY <4>2, <4>3
    <3>3. QED
      BY <1>1, <3>1, <3>2
  <2>6. PriceInv'
    BY <1>1, <2>4, <2>5 DEF PriceInv
  <2>7. a \notin answers
    BY <1>2, <1>3 DEF PriceInv
  <2>8. QED
    BY <1>1, <2>6, <2>7
<1>4. CASE ~ (n > Book!Price(auctions[i]))
  <2>1. UNCHANGED auctions
    BY <1>1, <1>4
  <2>2. n <= Book!Price(auctions[i])
    BY <1>2, <1>4
  <2>3. PriceInv'
    <3>1. ASSUME NEW b \in answers', b.kind = "revealed"
          PROVE  /\ b.item \in Items /\ b.amount \in Amounts
                 /\ Book!Rounded(b.amount) <= Book!Price(auctions[b.item])
      BY <1>0, <1>1, <2>2, <3>1 DEF PriceInv
    <3>2. QED
      BY <1>1, <2>1, <3>1 DEF PriceInv
  <2>4. QED
    BY <2>1, <2>3
<1>5. QED
  BY <1>3, <1>4

\* The other steps leave auctions and what was opened as they are.
LEMMA QuietPrices ==
  ASSUME PriceInv, UNCHANGED auctions,
         \A b \in sealed' : b \in sealed \/ b.hash \in Book!Commitment,
         \A a \in answers' : a \in answers \/ a.kind # "revealed"
  PROVE  PriceInv'
BY DEF PriceInv

LEMMA AnswerPrices ==
  ASSUME TypeInv, PriceInv, NEW s \in Slots, Answer(s)
  PROVE  /\ PriceInv'
         /\ auctions' # auctions => answers' # answers
<1> DEFINE c == calls[s]
<1>0. c \in CallRecord /\ (c.kind \in {"store", "reveal"} => CarriesBid(c))
  BY DEF Answer, TypeInv, CallsTyped, Free
<1>1. CASE UNCHANGED book
  BY <1>1, QuietPrices DEF book
<1>2. CASE c.kind = "store" /\ Book!Seal(WalletOf(c.token), c.item, c.hash)
  <2>1. /\ UNCHANGED auctions
        /\ sealed' = sealed \cup {[item |-> c.item, wallet |-> WalletOf(c.token),
                                   hash |-> c.hash]}
        /\ answers' = answers \cup {[kind |-> "stored", item |-> c.item,
                 wallet |-> WalletOf(c.token), hash |-> c.hash]}
    BY <1>2 DEF Book!Seal
  <2>2. QED
    BY <1>0, <1>2, <2>1, QuietPrices DEF CarriesBid
<1>3. CASE /\ c.kind = "reveal" /\ c.token # None
           /\ Book!Reveal(WalletOf(c.token), c.item, c.hash)
  <2>1. WalletOf(c.token) \in Wallets
    BY <1>0, <1>3, NoneIsNoToken DEF CallRecord, Wallets
  <2>2. c.hash \in Book!Commitment
    BY <1>0, <1>3 DEF CarriesBid
  <2>3. QED
    BY <1>3, <2>1, <2>2, RevealPrices
<1>4. QED
  BY <1>1, <1>2, <1>3 DEF Answer, Accepted

LEMMA NextPrices ==
  ASSUME TypeInv, PriceInv, [Next]_vars
  PROVE  /\ PriceInv'
         /\ auctions' # auctions => answers' # answers
<1>1. ASSUME NEW t \in Tabs, User(t)
      PROVE  UNCHANGED book
  BY <1>1 DEF User, Close, Load, Navigate, Logout, ConnectWallet, DirectBypass,
              FinalSubmit, RevealBid
<1>2. ASSUME NEW s \in Slots, LoginTimer(s)
      PROVE  UNCHANGED book
  BY <1>2 DEF LoginTimer
<1>3. CASE UNCHANGED book
  BY <1>3, QuietPrices DEF book
<1>4. CASE RivalReveals
  <2>1. PICK b \in sealed : Book!Reveal(Rival, b.item, b.hash)
    BY <1>4 DEF RivalReveals
  <2>2. b.hash \in Book!Commitment /\ Rival \in Wallets
    BY DEF PriceInv, Wallets
  <2>3. QED
    BY <2>1, <2>2, RevealPrices
<1>5. CASE UNCHANGED vars
  BY <1>3, <1>5 DEF vars
<1>6. QED
  BY <1>1, <1>2, <1>3, <1>4, <1>5, AnswerPrices DEF Next

\* A reveal sent again, because its answer was lost or the bid was saved
\* twice, changes no auction (RevealBid.jsx:143, auctionController.js:336).
THEOREM BuyerRepeatedReveal == Spec => RepeatedRevealChangesNothing
<1>1. Spec => []PriceInv
  BY InitPrices, NextPrices, TypeInvIsInvariant, PTL DEF Spec
<1>2. TypeInv /\ PriceInv /\ [Next]_vars =>
          [auctions' # auctions => answers' # answers]_vars
  BY NextPrices
<1>3. QED
  BY <1>1, <1>2, TypeInvIsInvariant, PTL
     DEF Spec, RepeatedRevealChangesNothing

-----------------------------------------------------------------------------
(***************************************************************************)
(* Which saved bids are lost.                                              *)
(***************************************************************************)

\* The bid is in the list, revealed or not.
Listed(bid, bids) ==
    \E j \in DOMAIN bids : [bids[j] EXCEPT !.revealed = bid.revealed] = bid

\* What a step may do to bid_history.
Overwrites ==
    \A k \in DOMAIN bid_history :
        \/ Listed(bid_history[k], bid_history')
        \/ \E t \in Tabs : Logout(t)
        \/ \E s \in Slots : /\ calls[s].kind = "reveal" /\ calls'[s] = Free
                            /\ ~ Listed(bid_history[k], calls[s].bids)

LEMMA SavedIsListed ==
  ASSUME TypeInv, NEW k \in DOMAIN bid_history
  PROVE  /\ bid_history[k] \in Bid
         /\ Listed(bid_history[k], bid_history)
<1>1. bid_history[k] \in Bid
  BY ListElements DEF TypeInv
<1>2. [bid_history[k] EXCEPT !.revealed = bid_history[k].revealed] = bid_history[k]
  BY <1>1 DEF Bid
<1>3. QED
  BY <1>1, <1>2 DEF Listed

LEMMA MarkedIsListed ==
  ASSUME NEW bids \in Seq(Bid), NEW hash, NEW bid \in Bid, Listed(bid, bids)
  PROVE  Listed(bid, MarkRevealed(bids, hash))
<1> DEFINE marked == MarkRevealed(bids, hash)
<1>1. PICK j \in DOMAIN bids : [bids[j] EXCEPT !.revealed = bid.revealed] = bid
  BY DEF Listed
<1>2. /\ j \in DOMAIN marked /\ bids[j] \in Bid
      /\ marked[j] = [bids[j] EXCEPT
             !.revealed = bids[j].revealed \/ bids[j].hash = hash]
  BY MarkedList, ListElements
<1>3. [marked[j] EXCEPT !.revealed = bid.revealed]
          = [bids[j] EXCEPT !.revealed = bid.revealed]
  BY <1>2 DEF Bid
<1>4. QED
  BY <1>1, <1>2, <1>3 DEF Listed

LEMMA NextOverwrites ==
  ASSUME TypeInv, [Next]_vars
  PROVE  Overwrites
<1>1. ASSUME UNCHANGED bid_history PROVE Overwrites
  BY <1>1, SavedIsListed DEF Overwrites
<1>2. ASSUME NEW t \in Tabs, User(t) PROVE Overwrites
  <2>1. UNCHANGED bid_history \/ Logout(t)
    BY <1>2 DEF User, Close, Load, Navigate, ConnectWallet, DirectBypass,
       FinalSubmit, RevealBid, session
  <2>2. QED
    BY <1>1, <2>1 DEF Overwrites
<1>3. ASSUME NEW s \in Slots, Answer(s) PROVE Overwrites
  <2>0. calls[s] \in CallRecord
    BY <1>3 DEF Answer, TypeInv, CallsTyped, Free
  <2>1. PICK ok \in BOOLEAN : Continue(s, ok)
    BY <1>3 DEF Answer
  <2>2. CASE BidSaved(s)
    <3>1. PICK bid : bid_history' = Append(bid_history, bid)
      BY <2>2 DEF BidSaved
    <3>2. \A k \in DOMAIN bid_history : /\ k \in DOMAIN bid_history'
                                        /\ bid_history'[k] = bid_history[k]
      BY <3>1 DEF TypeInv
    <3>3. QED
      BY <3>2, SavedIsListed DEF Overwrites, Listed
  <2>3. CASE BidRevealed(s, ok) /\ ok
    <3>1. /\ calls[s].kind = "reveal" /\ calls[s].bids \in Seq(Bid)
          /\ calls'[s] = Free
          /\ bid_history' = MarkRevealed(calls[s].bids, calls[s].hash)
      BY <2>0, <2>3 DEF BidRevealed, CallRecord, Freed, TypeInv, CallsTyped
    <3>2. QED
      BY <3>1, SavedIsListed, MarkedIsListed DEF Overwrites
  <2>4. UNCHANGED bid_history \/ BidSaved(s) \/ (BidRevealed(s, ok) /\ ok)
    BY <2>1 DEF Continue, Authenticated, BidRevealed
  <2>5. QED
    BY <1>1, <2>2, <2>3, <2>4
<1>4. ASSUME NEW s \in Slots, LoginTimer(s) PROVE Overwrites
  BY <1>1, <1>4 DEF LoginTimer
<1>5. RivalReveals \/ UNCHANGED vars => UNCHANGED bid_history
  BY DEF RivalReveals, vars
<1>6. QED
  BY <1>1, <1>2, <1>3, <1>4, <1>5 DEF Next

\* A bid is lost by a logout, or by the answer to a reveal whose page had read
\* the list before the bid was saved, and by nothing else (keplr.js:211,
\* RevealBid.jsx:156).
THEOREM BuyerOverwritesNewerOnly == Spec => OnlyNewerBidsAreOverwritten
<1>1. Overwrites =>
          \A k \in DOMAIN bid_history :
              LET bid == bid_history[k]
                  Kept(bids) == \E j \in DOMAIN bids :
                      [bids[j] EXCEPT !.revealed = bid.revealed] = bid
              IN
              \/ Kept(bid_history')
              \/ \E t \in Tabs : Logout(t)
              \/ \E s \in Slots : /\ calls[s].kind = "reveal" /\ calls'[s] = Free
                                  /\ ~ Kept(calls[s].bids)
  BY DEF Overwrites, Listed
<1>2. TypeInv /\ [Next]_vars => [Overwrites]_vars
  BY NextOverwrites
<1>3. QED
  BY <1>1, <1>2, TypeInvIsInvariant, PTL DEF Spec, OnlyNewerBidsAreOverwritten

-----------------------------------------------------------------------------
(***************************************************************************)
(* The tabs and the backend.                                               *)
(***************************************************************************)

LEMMA StepIsOfTheBook ==
  ASSUME TypeInv, PriceInv, [Next]_vars
  PROVE  [Book!Next]_<<auctions, sealed, answers, settled>>
<1>1. ASSUME NEW t \in Tabs, User(t)
      PROVE  UNCHANGED book
  BY <1>1 DEF User, Close, Load, Navigate, Logout, ConnectWallet, DirectBypass,
              FinalSubmit, RevealBid
<1>2. ASSUME NEW s \in Slots, LoginTimer(s)
      PROVE  UNCHANGED book
  BY <1>2 DEF LoginTimer
<1>3. ASSUME NEW s \in Slots, Answer(s)
      PROVE  Book!Next \/ UNCHANGED book
  <2> DEFINE c == calls[s]
  <2>1. c \in CallRecord /\ (c.kind \in {"store", "reveal"} => CarriesBid(c))
    BY <1>3 DEF Answer, TypeInv, CallsTyped, Free
  <2>2. CASE /\ c.kind \in {"store", "reveal"} /\ c.token # None
             /\ \/ Book!Seal(WalletOf(c.token), c.item, c.hash)
                \/ Book!Reveal(WalletOf(c.token), c.item, c.hash)
    <3>1. WalletOf(c.token) \in Wallets
      BY <2>1, <2>2, NoneIsNoToken DEF CallRecord, Wallets
    <3>2. c.item \in Items /\ c.hash \in Book!Commitment
      BY <2>1, <2>2 DEF CarriesBid
    <3>3. QED
      BY <2>2, <3>1, <3>2 DEF Book!Next
  <2>3. QED
    BY <1>3, <2>2 DEF Answer, Accepted
<1>4. ASSUME RivalReveals
      PROVE  Book!Next
  <2>1. PICK b \in sealed : Book!Reveal(Rival, b.item, b.hash)
    BY <1>4 DEF RivalReveals
  <2>2. b.item \in Items
    BY <2>1 DEF Book!Reveal, PriceInv
  <2>3. b.hash \in Book!Commitment /\ Rival \in Wallets
    BY DEF PriceInv, Wallets
  <2>4. QED
    BY <2>1, <2>2, <2>3 DEF Book!Next
<1>5. QED
  BY <1>1, <1>2, <1>3, <1>4 DEF Next, vars, book

\* Whatever the tabs and the rival do, together they do to the backend only
\* what its endpoints allow, as wallets it knows and with bids it can store
\* (RevealBid.jsx:148, SubmitBid.jsx:202): what holds of every step of
\* AuctionBook, which the backend implements, holds here.
THEOREM BuyerKeepsToTheBook ==
    Spec => [][Book!Next]_<<auctions, sealed, answers, settled>>
<1>1. Spec => []PriceInv
  BY InitPrices, NextPrices, TypeInvIsInvariant, PTL DEF Spec
<1>2. TypeInv /\ PriceInv /\ [Next]_vars =>
          [Book!Next]_<<auctions, sealed, answers, settled>>
  BY StepIsOfTheBook
<1>3. QED
  BY <1>1, <1>2, TypeInvIsInvariant, PTL DEF Spec
=============================================================================
