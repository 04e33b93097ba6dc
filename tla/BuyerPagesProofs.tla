-------------------------- MODULE BuyerPagesProofs --------------------------
(***************************************************************************)
(* What the buyer can rely on while pages are opened and left, and lists   *)
(* and answers arrive in any order, for any number of auctions, bids and   *)
(* calls under way: every commitment the backend has stored for this       *)
(* browser has a key file, marks stand for settlements, a failed call      *)
(* hides one auction only, and an auction's page never waits in vain.      *)
(***************************************************************************)
EXTENDS BuyerPages, SequenceTheorems, FiniteSetTheorems,
        WellFoundedInduction, TLAPS

(***************************************************************************)
(* The pages and calls there are.  The fields that no proof here looks     *)
(* into are left as they are: {p.assets}.                                  *)
(***************************************************************************)
IsForm(p) ==
    /\ p \in [kind : {"bid"}, itemId : {p.itemId}, asked : {p.asked},
              assets : {p.assets}, selectedAsset : Items \cup {None},
              bidAmount : Amounts \cup {None}, saltKey : Salts,
              zkpStatus : {"idle", "generating", "done"}, downloaded : BOOLEAN]
    /\ p.zkpStatus # "idle" => p.bidAmount \in Amounts
    /\ p.downloaded => p.zkpStatus = "done" /\ p.selectedAsset \in Items

IsHistory(p) ==
    p \in [kind : {"history"}, bids : Seq(Bid), refunded : SUBSET Seconds,
           claimed : SUBSET Seconds, prices : {p.prices}, asked : BOOLEAN]

IsDetail(p) ==
    p \in [kind : {"detail"}, itemId : Items, auction : {p.auction},
           asked : BOOLEAN, loading : BOOLEAN, actionLoading : BOOLEAN]

IsBoard(p) ==
    p \in [kind : {"board"}, assets : {p.assets},
           selectedAssetId : {p.selectedAssetId}, listAsked : {p.listAsked},
           asked : {p.asked}, participants : {p.participants}]

IsMarket(p) ==
    /\ p \in [kind : {"market"}, assets : Seq(Items),
              stage : {"list", "proofs", "done"}, todo : Seq(Items),
              allCommits : {p.allCommits}, missed : {p.missed},
              globalCommits : {p.globalCommits}, mainFilter : {p.mainFilter},
              subFilter : {p.subFilter}]
    /\ \/ p.subFilter = "all"
       \/ p.mainFilter # "all" /\ p.subFilter \in Subs[p.mainFilter]

IsPage(p) ==
    p = Start \/ IsForm(p) \/ IsHistory(p) \/ IsDetail(p) \/ IsBoard(p) \/ IsMarket(p)

HistoryCalls ==
    [kind : {"refund", "claim"}, from : {"history"}, here : BOOLEAN,
     wallet : Accounts, item : Items, timestamp : Seconds,
     marks : SUBSET Seconds]

DetailCalls ==
    [kind : {"refund", "claim"}, from : {"detail"}, here : BOOLEAN,
     wallet : Accounts, item : Items]

\* A call whose page is still shown finds a page of its own kind.
CallsTyped(cs, p) ==
    /\ cs \in [Slots -> {Free} \cup HistoryCalls \cup DetailCalls]
    /\ \A s \in Slots :
           /\ cs[s] \in HistoryCalls /\ cs[s].here => p.kind = "history"
           /\ cs[s] \in DetailCalls /\ cs[s].here =>
                  p.kind = "detail" /\ p.itemId = cs[s].item

\* The inductive type invariant.
TypeInv ==
    /\ wallet \in Accounts
    /\ DOMAIN auctions \subseteq Items
    /\ listing \in Seq(Items) /\ Elements(listing) = DOMAIN auctions
    /\ bid_history \in Seq(Bid)
    /\ refunded_bids \subseteq Seconds /\ claimed_bids \subseteq Seconds
    /\ keyFiles \subseteq [item : Items, hash : Book!Commitment]
    /\ IsPage(page)
    /\ CallsTyped(calls, page)
    /\ presses \in 0 .. MaxPresses /\ others \in 0 .. MaxOthers

-----------------------------------------------------------------------------
(***************************************************************************)
(* Lists.                                                                  *)
(***************************************************************************)

LEMMA ListElements ==
  ASSUME NEW S, NEW s \in Seq(S)
  PROVE  /\ \A k \in DOMAIN s : s[k] \in S
         /\ Elements(s) \subseteq S
BY LenProperties, ElementOfSeq DEF Elements

LEMMA ListedTyped ==
  ASSUME listing \in Seq(Items)
  PROVE  Listed \in Seq(Items) /\ (Listed # <<>> => Listed[1] \in Items)
<1> DEFINE n == IF Len(listing) < ListLimit THEN Len(listing) ELSE ListLimit
<1>1. Len(listing) \in Nat /\ ListLimit \in Nat
  BY LenProperties, PageConstants
<1>2. n \in Int /\ \A i \in 1 .. n : listing[i] \in Items
  BY <1>1, ElementOfSeq
<1>3. SubSeq(listing, 1, n) \in Seq(Items)
  BY <1>2, SubSeqProperties
<1>4. Listed \in Seq(Items)
  BY <1>3 DEF Listed
<1>5. ASSUME Listed # <<>> PROVE Listed[1] \in Items
  <2>1. Len(Listed) \in Nat \ {0}
    BY <1>4, <1>5, EmptySeq
  <2>2. QED
    BY <1>4, <2>1, ElementOfSeq
<1>6. QED
  BY <1>4, <1>5

LEMMA ElementsOfTail ==
  ASSUME NEW S, NEW s \in Seq(S), s # <<>>
  PROVE  /\ Tail(s) \in Seq(S)
         /\ Elements(s) = Elements(Tail(s)) \cup {Head(s)}
<1>1. /\ Tail(s) \in Seq(S) /\ Len(Tail(s)) = Len(s) - 1
      /\ \A i \in 1 .. Len(Tail(s)) : Tail(s)[i] = s[i + 1]
  BY HeadTailProperties
<1>2. /\ Len(s) \in Nat \ {0} /\ DOMAIN s = 1 .. Len(s)
      /\ DOMAIN Tail(s) = 1 .. Len(s) - 1
  BY <1>1, LenProperties, EmptySeq
<1>3. Head(s) = s[1]
  OBVIOUS
<1>4. ASSUME NEW k \in DOMAIN s PROVE s[k] \in Elements(Tail(s)) \cup {s[1]}
  <2>1. CASE k = 1
    BY <2>1
  <2>2. CASE k # 1
    <3>1. k - 1 \in DOMAIN Tail(s) /\ Tail(s)[k - 1] = s[k]
      BY <1>1, <1>2, <2>2
    <3>2. QED
      BY <3>1 DEF Elements
  <2>3. QED
    BY <2>1, <2>2
<1>5. ASSUME NEW k \in DOMAIN Tail(s) PROVE Tail(s)[k] \in Elements(s)
  <2>1. k + 1 \in DOMAIN s /\ Tail(s)[k] = s[k + 1]
    BY <1>1, <1>2, <1>5
  <2>2. QED
    BY <2>1 DEF Elements
<1>6. s[1] \in Elements(s)
  BY <1>2 DEF Elements
<1>7. QED
  BY <1>1, <1>3, <1>4, <1>5, <1>6 DEF Elements

LEMMA ElementsOfCons ==
  ASSUME NEW S, NEW s \in Seq(S), NEW e \in S
  PROVE  /\ <<e>> \o s \in Seq(S)
         /\ Elements(<<e>> \o s) = {e} \cup Elements(s)
<1> DEFINE t == <<e>> \o s
<1>1. <<e>> \in Seq(S) /\ Len(<<e>>) = 1 /\ <<e>>[1] = e
  OBVIOUS
<1>2. /\ t \in Seq(S) /\ Len(t) = 1 + Len(s)
      /\ \A i \in 1 .. 1 + Len(s) : t[i] = IF i <= 1 THEN <<e>>[i] ELSE s[i - 1]
  BY <1>1, ConcatProperties
<1>3. Len(s) \in Nat /\ DOMAIN s = 1 .. Len(s) /\ DOMAIN t = 1 .. 1 + Len(s)
  BY <1>2, LenProperties
<1>4. t[1] = e /\ \A i \in 1 .. Len(s) : t[i + 1] = s[i]
  BY <1>1, <1>2, <1>3
<1> HIDE DEF t
<1>5. ASSUME NEW k \in DOMAIN t PROVE t[k] \in {e} \cup Elements(s)
  <2>1. k = 1 \/ (k - 1 \in DOMAIN s /\ t[k] = s[k - 1])
    BY <1>3, <1>4, <1>5
  <2>2. QED
    BY <1>4, <2>1 DEF Elements
<1>6. ASSUME NEW k \in DOMAIN s PROVE s[k] \in Elements(t)
  <2>1. k + 1 \in DOMAIN t /\ t[k + 1] = s[k]
    BY <1>3, <1>4, <1>6
  <2>2. QED
    BY <2>1 DEF Elements
<1>7. e \in Elements(t)
  BY <1>3, <1>4 DEF Elements
<1>8. Elements(t) = {e} \cup Elements(s)
  BY <1>5, <1>6, <1>7 DEF Elements
<1>9. QED
  BY <1>2, <1>8 DEF t

-----------------------------------------------------------------------------
(***************************************************************************)
(* The steps, by the page they happen on.                                  *)
(***************************************************************************)

OpenStep ==
    \/ OpenMarketplace \/ OpenLeaderboard \/ OpenHistory
    \/ \E i \in Items : OpenAuction(i)
    \/ \E i \in Items, s \in Salts : OpenBidForm(i, s)

FormStep ==
    \/ \E i \in Items, s \in Salts : SelectAsset(i, s)
    \/ \E i \in Items, s \in Salts, ok \in BOOLEAN : FormListArrives(i, s, ok)
    \/ \E a \in Amounts : TypeAmount(a)
    \/ \E s \in Salts : TypeSalt(s) \/ GenerateRandomSalt(s)
    \/ HandleStartCommit \/ LogsEnd

SendStep ==
    /\ page.kind = "history"
    /\ \E k \in DOMAIN page.bids : HandleWithdrawRefund(k) \/ HandleClaimAsset(k)

BoardStep ==
    \/ \E i \in Items : SelectBoardAsset(i)
    \/ \E i \in Items, ok \in BOOLEAN : RowsArrive(i, ok)
    \/ \E ok \in BOOLEAN : BoardListArrives(ok)

FilterStep ==
    \/ \E f \in {"all"} \cup DOMAIN Subs : HandleMainFilterChange(f)
    \/ \E f \in {"all"} \cup UNION {Subs[m] : m \in DOMAIN Subs} :
           SetSubFilter(f)

MarketStep ==
    \/ FilterStep
    \/ \E ok \in BOOLEAN : MarketListArrives(ok)
    \/ \E ok \in BOOLEAN : MarketProofsArrive(ok)
    \/ MarketLoopEnds

LEMMA NextIsOneOf ==
  ASSUME Next
  PROVE  \/ OpenStep \/ (\E a \in Accounts : LogIn(a))
         \/ FormStep \/ DownloadKeyFile
         \/ (\E ts \in Seconds : HandleFinalSubmit(ts))
         \/ SendStep \/ (\E ok \in BOOLEAN : PricesArrive(ok))
         \/ (\E kind \in {"claim", "refund"} : HandleDetailCall(kind))
         \/ (\E ok \in BOOLEAN : DetailArrives(ok))
         \/ BoardStep \/ MarketStep
         \/ (\E s \in Slots : Answer(s)) \/ Others
<1>1. CASE User
  BY <1>1, Zenon DEF User, OpenStep, FormStep, SendStep, BoardStep, MarketStep, FilterStep
<1>2. CASE Arrives
  BY <1>2, Zenon DEF Arrives, FormStep, BoardStep, MarketStep
<1>3. QED
  BY <1>1, <1>2 DEF Next

\* On the form, what has been downloaded is what will be submitted.
LEMMA FormStepKeeps ==
  ASSUME TypeInv, FormStep
  PROVE  /\ IsForm(page) /\ IsForm(page') /\ PageOnly
         /\ page'.downloaded =>
                /\ page.downloaded
                /\ page'.selectedAsset = page.selectedAsset
                /\ page'.bidAmount = page.bidAmount
                /\ page'.saltKey = page.saltKey
<1> DEFINE Keeps(p) == p.downloaded => /\ page.downloaded
                                       /\ p.selectedAsset = page.selectedAsset
                                       /\ p.bidAmount = page.bidAmount
                                       /\ p.saltKey = page.saltKey
<1>1. page.kind = "bid" /\ PageOnly
  BY DEF FormStep, SelectAsset, FormListArrives, TypeAmount, TypeSalt,
         GenerateRandomSalt, HandleStartCommit, LogsEnd, FormIsOpen
<1>2. IsForm(page)
  BY <1>1 DEF TypeInv, IsPage, Start, IsForm, IsHistory, IsDetail, IsBoard, IsMarket
<1>3. ASSUME NEW form, IsForm(form), NEW item \in Items \cup {None},
             NEW salt \in Salts
      PROVE  /\ IsForm(WithAsset(form, item, salt))
             /\ WithAsset(form, item, salt).downloaded =>
                    WithAsset(form, item, salt) = form
  BY <1>3 DEF WithAsset, IsForm
<1>4. ASSUME NEW i \in Items, NEW s \in Salts, SelectAsset(i, s)
      PROVE  IsForm(page') /\ Keeps(page')
  <2> DEFINE form == WithAsset(page, i, s)
  <2>1. IsForm(form) /\ (form.downloaded => form = page)
    BY <1>2, <1>3
  <2> HIDE DEF form
  <2>2. PICK a : page' = [form EXCEPT !.itemId = i, !.asked = a]
    BY <1>4 DEF SelectAsset, form
  <2>3. QED
    BY <2>1, <2>2 DEF IsForm
<1>5. ASSUME NEW i \in Items, NEW s \in Salts, NEW ok \in BOOLEAN,
             FormListArrives(i, s, ok)
      PROVE  IsForm(page') /\ Keeps(page')
  <2> DEFINE asked == [page EXCEPT !.asked = @ \ {i}]
             loaded == [asked EXCEPT !.assets = Listed]
             current == IF i \in Elements(Listed) THEN i
                        ELSE IF Listed # <<>> THEN Listed[1] ELSE None
  <2>1. IsForm(asked) /\ Keeps(asked)
    BY <1>2 DEF IsForm
  <2>2. IsForm(loaded) /\ Keeps(loaded)
    BY <1>2 DEF IsForm
  <2>3. current \in Items \cup {None}
    BY ListedTyped DEF TypeInv
  <2>4. page' = IF ok THEN WithAsset(loaded, current, s) ELSE asked
    BY <1>5 DEF FormListArrives
  <2> HIDE DEF asked, loaded, current
  <2>5. QED
    BY <1>3, <2>1, <2>2, <2>3, <2>4
<1>6. CASE \E a \in Amounts : TypeAmount(a)
  BY <1>2, <1>6 DEF TypeAmount, FormIsOpen, IsForm
<1>7. CASE \E s \in Salts : TypeSalt(s) \/ GenerateRandomSalt(s)
  BY <1>2, <1>7 DEF TypeSalt, GenerateRandomSalt, FormIsOpen, IsForm
<1>8. CASE HandleStartCommit
  BY <1>2, <1>8 DEF HandleStartCommit, FormIsOpen, IsForm
<1>9. CASE LogsEnd
  BY <1>2, <1>9 DEF LogsEnd, IsForm
<1>10. IsForm(page') /\ Keeps(page')
  BY <1>4, <1>5, <1>6, <1>7, <1>8, <1>9 DEF FormStep
<1>11. QED
  BY <1>1, <1>2, <1>10

\* A page that is opened starts afresh.
LEMMA OpenStepOpens ==
  ASSUME TypeInv, OpenStep
  PROVE  /\ calls' = Left
         /\ UNCHANGED <<book, wallet, bid_history, marks, keyFiles, presses>>
         /\ \/ IsForm(page') /\ ~ page'.downloaded
            \/ page' = HistoryPage(bid_history, refunded_bids, claimed_bids)
            \/ \E i \in Items : page' = DetailPage(i)
            \/ page' = BoardPage
            \/ page' = MarketPage
<1>1. ASSUME NEW i \in Items, NEW s \in Salts, OpenBidForm(i, s)
      PROVE  IsForm(page') /\ ~ page'.downloaded /\ Shows(page')
  BY <1>1 DEF OpenBidForm, Shows, FormPage, IsForm
<1>2. CASE \E i \in Items, s \in Salts : OpenBidForm(i, s)
  BY <1>1, <1>2 DEF Shows
<1>3. CASE OpenMarketplace \/ OpenLeaderboard \/ OpenHistory
  BY <1>3 DEF OpenMarketplace, OpenLeaderboard, OpenHistory, Shows
<1>4. CASE \E i \in Items : OpenAuction(i)
  BY <1>4 DEF OpenAuction, Shows
<1>5. QED
  BY <1>2, <1>3, <1>4 DEF OpenStep

-----------------------------------------------------------------------------
(***************************************************************************)
(* Types.                                                                  *)
(***************************************************************************)

LEMMA OpenedTyped ==
  ASSUME NEW bids \in Seq(Bid), NEW refunded \in SUBSET Seconds,
         NEW claimed \in SUBSET Seconds
  PROVE  /\ IsHistory(HistoryPage(bids, refunded, claimed))
         /\ \A i \in Items : IsDetail(DetailPage(i))
         /\ IsBoard(BoardPage) /\ IsMarket(MarketPage)
<1>1. <<>> \in Seq(Items)
  BY EmptySeq
<1>2. IsMarket(MarketPage)
  BY <1>1 DEF MarketPage, IsMarket
<1>3. QED
  BY <1>2 DEF HistoryPage, DetailPage, BoardPage, IsHistory, IsDetail, IsBoard

LEMMA PageKinds ==
  ASSUME TypeInv
  PROVE  /\ page.kind = "bid" => IsForm(page)
         /\ page.kind = "history" => IsHistory(page)
         /\ page.kind = "detail" => IsDetail(page)
         /\ page.kind = "board" => IsBoard(page)
         /\ page.kind = "market" => IsMarket(page)
BY DEF TypeInv, IsPage, Start, IsForm, IsHistory, IsDetail, IsBoard, IsMarket

LEMMA FreeIsNoCall == Free \notin HistoryCalls \cup DetailCalls
BY DEF Free, HistoryCalls, DetailCalls

LEMMA LeftTyped ==
  ASSUME NEW p, CallsTyped(calls, p), NEW q
  PROVE  CallsTyped(Left, q)
<1>1. ASSUME NEW s \in Slots
      PROVE  /\ Left[s] \in {Free} \cup HistoryCalls \cup DetailCalls
             /\ Left[s] \in HistoryCalls \cup DetailCalls => ~ Left[s].here
  <2> DEFINE c == calls[s]
  <2>1. /\ c \in {Free} \cup HistoryCalls \cup DetailCalls
        /\ Left[s] = IF c = Free THEN Free ELSE [c EXCEPT !.here = FALSE]
    BY DEF Left, CallsTyped
  <2> HIDE DEF c
  <2>2. CASE c = Free
    BY <2>1, <2>2, FreeIsNoCall
  <2>3. CASE c \in HistoryCalls
    <3>1. Left[s] = [c EXCEPT !.here = FALSE]
      BY <2>1, <2>3, FreeIsNoCall
    <3>2. Left[s] \in HistoryCalls /\ Left[s].here = FALSE
      BY <2>3, <3>1 DEF HistoryCalls
    <3>3. QED
      BY <3>2
  <2>4. CASE c \in DetailCalls
    <3>1. Left[s] = [c EXCEPT !.here = FALSE]
      BY <2>1, <2>4, FreeIsNoCall
    <3>2. Left[s] \in DetailCalls /\ Left[s].here = FALSE
      BY <2>4, <3>1 DEF DetailCalls
    <3>3. QED
      BY <3>2
  <2>5. QED
    BY <2>1, <2>2, <2>3, <2>4
<1>2. Left = [s \in Slots |-> Left[s]]
  BY DEF Left
<1>3. Left \in [Slots -> {Free} \cup HistoryCalls \cup DetailCalls]
  BY <1>1, <1>2
<1>4. QED
  BY <1>1, <1>3 DEF CallsTyped

LEMMA FreedTyped ==
  ASSUME NEW p, CallsTyped(calls, p), NEW s \in Slots
  PROVE  CallsTyped([calls EXCEPT ![s] = Free], p)
BY FreeIsNoCall DEF CallsTyped

LEMMA SendTyped ==
  ASSUME NEW p, CallsTyped(calls, p), presses \in 0 .. MaxPresses,
         NEW call \in HistoryCalls \cup DetailCalls,
         call \in HistoryCalls => p.kind = "history",
         call \in DetailCalls => p.kind = "detail" /\ p.itemId = call.item,
         Send(call)
  PROVE  /\ CallsTyped(calls', p) /\ presses' \in 0 .. MaxPresses
         /\ \E s \in Slots : calls' = [calls EXCEPT ![s] = call]
<1>1. PICK s \in Slots : calls' = [calls EXCEPT ![s] = call]
  BY DEF Send
<1>2. CallsTyped(calls', p)
  BY <1>1 DEF CallsTyped
<1>3. presses' \in 0 .. MaxPresses
  BY PageConstants DEF Send
<1>4. QED
  BY <1>1, <1>2, <1>3

\* A page that stays keeps its calls.
LEMMA SamePageTyped ==
  ASSUME NEW p, NEW q, NEW cs, CallsTyped(cs, p), q.kind = p.kind,
         p.kind = "detail" => q.itemId = p.itemId
  PROVE  CallsTyped(cs, q)
BY DEF CallsTyped

LEMMA PagesTyped ==
  ASSUME TypeInv, OpenStep \/ FormStep \/ (\E a \in Accounts : LogIn(a))
  PROVE  TypeInv'
<1>1. CASE OpenStep
  <2>1. IsPage(page')
    BY <1>1, OpenStepOpens, OpenedTyped DEF IsPage, TypeInv
  <2>2. CallsTyped(calls', page')
    BY <1>1, OpenStepOpens, LeftTyped DEF TypeInv
  <2>3. QED
    BY <1>1, <2>1, <2>2, OpenStepOpens DEF TypeInv, book, marks
<1>2. CASE FormStep
  <2>1. IsForm(page) /\ IsForm(page') /\ PageOnly
    BY <1>2, FormStepKeeps
  <2>2. page.kind = "bid" /\ page'.kind = "bid"
    BY <2>1 DEF IsForm
  <2>3. CallsTyped(calls', page')
    BY <2>1, <2>2, SamePageTyped DEF TypeInv, PageOnly
  <2>4. QED
    BY <2>1, <2>3 DEF TypeInv, IsPage, PageOnly, book, marks
<1>3. CASE \E a \in Accounts : LogIn(a)
  <2>1. PICK a \in Accounts : LogIn(a)
    BY <1>3
  <2>2. CallsTyped(calls', page')
    BY <2>1 DEF LogIn, CallsTyped, Free, HistoryCalls, DetailCalls
  <2>3. QED
    BY <2>1, <2>2 DEF LogIn, TypeInv, IsPage, book, marks
<1>4. QED
  BY <1>1, <1>2, <1>3

LEMMA FormKeyFile ==
  ASSUME IsForm(page), page.zkpStatus # "idle", page.selectedAsset \in Items
  PROVE  /\ ComputedHash \in Book!Commitment
         /\ ComputedHash = [amount |-> page.bidAmount, salt |-> page.saltKey]
BY DEF IsForm, ComputedHash, Book!Keccak, Book!Commitment

LEMMA DownloadTyped ==
  ASSUME TypeInv, DownloadKeyFile
  PROVE  TypeInv' /\ IsForm(page')
<1>1. IsForm(page)
  BY PageKinds DEF DownloadKeyFile
<1>2. page.zkpStatus = "done" /\ page.selectedAsset \in Items
  BY <1>1 DEF DownloadKeyFile, IsForm
<1>3. IsForm(page')
  BY <1>1, <1>2 DEF DownloadKeyFile, IsForm
<1>4. keyFiles' \subseteq [item : Items, hash : Book!Commitment]
  BY <1>1, <1>2, FormKeyFile DEF DownloadKeyFile, TypeInv
<1>5. CallsTyped(calls', page')
  <2>1. page'.kind = page.kind /\ page.kind = "bid"
    BY <1>1, <1>3 DEF IsForm
  <2>2. QED
    BY <2>1, SamePageTyped DEF TypeInv, DownloadKeyFile
<1>6. QED
  BY <1>3, <1>4, <1>5 DEF TypeInv, IsPage, DownloadKeyFile, book, marks

LEMMA SubmitTyped ==
  ASSUME TypeInv, NEW ts \in Seconds, HandleFinalSubmit(ts)
  PROVE  /\ TypeInv'
         /\ page' = HistoryPage(bid_history', refunded_bids, claimed_bids)
         /\ UNCHANGED <<wallet, marks, keyFiles>> /\ calls' = Left
         /\ IsForm(page) /\ page.downloaded
         /\ \/ UNCHANGED <<sealed, settled>>
            \/ /\ sealed' = sealed \cup {[item |-> page.selectedAsset,
                                          wallet |-> wallet,
                                          hash |-> ComputedHash]}
               /\ UNCHANGED settled
         /\ Len(bid_history') = Len(bid_history) + 1
         /\ \A k \in DOMAIN bid_history : /\ k \in DOMAIN bid_history'
                                          /\ bid_history'[k] = bid_history[k]
<1> DEFINE bid == [itemId |-> page.selectedAsset, hash |-> ComputedHash,
                   revealed |-> FALSE, timestamp |-> ts]
<1>1. IsForm(page) /\ page.downloaded
  BY PageKinds DEF HandleFinalSubmit
<1>2. page.selectedAsset \in Items /\ page.zkpStatus = "done"
  BY <1>1 DEF IsForm
<1>3. bid \in Bid
  BY <1>1, <1>2, FormKeyFile DEF Bid
<1>4. /\ bid_history' = Append(bid_history, bid)
      /\ page' = HistoryPage(bid_history', refunded_bids, claimed_bids)
      /\ calls' = Left
      /\ UNCHANGED <<wallet, marks, keyFiles>>
      /\ presses < MaxPresses /\ presses' = presses + 1
      /\ \/ /\ Book!Seal(wallet, page.selectedAsset, ComputedHash)
            /\ UNCHANGED <<listing, others>>
         \/ UNCHANGED book
  BY DEF HandleFinalSubmit
<1>5. /\ bid_history' \in Seq(Bid)
      /\ Len(bid_history') = Len(bid_history) + 1
      /\ \A k \in 1 .. Len(bid_history) : bid_history'[k] = bid_history[k]
  <2> HIDE DEF bid
  <2>1. QED
    BY <1>3, <1>4, AppendProperties DEF TypeInv
<1>6. \A k \in DOMAIN bid_history : /\ k \in DOMAIN bid_history'
                                    /\ bid_history'[k] = bid_history[k]
  <2>1. /\ DOMAIN bid_history = 1 .. Len(bid_history)
        /\ Len(bid_history) \in Nat
        /\ DOMAIN bid_history' = 1 .. Len(bid_history')
    BY <1>5, LenProperties DEF TypeInv
  <2>2. QED
    BY <1>5, <2>1
<1>7. \/ UNCHANGED <<sealed, settled>>
      \/ /\ sealed' = sealed \cup {[item |-> page.selectedAsset,
                                    wallet |-> wallet, hash |-> ComputedHash]}
         /\ UNCHANGED settled
  BY <1>4 DEF Book!Seal, book
<1>8. UNCHANGED <<auctions, listing, others>>
  BY <1>4 DEF Book!Seal, book
<1>9. IsPage(page') /\ CallsTyped(calls', page')
  BY <1>4, <1>5, OpenedTyped, LeftTyped DEF TypeInv, IsPage
<1>10. presses' \in 0 .. MaxPresses
  BY <1>4, PageConstants DEF TypeInv
<1>11. TypeInv'
  BY <1>4, <1>5, <1>8, <1>9, <1>10 DEF TypeInv, marks
<1>12. QED
  BY <1>1, <1>4, <1>5, <1>6, <1>7, <1>11

\* The calls of the history.
LEMMA SendStepSends ==
  ASSUME TypeInv, SendStep
  PROVE  /\ TypeInv'
         /\ UNCHANGED <<book, wallet, bid_history, marks, keyFiles, page>>
         /\ IsHistory(page)
         /\ \E k \in DOMAIN page.bids, s \in Slots :
                \/ calls' = [calls EXCEPT ![s] = HistoryCall("refund",
                                 page.bids[k], page.refunded)]
                \/ calls' = [calls EXCEPT ![s] = HistoryCall("claim",
                                 page.bids[k], page.claimed)]
<1>1. IsHistory(page)
  BY PageKinds DEF SendStep
<1>2. PICK k \in DOMAIN page.bids : HandleWithdrawRefund(k) \/ HandleClaimAsset(k)
  BY DEF SendStep
<1> DEFINE bid == page.bids[k]
           refund == HistoryCall("refund", bid, page.refunded)
           claim == HistoryCall("claim", bid, page.claimed)
<1>3. bid \in Bid
  BY <1>1, ListElements DEF IsHistory
<1>4. /\ UNCHANGED <<book, wallet, bid_history, marks, keyFiles, page>>
      /\ Send(refund) \/ Send(claim)
  BY <1>2 DEF HandleWithdrawRefund, HandleClaimAsset
<1>5. refund \in HistoryCalls /\ claim \in HistoryCalls
  BY <1>1, <1>3 DEF HistoryCall, HistoryCalls, IsHistory, Bid, TypeInv
<1>6. HistoryCalls \cap DetailCalls = {} /\ page.kind = "history"
  BY <1>1 DEF HistoryCalls, DetailCalls, IsHistory
<1> HIDE DEF refund, claim
<1>7. /\ CallsTyped(calls', page) /\ presses' \in 0 .. MaxPresses
      /\ \E s \in Slots : \/ calls' = [calls EXCEPT ![s] = refund]
                          \/ calls' = [calls EXCEPT ![s] = claim]
  BY <1>4, <1>5, <1>6, SendTyped DEF TypeInv
<1>8. TypeInv'
  BY <1>4, <1>7 DEF TypeInv, book, marks
<1>9. QED
  BY <1>1, <1>4, <1>7, <1>8 DEF refund, claim

\* The calls of an auction's page.
LEMMA DetailCallSends ==
  ASSUME TypeInv, NEW kind \in {"claim", "refund"}, HandleDetailCall(kind)
  PROVE  /\ TypeInv'
         /\ UNCHANGED <<book, wallet, bid_history, marks, keyFiles>>
         /\ IsDetail(page) /\ ~ page.loading
         /\ page' = [page EXCEPT !.actionLoading = TRUE]
         /\ \E s \in Slots :
                calls' = [calls EXCEPT ![s] =
                    [kind |-> kind, from |-> "detail", here |-> TRUE,
                     wallet |-> wallet, item |-> page.itemId]]
<1> DEFINE call == [kind |-> kind, from |-> "detail", here |-> TRUE,
                    wallet |-> wallet, item |-> page.itemId]
<1>1. IsDetail(page)
  BY PageKinds DEF HandleDetailCall
<1>2. /\ UNCHANGED <<book, wallet, bid_history, marks, keyFiles>>
      /\ ~ page.loading /\ Send(call)
      /\ page' = [page EXCEPT !.actionLoading = TRUE]
  BY DEF HandleDetailCall
<1>3. call \in DetailCalls /\ HistoryCalls \cap DetailCalls = {}
  BY <1>1 DEF DetailCalls, HistoryCalls, IsDetail, TypeInv
<1>4. IsDetail(page') /\ page'.kind = "detail" /\ page'.itemId = call.item
  BY <1>1, <1>2 DEF IsDetail
<1>5. CallsTyped(calls, page')
  <2>1. page.kind = "detail" /\ page'.itemId = page.itemId
    BY <1>1, <1>4 DEF IsDetail
  <2>2. QED
    BY <1>4, <2>1, SamePageTyped DEF TypeInv
<1> HIDE DEF call
<1>6. /\ CallsTyped(calls', page') /\ presses' \in 0 .. MaxPresses
      /\ \E s \in Slots : calls' = [calls EXCEPT ![s] = call]
  BY <1>2, <1>3, <1>4, <1>5, SendTyped DEF TypeInv
<1>7. TypeInv'
  BY <1>2, <1>4, <1>6 DEF TypeInv, IsPage, book, marks
<1>8. QED
  BY <1>1, <1>2, <1>6, <1>7 DEF call

\* Arrivals at a page and choices on it, which leave everything else alone.
LEMMA ArrivalsTyped ==
  ASSUME TypeInv,
         \/ \E ok \in BOOLEAN : PricesArrive(ok)
         \/ \E ok \in BOOLEAN : DetailArrives(ok)
         \/ BoardStep \/ MarketStep
  PROVE  /\ TypeInv' /\ PageOnly /\ page'.kind = page.kind
         /\ page.kind \in {"history", "detail", "board", "market"}
<1>1. CASE \E ok \in BOOLEAN : PricesArrive(ok)
  <2>1. page.kind = "history" /\ PageOnly
    BY <1>1 DEF PricesArrive
  <2>2. IsHistory(page)
    BY <2>1, PageKinds
  <2>3. IsHistory(page')
    BY <1>1, <2>2 DEF PricesArrive, IsHistory
  <2>4. page'.kind = "history"
    BY <2>3 DEF IsHistory
  <2>5. CallsTyped(calls', page')
    BY <2>1, <2>4, SamePageTyped DEF TypeInv, PageOnly
  <2>6. QED
    BY <2>1, <2>3, <2>4, <2>5 DEF TypeInv, IsPage, PageOnly, book, marks
<1>2. CASE \E ok \in BOOLEAN : DetailArrives(ok)
  <2>1. page.kind = "detail" /\ PageOnly
    BY <1>2 DEF DetailArrives
  <2>2. IsDetail(page)
    BY <2>1, PageKinds
  <2>3. IsDetail(page') /\ page'.itemId = page.itemId
    BY <1>2, <2>2 DEF DetailArrives, IsDetail
  <2>4. page'.kind = "detail"
    BY <2>3 DEF IsDetail
  <2>5. CallsTyped(calls', page')
    BY <2>1, <2>3, <2>4, SamePageTyped DEF TypeInv, PageOnly
  <2>6. QED
    BY <2>1, <2>3, <2>4, <2>5 DEF TypeInv, IsPage, PageOnly, book, marks
<1>3. CASE BoardStep
  <2>1. page.kind = "board" /\ PageOnly
    BY <1>3 DEF BoardStep, SelectBoardAsset, RowsArrive, BoardListArrives
  <2>2. IsBoard(page)
    BY <2>1, PageKinds
  <2>3. ASSUME NEW b, IsBoard(b), NEW i PROVE IsBoard(WithSelected(b, i))
    BY <2>3 DEF WithSelected, IsBoard
  <2>4. ASSUME \E i \in Items : SelectBoardAsset(i)
      PROVE  IsBoard(page')
    BY <2>2, <2>3, <2>4 DEF SelectBoardAsset
  <2>5. ASSUME \E i \in Items, ok \in BOOLEAN : RowsArrive(i, ok)
      PROVE  IsBoard(page')
    BY <2>2, <2>5 DEF RowsArrive, IsBoard
  <2>6. ASSUME \E ok \in BOOLEAN : BoardListArrives(ok)
      PROVE  IsBoard(page')
    <3> DEFINE loaded == [page EXCEPT !.listAsked = FALSE]
               listed == [loaded EXCEPT !.assets = Listed]
    <3>1. IsBoard(loaded) /\ IsBoard(listed)
      BY <2>2 DEF IsBoard
    <3>2. page' \in {loaded, WithSelected(listed, Listed[1])}
      BY <2>6 DEF BoardListArrives
    <3> HIDE DEF loaded, listed
    <3>3. QED
      BY <2>3, <3>1, <3>2
  <2>7. IsBoard(page')
    BY <1>3, <2>4, <2>5, <2>6 DEF BoardStep
  <2>8. page'.kind = "board"
    BY <2>7 DEF IsBoard
  <2>9. CallsTyped(calls', page')
    BY <2>1, <2>8, SamePageTyped DEF TypeInv, PageOnly
  <2>10. QED
    BY <2>1, <2>7, <2>8, <2>9 DEF TypeInv, IsPage, PageOnly, book, marks
<1>4. CASE MarketStep
  <2>1. page.kind = "market" /\ PageOnly
    BY <1>4 DEF MarketStep, FilterStep, HandleMainFilterChange, SetSubFilter,
                MarketListArrives, MarketProofsArrive, MarketLoopEnds
  <2>2. IsMarket(page)
    BY <2>1, PageKinds
  <2>3. ASSUME FilterStep
      PROVE  IsMarket(page')
    BY <2>2, <2>3 DEF FilterStep, HandleMainFilterChange, SetSubFilter, IsMarket
  <2>4. ASSUME \E ok \in BOOLEAN : MarketListArrives(ok)
      PROVE  IsMarket(page')
    <3>1. Listed \in Seq(Items)
      BY ListedTyped DEF TypeInv
    <3>2. QED
      BY <2>2, <2>4, <3>1 DEF MarketListArrives, IsMarket
  <2>5. ASSUME \E ok \in BOOLEAN : MarketProofsArrive(ok)
      PROVE  IsMarket(page')
    <3>1. page.todo \in Seq(Items) /\ page.todo # <<>>
      BY <2>2, <2>5 DEF IsMarket, MarketProofsArrive
    <3>2. Tail(page.todo) \in Seq(Items)
      BY <3>1, ElementsOfTail
    <3>3. QED
      BY <2>2, <2>5, <3>2 DEF MarketProofsArrive, IsMarket
  <2>6. ASSUME MarketLoopEnds
      PROVE  IsMarket(page')
    BY <2>2, <2>6 DEF MarketLoopEnds, IsMarket
  <2>7. IsMarket(page')
    BY <1>4, <2>3, <2>4, <2>5, <2>6 DEF MarketStep
  <2>8. page'.kind = "market"
    BY <2>7 DEF IsMarket
  <2>9. CallsTyped(calls', page')
    BY <2>1, <2>8, SamePageTyped DEF TypeInv, PageOnly
  <2>10. QED
    BY <2>1, <2>7, <2>8, <2>9 DEF TypeInv, IsPage, PageOnly, book, marks
<1>5. QED
  BY <1>1, <1>2, <1>3, <1>4

\* What the backend tells the caller.
Notice(kind) == IF kind = "refund" THEN "refund_success" ELSE "claim_success"

LEMMA AnswerSettles ==
  ASSUME TypeInv, NEW s \in Slots, Answer(s)
  PROVE  /\ calls[s] \in HistoryCalls \cup DetailCalls
         /\ calls' = [calls EXCEPT ![s] = Free]
         /\ UNCHANGED <<auctions, sealed, listing, others, wallet, bid_history,
                        keyFiles, presses>>
         /\ settled \subseteq settled'
         /\ \E ok \in BOOLEAN :
                /\ ok => [user_address |-> calls[s].wallet,
                          item_id |-> calls[s].item,
                          notification_type |-> Notice(calls[s].kind)] \in settled'
                /\ calls[s] \in HistoryCalls => HistoryContinues(calls[s], ok)
                /\ calls[s] \in DetailCalls => DetailContinues(calls[s], ok)
<1> DEFINE c == calls[s]
<1>1. /\ c # Free /\ calls' = [calls EXCEPT ![s] = Free]
      /\ UNCHANGED <<wallet, bid_history, keyFiles, presses>>
  BY DEF Answer
<1>2. c \in HistoryCalls \cup DetailCalls
  BY <1>1 DEF TypeInv, CallsTyped
<1>3. PICK ok \in BOOLEAN :
          /\ Accepted(c) \/ (~ ok /\ UNCHANGED book)
          /\ IF c.from = "history" THEN HistoryContinues(c, ok)
                                   ELSE DetailContinues(c, ok)
  BY DEF Answer
<1>4. /\ UNCHANGED <<auctions, sealed, listing, others>>
      /\ settled \subseteq settled'
      /\ ok => [user_address |-> c.wallet, item_id |-> c.item,
                notification_type |-> Notice(c.kind)] \in settled'
  <2>1. CASE Accepted(c)
    <3>1. CASE c.kind = "claim" /\ Book!Claim(c.wallet, c.item)
      BY <2>1, <3>1 DEF Accepted, Book!Claim, Notice
    <3>2. CASE c.kind = "refund" /\ Book!Refund(c.wallet, c.item)
      BY <2>1, <3>2 DEF Accepted, Book!Refund, Notice
    <3>3. QED
      BY <2>1, <3>1, <3>2 DEF Accepted
  <2>2. CASE ~ ok /\ UNCHANGED book
    BY <2>2 DEF book
  <2>3. QED
    BY <1>3, <2>1, <2>2
<1>5. /\ c \in HistoryCalls => c.from = "history"
      /\ c \in DetailCalls => c.from = "detail"
  BY DEF HistoryCalls, DetailCalls
<1>6. QED
  BY <1>1, <1>2, <1>3, <1>4, <1>5

\* An answer moves on the page that made the call, if it is still shown.
LEMMA AnswerMovesItsPage ==
  ASSUME TypeInv, NEW s \in Slots, Answer(s)
  PROVE  \/ page' = page
         \/ IsHistory(page) /\ page'.kind = "history" /\ calls[s] \in HistoryCalls
         \/ /\ IsDetail(page) /\ page'.kind = "detail"
            /\ calls[s] \in DetailCalls /\ calls[s].here
<1> DEFINE c == calls[s]
<1>1. PICK ok \in BOOLEAN :
          /\ c \in HistoryCalls => HistoryContinues(c, ok)
          /\ c \in DetailCalls => DetailContinues(c, ok)
  BY AnswerSettles
<1>2. /\ c \in HistoryCalls \cup DetailCalls
      /\ c \in HistoryCalls /\ c.here => page.kind = "history"
      /\ c \in DetailCalls /\ c.here => page.kind = "detail"
  BY AnswerSettles DEF TypeInv, CallsTyped
<1> HIDE DEF c
<1>3. ASSUME c \in HistoryCalls, page' # page
      PROVE  IsHistory(page) /\ page'.kind = "history"
  <2>1. /\ c.here
        /\ \/ page' = [page EXCEPT !.refunded = refunded_bids']
           \/ page' = [page EXCEPT !.claimed = claimed_bids']
    BY <1>1, <1>3 DEF HistoryContinues
  <2>2. IsHistory(page)
    BY <1>2, <1>3, <2>1, PageKinds
  <2>3. QED
    BY <2>1, <2>2 DEF IsHistory
<1>4. ASSUME c \in DetailCalls, page' # page
      PROVE  IsDetail(page) /\ page'.kind = "detail" /\ c.here
  <2>1. c.here
    BY <1>1, <1>4 DEF DetailContinues
  <2>2. IsDetail(page)
    BY <1>2, <1>4, <2>1, PageKinds
  <2>3. page' = [page EXCEPT !.actionLoading = FALSE,
                             !.loading = @ \/ ok, !.asked = @ \/ ok]
    BY <1>1, <1>4, <2>1 DEF DetailContinues
  <2>4. page'.kind = "detail"
    BY <2>2, <2>3 DEF IsDetail
  <2>5. QED
    BY <2>1, <2>2, <2>4
<1>5. QED
  BY <1>2, <1>3, <1>4 DEF c

LEMMA AnswerTyped ==
  ASSUME TypeInv, NEW s \in Slots, Answer(s)
  PROVE  TypeInv'
<1> DEFINE c == calls[s]
<1>1. PICK ok \in BOOLEAN :
          /\ c \in HistoryCalls => HistoryContinues(c, ok)
          /\ c \in DetailCalls => DetailContinues(c, ok)
  BY AnswerSettles
<1>2. /\ c \in HistoryCalls \cup DetailCalls
      /\ calls' = [calls EXCEPT ![s] = Free]
      /\ UNCHANGED <<auctions, sealed, listing, others, wallet, bid_history,
                     keyFiles, presses>>
  BY AnswerSettles
<1>3. /\ c \in HistoryCalls /\ c.here => page.kind = "history"
      /\ c \in DetailCalls /\ c.here =>
             page.kind = "detail" /\ page.itemId = c.item
      /\ CallsTyped(calls', page)
  BY <1>2, FreedTyped DEF TypeInv, CallsTyped
<1> HIDE DEF c
<1>4. CASE c \in HistoryCalls
  <2> DEFINE updated == c.marks \cup {c.timestamp}
  <2>1. updated \subseteq Seconds
    BY <1>4 DEF HistoryCalls
  <2> HIDE DEF updated
  <2>2. /\ refunded_bids' \in {refunded_bids, updated}
        /\ claimed_bids' \in {claimed_bids, updated}
        /\ \/ page' = page
           \/ c.here /\ page' = [page EXCEPT !.refunded = refunded_bids']
           \/ c.here /\ page' = [page EXCEPT !.claimed = claimed_bids']
    BY <1>1, <1>4 DEF HistoryContinues, updated
  <2>3. refunded_bids' \subseteq Seconds /\ claimed_bids' \subseteq Seconds
    BY <2>1, <2>2 DEF TypeInv
  <2>4. page' = page \/ (IsHistory(page) /\ IsHistory(page'))
    <3>1. CASE page' # page
      <4>1. IsHistory(page)
        BY <1>3, <1>4, <2>2, <3>1, PageKinds
      <4>2. QED
        BY <2>2, <2>3, <3>1, <4>1 DEF IsHistory
    <3>2. QED
      BY <3>1
  <2>5. page'.kind = page.kind /\ (page.kind = "detail" => page' = page)
    BY <2>4 DEF IsHistory
  <2>6. CallsTyped(calls', page')
    BY <1>3, <2>5, SamePageTyped
  <2>7. IsPage(page')
    BY <2>4 DEF TypeInv, IsPage
  <2>8. QED
    BY <1>2, <2>3, <2>6, <2>7 DEF TypeInv
<1>5. CASE c \in DetailCalls
  <2>1. /\ UNCHANGED marks
        /\ page' = IF c.here
                     THEN [page EXCEPT !.actionLoading = FALSE,
                                       !.loading = @ \/ ok, !.asked = @ \/ ok]
                     ELSE page
    BY <1>1, <1>5 DEF DetailContinues
  <2>2. page' = page \/ (/\ IsDetail(page) /\ IsDetail(page')
                         /\ page'.itemId = page.itemId)
    <3>1. CASE c.here
      <4>1. IsDetail(page)
        BY <1>3, <1>5, <3>1, PageKinds
      <4>2. (page.loading \/ ok) \in BOOLEAN /\ (page.asked \/ ok) \in BOOLEAN
        BY <4>1 DEF IsDetail
      <4>3. QED
        BY <2>1, <3>1, <4>1, <4>2 DEF IsDetail
    <3>2. CASE ~ c.here
      BY <2>1, <3>2
    <3>3. QED
      BY <3>1, <3>2
  <2>3. page'.kind = page.kind /\ (page.kind = "detail" => page'.itemId = page.itemId)
    BY <2>2 DEF IsDetail
  <2>4. CallsTyped(calls', page')
    BY <1>3, <2>3, SamePageTyped
  <2>5. IsPage(page')
    BY <2>2 DEF TypeInv, IsPage
  <2>6. QED
    BY <1>2, <2>1, <2>4, <2>5 DEF TypeInv, marks
<1>6. QED
  BY <1>2, <1>4, <1>5

\* Others change the backend only, and store bids of the rival only.
LEMMA OthersKeep ==
  ASSUME TypeInv, Others
  PROVE  /\ TypeInv'
         /\ UNCHANGED <<wallet, bid_history, marks, keyFiles, page, calls, settled>>
         /\ sealed \subseteq sealed'
         /\ \A b \in sealed' : b \in sealed \/ b.wallet = Rival
<1>1. PICK i \in Items : \/ RivalCreates(i) \/ RivalReveals(i) \/ SellerEnds(i)
                         \/ \E h \in Book!Commitment : RivalSeals(i, h)
  BY DEF Others
<1>2. Elsewhere
  BY <1>1 DEF RivalCreates, RivalReveals, SellerEnds, RivalSeals
<1>3. /\ DOMAIN auctions' \subseteq Items /\ listing' \in Seq(Items)
      /\ Elements(listing') = DOMAIN auctions'
      /\ settled' = settled /\ sealed \subseteq sealed'
      /\ \A b \in sealed' : b \in sealed \/ b.wallet = Rival
  <2>1. CASE RivalCreates(i)
    <3>1. PICK p : Book!Create(Rival, i, p)
      BY <2>1 DEF RivalCreates
    <3>2. DOMAIN auctions' = DOMAIN auctions \cup {i} /\ UNCHANGED <<sealed, settled>>
      BY <3>1 DEF Book!Create
    <3>3. listing' = <<i>> \o listing
      BY <2>1 DEF RivalCreates
    <3>4. listing' \in Seq(Items) /\ Elements(listing') = {i} \cup Elements(listing)
      BY <3>3, ElementsOfCons DEF TypeInv
    <3>5. QED
      BY <3>2, <3>4 DEF TypeInv
  <2>2. CASE RivalReveals(i)
    <3>1. PICK b : Book!Reveal(Rival, i, b.hash) /\ UNCHANGED listing
      BY <2>2 DEF RivalReveals
    <3>2. DOMAIN auctions' = DOMAIN auctions /\ UNCHANGED <<sealed, settled>>
      BY <3>1 DEF Book!Reveal
    <3>3. QED
      BY <3>1, <3>2 DEF TypeInv
  <2>3. CASE SellerEnds(i)
    <3>1. Book!SetStatus(Rival, i, "ended") /\ UNCHANGED listing
      BY <2>3 DEF SellerEnds
    <3>2. DOMAIN auctions' = DOMAIN auctions /\ UNCHANGED <<sealed, settled>>
      BY <3>1 DEF Book!SetStatus
    <3>3. QED
      BY <3>1, <3>2 DEF TypeInv
  <2>4. CASE \E h \in Book!Commitment : RivalSeals(i, h)
    <3>1. PICK h : Book!Seal(Rival, i, h) /\ UNCHANGED listing
      BY <2>4 DEF RivalSeals
    <3>2. /\ UNCHANGED <<auctions, settled>>
          /\ sealed' = sealed \cup {[item |-> i, wallet |-> Rival, hash |-> h]}
      BY <3>1 DEF Book!Seal
    <3>3. QED
      BY <3>1, <3>2 DEF TypeInv
  <2>5. QED
    BY <1>1, <2>1, <2>2, <2>3, <2>4
<1>4. UNCHANGED <<wallet, bid_history, marks, keyFiles, page, calls, presses>>
  BY <1>2 DEF Elsewhere
<1>5. others' \in 0 .. MaxOthers
  BY <1>2, PageConstants DEF Elsewhere, TypeInv
<1>6. TypeInv'
  BY <1>3, <1>4, <1>5 DEF TypeInv, marks
<1>7. QED
  BY <1>3, <1>4, <1>6

LEMMA FiniteElements ==
  ASSUME NEW S, NEW bids \in Seq(S), NEW f
  PROVE  IsFiniteSet({f[bids[k]] : k \in DOMAIN bids})
<1> DEFINE T == {f[bids[k]] : k \in DOMAIN bids}
           g == [k \in 1 .. Len(bids) |-> f[bids[k]]]
<1>1. DOMAIN bids = 1 .. Len(bids) /\ Len(bids) \in Nat
  BY LenProperties
<1>2. IsFiniteSet(1 .. Len(bids))
  BY <1>1, FS_Interval
<1>3. g \in Surjection(1 .. Len(bids), T)
  <2>1. g \in [1 .. Len(bids) -> T]
    BY <1>1
  <2>2. \A t \in T : \E k \in 1 .. Len(bids) : g[k] = t
    BY <1>1
  <2> HIDE DEF g, T
  <2>3. QED
    BY <2>1, <2>2 DEF Surjection
<1> HIDE DEF g, T
<1>4. QED
  BY <1>2, <1>3, FS_Surjection DEF T

LEMMA InitTyped ==
  ASSUME Init
  PROVE  TypeInv
<1>1. wallet \in Accounts /\ bid_history \in Seq(Bid)
  BY PageRecords DEF Init
<1>2. \A k \in DOMAIN bid_history : bid_history[k] \in Bid
  BY <1>1, ListElements
<1>3. DOMAIN auctions = {bid_history[k].itemId : k \in DOMAIN bid_history}
  BY DEF Init
<1>4. DOMAIN auctions \subseteq Items
  BY <1>2, <1>3 DEF Bid
<1>5. IsFiniteSet(DOMAIN auctions)
  <2> DEFINE f == [b \in Bid |-> b.itemId]
  <2>1. IsFiniteSet({f[bid_history[k]] : k \in DOMAIN bid_history})
    BY <1>1, FiniteElements
  <2>2. \A k \in DOMAIN bid_history : f[bid_history[k]] = bid_history[k].itemId
    BY <1>2
  <2> HIDE DEF f
  <2>3. {f[bid_history[k]] : k \in DOMAIN bid_history} = DOMAIN auctions
    BY <1>3, <2>2
  <2>4. QED
    BY <2>1, <2>3
<1>6. listing \in Seq(Items)
  <2>1. Cardinality(DOMAIN auctions) \in Nat
    BY <1>5, FS_CardinalityType
  <2>2. listing \in [1 .. Cardinality(DOMAIN auctions) -> Items]
    BY <1>4 DEF Init
  <2>3. QED
    BY <2>1, <2>2, SeqDef
<1>7. keyFiles \subseteq [item : Items, hash : Book!Commitment]
  <2>1. \A b \in Elements(bid_history) :
            b.itemId \in Items /\ b.hash \in Book!Commitment
    BY <1>2 DEF Elements, Bid
  <2>2. keyFiles = {[item |-> b.itemId, hash |-> b.hash] :
                       b \in Elements(bid_history)}
    BY DEF Init
  <2>3. QED
    BY <2>1, <2>2
<1>8. CallsTyped(calls, page)
  BY FreeIsNoCall DEF Init, CallsTyped
<1>9. presses \in 0 .. MaxPresses /\ others \in 0 .. MaxOthers
  BY PageConstants DEF Init
<1>10. QED
  BY <1>1, <1>4, <1>6, <1>7, <1>8, <1>9 DEF Init, TypeInv, IsPage

LEMMA NextTyped ==
  ASSUME TypeInv, [Next]_vars
  PROVE  TypeInv'
<1>1. CASE Next
  BY <1>1, NextIsOneOf, PagesTyped, DownloadTyped, SubmitTyped, SendStepSends,
     DetailCallSends, ArrivalsTyped, AnswerTyped, OthersKeep
<1>2. CASE UNCHANGED vars
  BY <1>2 DEF vars, book, marks, TypeInv
<1>3. QED
  BY <1>1, <1>2

LEMMA AlwaysTyped == Spec => []TypeInv
<1>1. Init => TypeInv
  BY InitTyped
<1>2. TypeInv /\ [Next]_vars => TypeInv'
  BY NextTyped
<1>3. QED
  BY <1>1, <1>2, PTL DEF Spec

(***************************************************************************)
(* The stores, the lists and the form keep their types on every page, and  *)
(* the marketplace's subcategory stays one of the main category chosen     *)
(* (SubmitBid.jsx:94, Marketplace.jsx:197).                                *)
(***************************************************************************)
THEOREM PagesTypeCorrect == Spec => []TypeOK
<1>1. TypeInv => TypeOK
  <2> SUFFICES ASSUME TypeInv PROVE TypeOK
    OBVIOUS
  <2>1. page.kind = "bid" =>
            /\ page.zkpStatus \in {"idle", "generating", "done"}
            /\ page.zkpStatus # "idle" => page.bidAmount \in Amounts
            /\ page.downloaded => page.zkpStatus = "done"
            /\ page.selectedAsset \in Items \cup {None}
            /\ page.saltKey \in Salts
    BY PageKinds DEF IsForm
  <2>2. page.kind = "history" => page.bids \in Seq(Bid)
    BY PageKinds DEF IsHistory
  <2>3. page.kind = "market" =>
            \/ page.subFilter = "all"
            \/ /\ page.mainFilter # "all"
               /\ page.subFilter \in Subs[page.mainFilter]
    BY PageKinds DEF IsMarket
  <2>4. QED
    BY <2>1, <2>2, <2>3 DEF TypeInv, TypeOK
<1>2. QED
  BY <1>1, AlwaysTyped, PTL

-----------------------------------------------------------------------------
(***************************************************************************)
(* The opening of every stored bid is in a key file.  The strengthening:   *)
(* while the form says downloaded, the file on disk is the one of what is  *)
(* on the form at this moment.                                             *)
(***************************************************************************)

OpeningInv ==
    /\ OpeningIsKept
    /\ page.kind = "bid" /\ page.downloaded =>
           [item |-> page.selectedAsset, hash |-> ComputedHash] \in keyFiles

LEMMA OpeningInit == Init => OpeningInv
<1> SUFFICES ASSUME Init PROVE OpeningInv
  OBVIOUS
<1>1. \A b \in sealed : b.wallet \in Accounts =>
          [item |-> b.item, hash |-> b.hash] \in keyFiles
  <2> SUFFICES ASSUME NEW b \in sealed, b.wallet \in Accounts
               PROVE  [item |-> b.item, hash |-> b.hash] \in keyFiles
    OBVIOUS
  <2>1. PICK h \in RivalBids : sealed =
            {[item |-> x.itemId, wallet |-> wallet, hash |-> x.hash] :
                x \in Elements(bid_history)}
            \cup {[item |-> i, wallet |-> Rival, hash |-> h] :
                    i \in DOMAIN auctions}
    BY DEF Init
  <2>2. b \notin {[item |-> i, wallet |-> Rival, hash |-> h] :
                     i \in DOMAIN auctions}
    BY PageConstants
  <2>3. PICK x \in Elements(bid_history) :
            b = [item |-> x.itemId, wallet |-> wallet, hash |-> x.hash]
    BY <2>1, <2>2
  <2>4. QED
    BY <2>3 DEF Init
<1>2. page.kind = "login"
  BY DEF Init, Start
<1>3. QED
  BY <1>1, <1>2 DEF OpeningInv, OpeningIsKept

LEMMA OpeningKept ==
  ASSUME TypeInv, OpeningInv, [Next]_vars
  PROVE  OpeningInv'
<1>1. ASSUME UNCHANGED <<sealed, keyFiles>>,
             \/ page'.kind # "bid" \/ page' = page \/ ~ page'.downloaded
      PROVE  OpeningInv'
  BY <1>1 DEF OpeningInv, OpeningIsKept, ComputedHash, Book!Keccak
<1>2. CASE OpenStep
  <2>1. page'.kind # "bid" \/ ~ page'.downloaded
    BY <1>2, OpenStepOpens DEF HistoryPage, DetailPage, BoardPage, MarketPage
  <2>2. QED
    BY <1>1, <1>2, <2>1, OpenStepOpens DEF book
<1>3. CASE \E a \in Accounts : LogIn(a)
  BY <1>1, <1>3 DEF LogIn, Start, book
<1>4. CASE FormStep
  <2>1. /\ UNCHANGED <<sealed, keyFiles>> /\ IsForm(page)
        /\ page'.downloaded =>
               /\ page.downloaded
               /\ page'.selectedAsset = page.selectedAsset
               /\ page'.bidAmount = page.bidAmount
               /\ page'.saltKey = page.saltKey
    BY <1>4, FormStepKeeps DEF PageOnly, book
  <2>2. page.kind = "bid"
    BY <2>1 DEF IsForm
  <2>3. QED
    BY <2>1, <2>2 DEF OpeningInv, OpeningIsKept, ComputedHash, Book!Keccak
<1>5. CASE DownloadKeyFile
  <2>1. /\ UNCHANGED sealed /\ page.kind = "bid"
        /\ page' = [page EXCEPT !.downloaded = TRUE]
        /\ keyFiles' = keyFiles \cup
               {[item |-> page.selectedAsset, hash |-> ComputedHash]}
    BY <1>5 DEF DownloadKeyFile, book
  <2>2. /\ page'.selectedAsset = page.selectedAsset
        /\ page'.bidAmount = page.bidAmount
        /\ page'.saltKey = page.saltKey
    BY <2>1, PageKinds DEF IsForm
  <2>3. ComputedHash' = ComputedHash
    BY <2>2 DEF ComputedHash, Book!Keccak
  <2>4. QED
    BY <2>1, <2>2, <2>3 DEF OpeningInv, OpeningIsKept
<1>6. CASE \E ts \in Seconds : HandleFinalSubmit(ts)
  <2>1. /\ page' = HistoryPage(bid_history', refunded_bids, claimed_bids)
        /\ UNCHANGED keyFiles
        /\ IsForm(page) /\ page.downloaded
        /\ \/ UNCHANGED sealed
           \/ sealed' = sealed \cup {[item |-> page.selectedAsset,
                                      wallet |-> wallet,
                                      hash |-> ComputedHash]}
    BY <1>6, SubmitTyped
  <2>2. page'.kind = "history" /\ page.kind = "bid"
    BY <2>1 DEF HistoryPage, IsForm
  <2>3. [item |-> page.selectedAsset, hash |-> ComputedHash] \in keyFiles
    BY <2>1, <2>2 DEF OpeningInv
  <2>4. \A b \in sealed' : b.wallet \in Accounts =>
            [item |-> b.item, hash |-> b.hash] \in keyFiles
    BY <2>1, <2>3 DEF OpeningInv, OpeningIsKept
  <2>5. QED
    BY <2>1, <2>2, <2>4 DEF OpeningInv, OpeningIsKept
<1>7. CASE SendStep
  BY <1>1, <1>7, SendStepSends DEF book
<1>8. CASE \E kind \in {"claim", "refund"} : HandleDetailCall(kind)
  <2>1. /\ UNCHANGED <<sealed, keyFiles>> /\ IsDetail(page)
        /\ page' = [page EXCEPT !.actionLoading = TRUE]
    BY <1>8, DetailCallSends DEF book
  <2>2. page'.kind # "bid"
    BY <2>1 DEF IsDetail
  <2>3. QED
    BY <1>1, <2>1, <2>2
<1>9. CASE \/ \E ok \in BOOLEAN : PricesArrive(ok)
           \/ \E ok \in BOOLEAN : DetailArrives(ok)
           \/ BoardStep \/ MarketStep
  <2>1. PageOnly /\ page'.kind = page.kind /\ page.kind # "bid"
    BY <1>9, ArrivalsTyped
  <2>2. QED
    BY <1>1, <2>1 DEF PageOnly, book
<1>10. CASE \E s \in Slots : Answer(s)
  <2>1. PICK s \in Slots : Answer(s)
    BY <1>10
  <2>2. UNCHANGED <<sealed, keyFiles>>
    BY <2>1, AnswerSettles
  <2>3. page' = page \/ page.kind \in {"history", "detail"}
    BY <2>1, AnswerMovesItsPage DEF IsHistory, IsDetail
  <2>4. CASE page' = page
    BY <1>1, <2>2, <2>4
  <2>5. CASE page.kind \in {"history", "detail"}
    <3>1. page'.kind = page.kind
      BY <2>1, <2>5, AnswerMovesItsPage DEF IsHistory, IsDetail
    <3>2. QED
      BY <1>1, <2>2, <2>5, <3>1
  <2>6. QED
    BY <2>3, <2>4, <2>5
<1>11. CASE Others
  <2>1. /\ UNCHANGED <<keyFiles, page>>
        /\ \A b \in sealed' : b \in sealed \/ b.wallet = Rival
    BY <1>11, OthersKeep
  <2>2. \A b \in sealed' : b.wallet \in Accounts => b \in sealed
    BY <2>1, PageConstants
  <2>3. QED
    BY <2>1, <2>2 DEF OpeningInv, OpeningIsKept, ComputedHash, Book!Keccak
<1>12. CASE UNCHANGED vars
  BY <1>1, <1>12 DEF vars, book
<1>13. QED
  BY <1>2, <1>3, <1>4, <1>5, <1>6, <1>7, <1>8, <1>9, <1>10, <1>11, <1>12, NextIsOneOf

(***************************************************************************)
(* Whatever the backend has stored for a bid of this browser, its opening  *)
(* is in a key file (SubmitBid.jsx:76, 95, 529).                           *)
(***************************************************************************)
THEOREM OpeningKeptInKeyFile == Spec => []OpeningIsKept
<1>1. Init => OpeningInv
  BY OpeningInit
<1>2. TypeInv /\ OpeningInv /\ [Next]_vars => OpeningInv'
  BY OpeningKept
<1>3. OpeningInv => OpeningIsKept
  BY DEF OpeningInv
<1>4. QED
  BY <1>1, <1>2, <1>3, AlwaysTyped, PTL DEF Spec

-----------------------------------------------------------------------------
(***************************************************************************)
(* Marks.  The strengthening: every copy of the marks, on the history and  *)
(* in the calls under way, is acknowledged as the stored ones are, and the *)
(* bids the page shows are still on record.                                *)
(***************************************************************************)

Acknowledged(notice, ts) ==
    \E k \in DOMAIN bid_history, n \in settled :
        /\ bid_history[k].timestamp = ts
        /\ n.item_id = bid_history[k].itemId
        /\ n.notification_type = notice

OnRecord(item, ts) ==
    \E k \in DOMAIN bid_history :
        bid_history[k].itemId = item /\ bid_history[k].timestamp = ts

AllAcknowledged(notice, ts) == \A t \in ts : Acknowledged(notice, t)

CallAcknowledged(c) ==
    c \in HistoryCalls =>
        /\ OnRecord(c.item, c.timestamp)
        /\ AllAcknowledged(Notice(c.kind), c.marks)

PageAcknowledged(p) ==
    p.kind = "history" =>
        /\ \A k \in DOMAIN p.bids : OnRecord(p.bids[k].itemId, p.bids[k].timestamp)
        /\ AllAcknowledged("refund_success", p.refunded)
        /\ AllAcknowledged("claim_success", p.claimed)

MarkInv ==
    /\ AllAcknowledged("refund_success", refunded_bids)
    /\ AllAcknowledged("claim_success", claimed_bids)
    /\ PageAcknowledged(page)
    /\ \A s \in Slots : CallAcknowledged(calls[s])

\* Bids and settlements stay, so what was acknowledged stays so.
Grows ==
    /\ settled \subseteq settled'
    /\ \A k \in DOMAIN bid_history : /\ k \in DOMAIN bid_history'
                                     /\ bid_history'[k] = bid_history[k]

LEMMA AcknowledgedStays ==
  ASSUME Grows
  PROVE  /\ \A notice, ts : Acknowledged(notice, ts) => Acknowledged(notice, ts)'
         /\ \A item, ts : OnRecord(item, ts) => OnRecord(item, ts)'
         /\ \A notice, ts : AllAcknowledged(notice, ts) => AllAcknowledged(notice, ts)'
<1>1. ASSUME NEW notice, NEW ts, Acknowledged(notice, ts)
      PROVE  Acknowledged(notice, ts)'
  BY <1>1 DEF Grows, Acknowledged
<1>2. ASSUME NEW item, NEW ts, OnRecord(item, ts)
      PROVE  OnRecord(item, ts)'
  BY <1>2 DEF Grows, OnRecord
<1>3. QED
  BY <1>1, <1>2 DEF AllAcknowledged

LEMMA StepGrows ==
  ASSUME TypeInv, [Next]_vars
  PROVE  Grows
<1>1. ASSUME UNCHANGED <<settled, bid_history>> PROVE Grows
  BY <1>1 DEF Grows
<1>2. CASE OpenStep
  BY <1>1, <1>2, OpenStepOpens DEF book
<1>3. CASE \E a \in Accounts : LogIn(a)
  BY <1>1, <1>3 DEF LogIn, book
<1>4. CASE FormStep
  BY <1>1, <1>4, FormStepKeeps DEF PageOnly, book
<1>5. CASE DownloadKeyFile
  BY <1>1, <1>5 DEF DownloadKeyFile, book
<1>6. CASE \E ts \in Seconds : HandleFinalSubmit(ts)
  BY <1>6, SubmitTyped DEF Grows
<1>7. CASE SendStep
  BY <1>1, <1>7, SendStepSends DEF book
<1>8. CASE \E kind \in {"claim", "refund"} : HandleDetailCall(kind)
  BY <1>1, <1>8, DetailCallSends DEF book
<1>9. CASE \/ \E ok \in BOOLEAN : PricesArrive(ok)
           \/ \E ok \in BOOLEAN : DetailArrives(ok)
           \/ BoardStep \/ MarketStep
  BY <1>1, <1>9, ArrivalsTyped DEF PageOnly, book
<1>10. CASE \E s \in Slots : Answer(s)
  BY <1>10, AnswerSettles DEF Grows
<1>11. CASE Others
  BY <1>1, <1>11, OthersKeep
<1>12. CASE UNCHANGED vars
  BY <1>1, <1>12 DEF vars, book
<1>13. QED
  BY <1>2, <1>3, <1>4, <1>5, <1>6, <1>7, <1>8, <1>9, <1>10, <1>11, <1>12, NextIsOneOf

LEMMA MarksStay ==
  ASSUME MarkInv, Grows, UNCHANGED marks
  PROVE  /\ AllAcknowledged("refund_success", refunded_bids)'
         /\ AllAcknowledged("claim_success", claimed_bids)'
BY AcknowledgedStays DEF MarkInv, marks, AllAcknowledged

LEMMA PageMarksStay ==
  ASSUME MarkInv, Grows,
         \/ page'.kind # "history"
         \/ /\ page.kind = "history" /\ page'.bids = page.bids
            /\ page'.refunded = page.refunded /\ page'.claimed = page.claimed
  PROVE  PageAcknowledged(page)'
BY AcknowledgedStays DEF MarkInv, PageAcknowledged, AllAcknowledged

\* A history that is opened shows what is stored.
LEMMA OpenedMarks ==
  ASSUME MarkInv, Grows, UNCHANGED marks,
         page' = HistoryPage(bid_history', refunded_bids, claimed_bids)
  PROVE  PageAcknowledged(page)'
<1>1. /\ page'.bids = bid_history' /\ page'.refunded = refunded_bids'
      /\ page'.claimed = claimed_bids'
  BY DEF HistoryPage, marks
<1>2. \A k \in DOMAIN bid_history' :
          OnRecord(bid_history[k].itemId, bid_history[k].timestamp)'
  BY DEF OnRecord
<1>3. QED
  BY <1>1, <1>2, MarksStay DEF PageAcknowledged

LEMMA CallMarksStay ==
  ASSUME MarkInv, Grows, NEW s \in Slots,
         \/ calls'[s] \notin HistoryCalls
         \/ /\ calls[s] \in HistoryCalls /\ calls'[s].kind = calls[s].kind
            /\ calls'[s].item = calls[s].item
            /\ calls'[s].timestamp = calls[s].timestamp
            /\ calls'[s].marks = calls[s].marks
  PROVE  CallAcknowledged(calls[s])'
BY AcknowledgedStays DEF MarkInv, CallAcknowledged, AllAcknowledged

LEMMA LeftMarksStay ==
  ASSUME TypeInv, MarkInv, Grows, calls' = Left
  PROVE  \A s \in Slots : CallAcknowledged(calls[s])'
<1> SUFFICES ASSUME NEW s \in Slots PROVE CallAcknowledged(calls[s])'
  OBVIOUS
<1> DEFINE c == calls[s]
<1>1. /\ c \in {Free} \cup HistoryCalls \cup DetailCalls
      /\ calls'[s] = IF c = Free THEN Free ELSE [c EXCEPT !.here = FALSE]
  BY DEF Left, TypeInv, CallsTyped
<1>2. c = Free \/ c \in DetailCalls => calls'[s] \notin HistoryCalls
  <2> HIDE DEF c
  <2>1. ASSUME c = Free PROVE calls'[s] \notin HistoryCalls
    BY <1>1, <2>1, FreeIsNoCall
  <2>2. ASSUME c \in DetailCalls PROVE calls'[s] \notin HistoryCalls
    <3>1. calls'[s] = [c EXCEPT !.here = FALSE]
      BY <1>1, <2>2, FreeIsNoCall
    <3>2. calls'[s].from = "detail"
      BY <2>2, <3>1 DEF DetailCalls
    <3>3. QED
      BY <3>2 DEF HistoryCalls
  <2>3. QED
    BY <2>1, <2>2
<1>3. ASSUME c \in HistoryCalls
      PROVE  /\ calls'[s].kind = c.kind /\ calls'[s].item = c.item
             /\ calls'[s].timestamp = c.timestamp /\ calls'[s].marks = c.marks
  <2> HIDE DEF c
  <2>1. calls'[s] = [c EXCEPT !.here = FALSE]
    BY <1>1, <1>3, FreeIsNoCall
  <2>2. QED
    BY <1>3, <2>1 DEF HistoryCalls
<1>4. QED
  BY <1>1, <1>2, <1>3, CallMarksStay

LEMMA MarkKept ==
  ASSUME TypeInv, MarkInv, [Next]_vars
  PROVE  MarkInv'
<1>0. Grows
  BY StepGrows
<1>1. ASSUME UNCHANGED <<marks, calls>>,
             \/ page'.kind # "history"
             \/ /\ page.kind = "history" /\ page'.bids = page.bids
                /\ page'.refunded = page.refunded /\ page'.claimed = page.claimed
      PROVE  MarkInv'
  <2>1. PageAcknowledged(page)'
    BY <1>0, <1>1, PageMarksStay
  <2>2. \A s \in Slots : calls'[s] \in HistoryCalls => calls[s] \in HistoryCalls
    BY <1>1
  <2>3. \A s \in Slots : CallAcknowledged(calls[s])'
    BY <1>0, <1>1, <2>2, CallMarksStay
  <2>4. QED
    BY <1>0, <1>1, <2>1, <2>3, MarksStay DEF MarkInv
<1>2. CASE OpenStep
  <2>1. UNCHANGED <<marks, bid_history>> /\ calls' = Left
    BY <1>2, OpenStepOpens
  <2>2. \/ page' = HistoryPage(bid_history', refunded_bids, claimed_bids)
        \/ page'.kind # "history"
    BY <1>2, <2>1, OpenStepOpens DEF IsForm, DetailPage, BoardPage, MarketPage
  <2>3. PageAcknowledged(page)'
    BY <1>0, <2>1, <2>2, OpenedMarks, PageMarksStay
  <2>4. QED
    BY <1>0, <2>1, <2>3, MarksStay, LeftMarksStay DEF MarkInv
<1>3. CASE \E a \in Accounts : LogIn(a)
  <2>1. UNCHANGED marks /\ page' = Start /\ calls' = [s \in Slots |-> Free]
    BY <1>3 DEF LogIn
  <2>2. page'.kind # "history" /\ \A s \in Slots : calls'[s] \notin HistoryCalls
    BY <2>1, FreeIsNoCall DEF Start
  <2>3. QED
    BY <1>0, <2>1, <2>2, MarksStay, PageMarksStay, CallMarksStay DEF MarkInv
<1>4. CASE FormStep \/ DownloadKeyFile
  <2>1. /\ IsForm(page') /\ UNCHANGED <<marks, calls>>
    BY <1>4, FormStepKeeps, DownloadTyped DEF PageOnly, DownloadKeyFile
  <2>2. page'.kind # "history"
    BY <2>1 DEF IsForm
  <2>3. QED
    BY <1>1, <2>1, <2>2
<1>5. CASE \E ts \in Seconds : HandleFinalSubmit(ts)
  <2>1. /\ page' = HistoryPage(bid_history', refunded_bids, claimed_bids)
        /\ UNCHANGED marks /\ calls' = Left
    BY <1>5, SubmitTyped
  <2>2. QED
    BY <1>0, <2>1, OpenedMarks, MarksStay, LeftMarksStay DEF MarkInv
<1>6. CASE SendStep
  <2>1. UNCHANGED <<marks, page>> /\ page.kind = "history" /\ IsHistory(page)
    BY <1>6, SendStepSends DEF SendStep
  <2>2. PICK k \in DOMAIN page.bids, z \in Slots :
            \/ calls' = [calls EXCEPT ![z] = HistoryCall("refund",
                             page.bids[k], page.refunded)]
            \/ calls' = [calls EXCEPT ![z] = HistoryCall("claim",
                             page.bids[k], page.claimed)]
    BY <1>6, SendStepSends
  <2>3. /\ OnRecord(page.bids[k].itemId, page.bids[k].timestamp)'
        /\ \A t \in page.refunded : Acknowledged("refund_success", t)'
        /\ \A t \in page.claimed : Acknowledged("claim_success", t)'
    BY <1>0, <2>1, AcknowledgedStays DEF MarkInv, PageAcknowledged, AllAcknowledged
  <2>4. ASSUME NEW s \in Slots PROVE CallAcknowledged(calls[s])'
    <3>1. CASE s # z
      <4>1. calls'[s] = calls[s]
        BY <2>2, <3>1 DEF TypeInv, CallsTyped
      <4>2. QED
        BY <1>0, <4>1, CallMarksStay
    <3>2. CASE s = z
      <4>1. calls'[z] \in {HistoryCall("refund", page.bids[k], page.refunded),
                           HistoryCall("claim", page.bids[k], page.claimed)}
        BY <2>2 DEF TypeInv, CallsTyped
      <4>2. /\ calls'[z].item = page.bids[k].itemId
            /\ calls'[z].timestamp = page.bids[k].timestamp
            /\ \/ /\ Notice(calls'[z].kind) = "refund_success"
                  /\ calls'[z].marks = page.refunded
               \/ /\ Notice(calls'[z].kind) = "claim_success"
                  /\ calls'[z].marks = page.claimed
        BY <4>1 DEF HistoryCall, Notice
      <4>3. OnRecord(calls[s].item, calls[s].timestamp)'
        BY <2>1, <2>3, <3>2, <4>2 DEF OnRecord
      <4>4. \A t \in calls'[s].marks : Acknowledged(Notice(calls[s].kind), t)'
        <5>1. CASE /\ Notice(calls'[z].kind) = "refund_success"
                   /\ calls'[z].marks = page.refunded
          BY <2>3, <3>2, <5>1 DEF Acknowledged
        <5>2. CASE /\ Notice(calls'[z].kind) = "claim_success"
                   /\ calls'[z].marks = page.claimed
          BY <2>3, <3>2, <5>2 DEF Acknowledged
        <5>3. QED
          BY <4>2, <5>1, <5>2
      <4>5. QED
        BY <4>3, <4>4 DEF CallAcknowledged, AllAcknowledged
    <3>3. QED
      BY <3>1, <3>2
  <2>5. PageAcknowledged(page)'
    BY <1>0, <2>1, PageMarksStay
  <2>6. QED
    BY <1>0, <2>1, <2>4, <2>5, MarksStay DEF MarkInv
<1>7. CASE \E kind \in {"claim", "refund"} : HandleDetailCall(kind)
  <2>1. PICK kind \in {"claim", "refund"} : HandleDetailCall(kind)
    BY <1>7
  <2>2. /\ UNCHANGED marks /\ IsDetail(page)
        /\ page' = [page EXCEPT !.actionLoading = TRUE]
    BY <2>1, DetailCallSends
  <2>3. PICK z \in Slots : calls' = [calls EXCEPT ![z] =
                    [kind |-> kind, from |-> "detail", here |-> TRUE,
                     wallet |-> wallet, item |-> page.itemId]]
    BY <2>1, DetailCallSends
  <2>4. page'.kind # "history"
    BY <2>2 DEF IsDetail
  <2>5. ASSUME NEW s \in Slots
        PROVE  calls'[s] \notin HistoryCalls \/ calls'[s] = calls[s]
    BY <2>3 DEF HistoryCalls, TypeInv, CallsTyped
  <2>6. \A s \in Slots : CallAcknowledged(calls[s])'
    BY <1>0, <2>5, CallMarksStay
  <2>7. QED
    BY <1>0, <2>2, <2>4, <2>6, MarksStay, PageMarksStay DEF MarkInv
<1>8. CASE \E ok \in BOOLEAN : PricesArrive(ok)
  <2>1. IsHistory(page) /\ UNCHANGED <<marks, calls>>
    BY <1>8, PageKinds DEF PricesArrive, PageOnly
  <2>2. /\ page'.bids = page.bids /\ page'.refunded = page.refunded
        /\ page'.claimed = page.claimed /\ page.kind = "history"
    BY <1>8, <2>1 DEF PricesArrive, IsHistory
  <2>3. QED
    BY <1>1, <2>1, <2>2
<1>9. CASE (\E ok \in BOOLEAN : DetailArrives(ok)) \/ BoardStep \/ MarketStep
  <2>1. page.kind # "history"
    BY <1>9 DEF DetailArrives, BoardStep, SelectBoardAsset, RowsArrive,
       BoardListArrives, MarketStep, FilterStep, HandleMainFilterChange,
       SetSubFilter, MarketListArrives, MarketProofsArrive, MarketLoopEnds
  <2>2. PageOnly /\ page'.kind = page.kind
    BY <1>9, ArrivalsTyped
  <2>3. QED
    BY <1>1, <2>1, <2>2 DEF PageOnly
<1>10. ASSUME NEW s \in Slots, Answer(s)
       PROVE  MarkInv'
  <2>0. PICK c : c = calls[s]
    OBVIOUS
  <2>1. /\ c \in HistoryCalls \cup DetailCalls
        /\ calls' = [calls EXCEPT ![s] = Free]
        /\ bid_history' = bid_history
    BY <1>10, <2>0, AnswerSettles
  <2>2. PICK ok \in BOOLEAN :
            /\ ok => [user_address |-> c.wallet, item_id |-> c.item,
                      notification_type |-> Notice(c.kind)] \in settled'
            /\ c \in HistoryCalls => HistoryContinues(c, ok)
            /\ c \in DetailCalls => DetailContinues(c, ok)
    BY <1>10, <2>0, AnswerSettles
  <2>3. c \in HistoryCalls => /\ OnRecord(c.item, c.timestamp)
                              /\ AllAcknowledged(Notice(c.kind), c.marks)
    BY <2>0 DEF MarkInv, CallAcknowledged
  <2>4. \A z \in Slots : CallAcknowledged(calls[z])'
    <3>1. \A z \in Slots : calls'[z] = calls[z] \/ calls'[z] = Free
      BY <2>1 DEF TypeInv, CallsTyped
    <3>2. QED
      BY <1>0, <3>1, FreeIsNoCall, CallMarksStay
  <2>5. \/ page' = page
        \/ IsHistory(page) /\ page'.kind = "history" /\ c \in HistoryCalls
        \/ IsDetail(page) /\ page'.kind = "detail" /\ c \in DetailCalls
    BY <1>10, <2>0, AnswerMovesItsPage
  <2>6. CASE c \in DetailCalls
    <3>1. UNCHANGED marks /\ c \notin HistoryCalls
      BY <2>2, <2>6 DEF DetailContinues, DetailCalls, HistoryCalls
    <3>2. page' = page \/ page'.kind # "history"
      BY <2>5, <3>1
    <3>3. PageAcknowledged(page)'
      BY <1>0, <3>2, PageMarksStay
    <3>4. QED
      BY <1>0, <2>4, <3>1, <3>3, MarksStay DEF MarkInv
  <2>7. CASE c \in HistoryCalls
    <3> DEFINE updated == c.marks \cup {c.timestamp}
               refunds == IF ok /\ c.kind = "refund" THEN updated ELSE refunded_bids
               claims == IF ok /\ c.kind = "claim" THEN updated ELSE claimed_bids
    <3>1. ASSUME ok, NEW t \in updated
          PROVE  Acknowledged(Notice(c.kind), t)'
      <4>1. CASE t \in c.marks
        <5>1. Acknowledged(Notice(c.kind), t)
          BY <2>3, <2>7, <4>1 DEF AllAcknowledged
        <5>2. QED
          BY <1>0, <5>1, AcknowledgedStays
      <4>2. CASE t = c.timestamp
        <5>1. PICK k \in DOMAIN bid_history :
                  bid_history[k].itemId = c.item /\ bid_history[k].timestamp = t
          BY <2>3, <2>7, <4>2 DEF OnRecord
        <5>2. QED
          BY <2>1, <2>2, <3>1, <5>1 DEF Acknowledged
      <4>3. QED
        BY <3>1, <4>1, <4>2
    <3>2. /\ refunded_bids' = refunds /\ claimed_bids' = claims
          /\ page' = IF ~ (ok /\ c.here) THEN page
                     ELSE IF c.kind = "refund" THEN [page EXCEPT !.refunded = refunds]
                     ELSE [page EXCEPT !.claimed = claims]
      BY <2>2, <2>7 DEF HistoryContinues
    <3>3. c.kind \in {"refund", "claim"}
      BY <2>7 DEF HistoryCalls
    <3>4. \A t \in refunds : Acknowledged("refund_success", t)'
      BY <1>0, <3>1, AcknowledgedStays DEF MarkInv, AllAcknowledged, Notice
    <3>5. \A t \in claims : Acknowledged("claim_success", t)'
      BY <1>0, <3>1, AcknowledgedStays DEF MarkInv, AllAcknowledged, Notice
    <3> HIDE DEF refunds, claims, updated
    <3>6. /\ AllAcknowledged("refund_success", refunded_bids)'
          /\ AllAcknowledged("claim_success", claimed_bids)'
      BY <3>2, <3>4, <3>5 DEF AllAcknowledged
    <3>7. PageAcknowledged(page)'
      <4>1. CASE page' = page
        BY <1>0, <4>1, PageMarksStay
      <4>2. CASE page' # page
        <5>1. IsHistory(page)
          BY <2>5, <2>7, <4>2 DEF HistoryCalls, DetailCalls
        <5>2. /\ page.kind = "history" /\ page'.bids = page.bids
              /\ page'.refunded = page.refunded \/ page'.refunded = refunds
              /\ page'.claimed = page.claimed \/ page'.claimed = claims
          BY <3>2, <4>2, <5>1 DEF IsHistory
        <5>3. /\ \A k \in DOMAIN page.bids :
                     OnRecord(page.bids[k].itemId, page.bids[k].timestamp)
              /\ \A t \in page.refunded : Acknowledged("refund_success", t)
              /\ \A t \in page.claimed : Acknowledged("claim_success", t)
          BY <5>2 DEF MarkInv, PageAcknowledged, AllAcknowledged
        <5>4. /\ \A t \in page'.refunded : Acknowledged("refund_success", t)'
              /\ \A t \in page'.claimed : Acknowledged("claim_success", t)'
          BY <1>0, <3>4, <3>5, <5>2, <5>3, AcknowledgedStays
        <5>5. \A k \in DOMAIN page.bids :
                  OnRecord(page.bids[k].itemId, page.bids[k].timestamp)'
          <6>1. \A k \in DOMAIN page'.bids :
                    OnRecord(page'.bids[k].itemId, page'.bids[k].timestamp)
            BY <5>2, <5>3
          <6>2. QED
            BY <2>1, <5>2, <6>1 DEF OnRecord
        <5>6. QED
          BY <5>2, <5>4, <5>5 DEF PageAcknowledged, AllAcknowledged
      <4>3. QED
        BY <4>1, <4>2
    <3>8. QED
      BY <2>4, <3>6, <3>7 DEF MarkInv
  <2>8. QED
    BY <2>1, <2>6, <2>7
<1>11. CASE Others
  BY <1>1, <1>11, OthersKeep DEF marks
<1>12. CASE UNCHANGED vars
  BY <1>1, <1>12 DEF vars
<1>13. QED
  BY <1>2, <1>3, <1>4, <1>5, <1>6, <1>7, <1>8, <1>9, <1>10, <1>11, <1>12, NextIsOneOf

(***************************************************************************)
(* A second is marked as refunded or claimed only if the backend settled   *)
(* the auction of a bid saved in that second (History.jsx:79, 96).         *)
(***************************************************************************)
THEOREM PagesMarksAcknowledged == Spec => []MarksAreAcknowledged
<1>1. Init => MarkInv
  BY FreeIsNoCall DEF Init, MarkInv, AllAcknowledged, PageAcknowledged,
     CallAcknowledged, Start
<1>2. TypeInv /\ MarkInv /\ [Next]_vars => MarkInv'
  BY MarkKept
<1>3. MarkInv => MarksAreAcknowledged
  BY DEF MarkInv, AllAcknowledged, Acknowledged, MarksAreAcknowledged
<1>4. QED
  BY <1>1, <1>2, <1>3, AlwaysTyped, PTL DEF Spec

-----------------------------------------------------------------------------
(***************************************************************************)
(* The marketplace.  The strengthening: while the loop runs, an auction is *)
(* still to be asked for, or was missed, or its bids are collected.  Only  *)
(* this tab stores bids for this browser, and only from another page.      *)
(***************************************************************************)

Collected(item, bids) ==
    \A b \in sealed : b.item = item /\ b.wallet \in Accounts => b \in bids

Covered(p) ==
    p.kind = "market" =>
        /\ p.stage = "list" => Elements(p.assets) = {}
        /\ p.stage = "proofs" =>
               \A i \in Elements(p.assets) : \/ i \in Elements(p.todo)
                                             \/ i \in p.missed
                                             \/ Collected(i, p.allCommits)
        /\ p.stage = "done" =>
               \A i \in Elements(p.assets) :
                   i \in p.missed \/ Collected(i, p.globalCommits)

MarketInv == Covered(page)

LEMMA MarketKept ==
  ASSUME TypeInv, MarketInv, [Next]_vars
  PROVE  MarketInv'
<1>1. ASSUME page'.kind # "market" PROVE MarketInv'
  BY <1>1 DEF MarketInv, Covered
<1>2. ASSUME page' = page, \A b \in sealed' : b \in sealed \/ b.wallet = Rival
      PROVE  MarketInv'
  <2>1. \A i, bids : Collected(i, bids) => Collected(i, bids)'
    BY <1>2, PageConstants DEF Collected
  <2>2. QED
    BY <1>2, <2>1 DEF MarketInv, Covered
<1>3. CASE OpenStep
  <2>1. page' = MarketPage \/ page'.kind # "market"
    BY <1>3, OpenStepOpens DEF IsForm, HistoryPage, DetailPage, BoardPage
  <2>2. ASSUME page' = MarketPage PROVE MarketInv'
    <3>1. page'.stage = "list" /\ page'.assets = <<>>
      BY <2>2 DEF MarketPage
    <3>2. Elements(<<>>) = {}
      BY DEF Elements
    <3>3. QED
      BY <3>1, <3>2 DEF MarketInv, Covered, Elements
  <2>3. QED
    BY <1>1, <2>1, <2>2
<1>4. CASE \E a \in Accounts : LogIn(a)
  BY <1>1, <1>4 DEF LogIn, Start
<1>5. CASE FormStep \/ DownloadKeyFile
  BY <1>1, <1>5, FormStepKeeps, DownloadTyped DEF IsForm
<1>6. CASE \E ts \in Seconds : HandleFinalSubmit(ts)
  BY <1>1, <1>6, SubmitTyped DEF HistoryPage
<1>7. CASE SendStep
  BY <1>2, <1>7, SendStepSends DEF book
<1>8. CASE \E kind \in {"claim", "refund"} : HandleDetailCall(kind)
  <2>1. page'.kind = "detail"
    BY <1>8, DetailCallSends DEF IsDetail
  <2>2. QED
    BY <1>1, <2>1
<1>9. CASE \/ \E ok \in BOOLEAN : PricesArrive(ok)
           \/ \E ok \in BOOLEAN : DetailArrives(ok)
           \/ BoardStep
  <2>1. page.kind # "market"
    BY <1>9 DEF PricesArrive, DetailArrives, BoardStep, SelectBoardAsset,
                RowsArrive, BoardListArrives
  <2>2. page'.kind = page.kind
    BY <1>9, ArrivalsTyped
  <2>3. QED
    BY <1>1, <2>1, <2>2
<1>10. CASE MarketStep
  <2>1. page.kind = "market" /\ PageOnly
    BY <1>10 DEF MarketStep, FilterStep, HandleMainFilterChange, SetSubFilter,
                 MarketListArrives, MarketProofsArrive, MarketLoopEnds
  <2>2. IsMarket(page) /\ UNCHANGED sealed
    BY <2>1, PageKinds DEF PageOnly, book
  <2>3. \A i, bids : Collected(i, bids)' <=> Collected(i, bids)
    BY <2>2 DEF Collected
  <2>4. CASE FilterStep
    <3>1. /\ page'.stage = page.stage /\ page'.assets = page.assets
          /\ page'.todo = page.todo /\ page'.missed = page.missed
          /\ page'.allCommits = page.allCommits
          /\ page'.globalCommits = page.globalCommits
      BY <2>2, <2>4 DEF FilterStep, HandleMainFilterChange, SetSubFilter, IsMarket
    <3>2. QED
      BY <2>1, <2>3, <3>1 DEF MarketInv, Covered
  <2>5. CASE \E ok \in BOOLEAN : MarketListArrives(ok)
    <3>1. PICK ok \in BOOLEAN : MarketListArrives(ok)
      BY <2>5
    <3>2. CASE ok
      <4>1. /\ page'.stage = "proofs" /\ page'.assets = Listed
            /\ page'.todo = Listed
        BY <2>2, <3>1, <3>2 DEF MarketListArrives, IsMarket
      <4>2. QED
        BY <4>1 DEF MarketInv, Covered
    <3>3. CASE ~ ok
      <4>1. page'.stage = "done" /\ page'.assets = page.assets /\ page.stage = "list"
        BY <2>2, <3>1, <3>3 DEF MarketListArrives, IsMarket
      <4>2. Elements(page'.assets) = {}
        BY <2>1, <4>1 DEF MarketInv, Covered
      <4>3. QED
        BY <4>1, <4>2 DEF MarketInv, Covered
    <3>4. QED
      BY <3>2, <3>3
  <2>6. CASE \E ok \in BOOLEAN : MarketProofsArrive(ok)
    <3>1. PICK ok \in BOOLEAN : MarketProofsArrive(ok)
      BY <2>6
    <3> DEFINE item == Head(page.todo)
    <3>2. /\ page.todo \in Seq(Items) /\ page.todo # <<>> /\ page.stage = "proofs"
      BY <2>2, <3>1 DEF MarketProofsArrive, IsMarket
    <3>3. Elements(page.todo) = Elements(Tail(page.todo)) \cup {item}
      BY <3>2, ElementsOfTail
    <3>4. /\ page'.stage = "proofs" /\ page'.assets = page.assets
          /\ page'.todo = Tail(page.todo)
          /\ \/ /\ page'.missed = page.missed
                /\ page'.allCommits = page.allCommits \cup ProofsFor(item)
             \/ /\ page'.missed = page.missed \cup {item}
                /\ page'.allCommits = page.allCommits
      BY <2>2, <3>1, <3>2 DEF MarketProofsArrive, IsMarket
    <3> HIDE DEF item
    <3>5. \A i \in Elements(page.assets) : \/ i \in Elements(page.todo)
                                           \/ i \in page.missed
                                           \/ Collected(i, page.allCommits)
      BY <2>1, <3>2 DEF MarketInv, Covered
    <3>6. ASSUME NEW i \in Elements(page.assets)
          PROVE  \/ i \in Elements(page'.todo)
                 \/ i \in page'.missed
                 \/ Collected(i, page'.allCommits)
      <4>1. CASE i = item /\ page'.allCommits = page.allCommits \cup ProofsFor(item)
        BY <4>1 DEF Collected, ProofsFor
      <4>2. CASE i = item /\ page'.missed = page.missed \cup {item}
        BY <4>2
      <4>3. CASE i # item /\ i \in Elements(page.todo)
        BY <3>3, <3>4, <4>3
      <4>4. CASE i \in page.missed
        BY <3>4, <4>4
      <4>5. CASE Collected(i, page.allCommits)
        BY <3>4, <4>5 DEF Collected
      <4>6. QED
        BY <3>4, <3>5, <4>1, <4>2, <4>3, <4>4, <4>5
    <3>7. ASSUME NEW i \in Elements(page'.assets)
          PROVE  \/ i \in Elements(page'.todo)
                 \/ i \in page'.missed
                 \/ Collected(i, page.allCommits)'
      <4>1. i \in Elements(page.assets)
        BY <3>4
      <4>2. Collected(i, page.allCommits)' <=> Collected(i, page'.allCommits)
        BY <2>2 DEF Collected
      <4>3. QED
        BY <3>6, <4>1, <4>2
    <3>8. QED
      BY <3>4, <3>7 DEF MarketInv, Covered
  <2>7. CASE MarketLoopEnds
    <3>1. /\ page.stage = "proofs" /\ page.todo = <<>>
          /\ page'.stage = "done" /\ page'.assets = page.assets
          /\ page'.missed = page.missed /\ page'.globalCommits = page.allCommits
      BY <2>2, <2>7 DEF MarketLoopEnds, IsMarket
    <3>2. \A i \in Elements(page.assets) :
              i \in page.missed \/ Collected(i, page.allCommits)
      BY <2>1, <3>1 DEF MarketInv, Covered, Elements
    <3>3. \A i \in Elements(page'.assets) :
              i \in page'.missed \/ Collected(i, page.globalCommits)'
      BY <2>2, <3>1, <3>2 DEF Collected
    <3>4. QED
      BY <3>1, <3>3 DEF MarketInv, Covered
  <2>8. QED
    BY <1>10, <2>4, <2>5, <2>6, <2>7 DEF MarketStep
<1>11. CASE \E s \in Slots : Answer(s)
  <2>1. PICK s \in Slots : Answer(s)
    BY <1>11
  <2>2. UNCHANGED sealed /\ (page' = page \/ page'.kind \in {"history", "detail"})
    BY <2>1, AnswerSettles, AnswerMovesItsPage
  <2>3. QED
    BY <1>1, <1>2, <2>2
<1>12. CASE Others
  BY <1>2, <1>12, OthersKeep
<1>13. CASE UNCHANGED vars
  BY <1>2, <1>13 DEF vars, book
<1>14. QED
  BY <1>3, <1>4, <1>5, <1>6, <1>7, <1>8, <1>9, <1>10, <1>11, <1>12, <1>13, NextIsOneOf

(***************************************************************************)
(* Once the marketplace has loaded, one failed call hides the bids of one  *)
(* auction only (Marketplace.jsx:133).                                     *)
(***************************************************************************)
THEOREM PagesOneFailure == Spec => []OneFailureHidesOneAuction
<1>1. Init => MarketInv
  BY DEF Init, MarketInv, Covered, Start
<1>2. TypeInv /\ MarketInv /\ [Next]_vars => MarketInv'
  BY MarketKept
<1>3. MarketInv => OneFailureHidesOneAuction
  BY DEF MarketInv, Covered, Collected, OneFailureHidesOneAuction, ProofsFor
<1>4. QED
  BY <1>1, <1>2, <1>3, AlwaysTyped, PTL DEF Spec

-----------------------------------------------------------------------------
(***************************************************************************)
(* The leaderboard.                                                        *)
(***************************************************************************)

\* A set of positions has a least one: of the intervals up to them, the one
\* that contains no other.
LEMMA MinIsMember ==
  ASSUME NEW I \in SUBSET Nat, I # {}
  PROVE  Min(I) \in I
<1> DEFINE T == {1 .. k : k \in I}
<1>1. T \subseteq FiniteSubsetsOf(Nat) /\ T # {}
  <2>1. ASSUME NEW k \in I PROVE 1 .. k \in FiniteSubsetsOf(Nat)
    <3>1. IsFiniteSet(1 .. k)
      BY FS_Interval
    <3>2. 1 .. k \in SUBSET Nat
      OBVIOUS
    <3>3. QED
      BY <3>1, <3>2 DEF FiniteSubsetsOf
  <2>2. QED
    BY <2>1
<1>2. IsWellFoundedOn(StrictSubsetOrdering(Nat), FiniteSubsetsOf(Nat))
  BY FS_StrictSubsetOrderingWellFounded
<1> HIDE DEF T
<1>3. PICK t \in T : \A u \in T : <<u, t>> \notin StrictSubsetOrdering(Nat)
  BY <1>1, <1>2, WFMin
<1> USE DEF T
<1>4. PICK k \in I : t = 1 .. k
  BY <1>3
<1>5. ASSUME NEW j \in I, j < k
      PROVE  FALSE
  <2>1. 1 .. j \in T /\ 1 .. j \subseteq t /\ t \subseteq Nat
    BY <1>4, <1>5
  <2>2. k \in t /\ k \notin 1 .. j
    BY <1>4, <1>5
  <2>3. QED
    BY <1>3, <2>1, <2>2 DEF StrictSubsetOrdering
<1>6. \A j \in I : k <= j
  BY <1>5
<1>7. QED
  BY <1>6 DEF Min

\* What bids.find finds is a saved bid on the auction it is asked for.
LEMMA FoundIsSaved ==
  ASSUME TypeInv, NEW item, FoundHash(item) # None
  PROVE  \E k \in DOMAIN bid_history :
             /\ bid_history[k].itemId = item
             /\ bid_history[k].hash = FoundHash(item)
<1>1. SavedFor(item) # {}
  BY DEF FoundHash
<1>2. SavedFor(item) \in SUBSET Nat
  <2>1. bid_history \in Seq(Bid)
    BY DEF TypeInv
  <2>2. DOMAIN bid_history \subseteq Nat
    BY <2>1
  <2>3. QED
    BY <2>2 DEF SavedFor
<1>3. Min(SavedFor(item)) \in SavedFor(item)
  BY <1>1, <1>2, MinIsMember
<1>4. QED
  BY <1>1, <1>3 DEF FoundHash, SavedFor

\* The rows a page shows are right for one wallet and one list of saved bids.
AmountsOf(rows) ==
    \A row \in rows :
        row.shown # None =>
            /\ row.proof.wallet = wallet
            /\ \E k \in DOMAIN bid_history :
                   /\ bid_history[k].itemId = row.proof.item
                   /\ bid_history[k].hash = row.shown

LEMMA RowsAreRight ==
  ASSUME TypeInv, NEW item
  PROVE  AmountsOf(Rows(item))
<1> SUFFICES ASSUME NEW b \in ProofsFor(item),
                    b.wallet = wallet, FoundHash(item) # None
             PROVE  \E k \in DOMAIN bid_history :
                        /\ bid_history[k].itemId = b.item
                        /\ bid_history[k].hash = FoundHash(item)
  BY DEF AmountsOf, Rows
<1>1. b.item = item
  BY DEF ProofsFor
<1>2. QED
  BY <1>1, FoundIsSaved

LEMMA AmountsKept ==
  ASSUME TypeInv, AmountsAreOfTheRowsAuction, [Next]_vars
  PROVE  AmountsAreOfTheRowsAuction'
<1>1. ASSUME page'.kind # "board" PROVE AmountsAreOfTheRowsAuction'
  BY <1>1 DEF AmountsAreOfTheRowsAuction
<1>2. ASSUME UNCHANGED <<page, wallet, bid_history>>
      PROVE  AmountsAreOfTheRowsAuction'
  BY <1>2 DEF AmountsAreOfTheRowsAuction
<1>3. CASE OpenStep
  <2>1. page' = BoardPage \/ page'.kind # "board"
    BY <1>3, OpenStepOpens DEF IsForm, HistoryPage, DetailPage, MarketPage
  <2>2. ASSUME page' = BoardPage PROVE AmountsAreOfTheRowsAuction'
    BY <2>2 DEF BoardPage, AmountsAreOfTheRowsAuction
  <2>3. QED
    BY <1>1, <2>1, <2>2
<1>4. CASE \E a \in Accounts : LogIn(a)
  BY <1>1, <1>4 DEF LogIn, Start
<1>5. CASE FormStep \/ DownloadKeyFile
  BY <1>1, <1>5, FormStepKeeps, DownloadTyped DEF IsForm
<1>6. CASE \E ts \in Seconds : HandleFinalSubmit(ts)
  BY <1>1, <1>6, SubmitTyped DEF HistoryPage
<1>7. CASE SendStep
  BY <1>2, <1>7, SendStepSends
<1>8. CASE \E kind \in {"claim", "refund"} : HandleDetailCall(kind)
  <2>1. page'.kind = "detail"
    BY <1>8, DetailCallSends DEF IsDetail
  <2>2. QED
    BY <1>1, <2>1
<1>9. CASE \/ \E ok \in BOOLEAN : PricesArrive(ok)
           \/ \E ok \in BOOLEAN : DetailArrives(ok)
           \/ MarketStep
  <2>1. page.kind # "board"
    BY <1>9 DEF PricesArrive, DetailArrives, MarketStep, FilterStep,
       HandleMainFilterChange, SetSubFilter, MarketListArrives,
       MarketProofsArrive, MarketLoopEnds
  <2>2. page'.kind = page.kind
    BY <1>9, ArrivalsTyped
  <2>3. QED
    BY <1>1, <2>1, <2>2
<1>10. CASE BoardStep
  <2>1. page.kind = "board" /\ UNCHANGED <<wallet, bid_history>>
    BY <1>10 DEF BoardStep, SelectBoardAsset, RowsArrive, BoardListArrives, PageOnly
  <2>2. IsBoard(page)
    BY <2>1, PageKinds
  <2>3. AmountsOf(page.participants)
    BY <2>1 DEF AmountsAreOfTheRowsAuction, AmountsOf
  <2>4. ASSUME AmountsOf(page'.participants) PROVE AmountsAreOfTheRowsAuction'
    BY <2>1, <2>4 DEF AmountsAreOfTheRowsAuction, AmountsOf
  <2>5. ASSUME NEW i \in Items, SelectBoardAsset(i)
        PROVE  page'.participants = page.participants
    BY <2>2, <2>5 DEF SelectBoardAsset, WithSelected, IsBoard
  <2>6. ASSUME NEW ok \in BOOLEAN, BoardListArrives(ok)
        PROVE  page'.participants = page.participants
    BY <2>2, <2>6 DEF BoardListArrives, WithSelected, IsBoard
  <2>7. ASSUME NEW i \in Items, NEW ok \in BOOLEAN, RowsArrive(i, ok)
        PROVE  page'.participants \in {Rows(i), {}}
    BY <2>2, <2>7 DEF RowsArrive, IsBoard
  <2>8. AmountsOf({}) /\ \A i \in Items : AmountsOf(Rows(i))
    <3>1. AmountsOf({})
      BY DEF AmountsOf
    <3>2. QED
      BY <3>1, RowsAreRight
  <2>9. AmountsOf(page'.participants)
    BY <1>10, <2>3, <2>5, <2>6, <2>7, <2>8 DEF BoardStep
  <2>10. QED
    BY <2>4, <2>9
<1>11. CASE \E s \in Slots : Answer(s)
  <2>1. PICK s \in Slots : Answer(s)
    BY <1>11
  <2>2. /\ UNCHANGED <<wallet, bid_history>>
        /\ page' = page \/ page'.kind \in {"history", "detail"}
    BY <2>1, AnswerMovesItsPage DEF Answer
  <2>3. QED
    BY <1>1, <1>2, <2>2
<1>12. CASE Others
  BY <1>2, <1>12, OthersKeep
<1>13. CASE UNCHANGED vars
  BY <1>2, <1>13 DEF vars
<1>14. QED
  BY <1>3, <1>4, <1>5, <1>6, <1>7, <1>8, <1>9, <1>10, <1>11, <1>12, <1>13, NextIsOneOf

(***************************************************************************)
(* An amount on the leaderboard was saved by this browser for the auction  *)
(* of its row, whichever selection is answered last (Leaderboard.jsx:98).  *)
(***************************************************************************)
THEOREM PagesAmounts == Spec => []AmountsAreOfTheRowsAuction
<1>1. Init => AmountsAreOfTheRowsAuction
  BY DEF Init, AmountsAreOfTheRowsAuction, Start
<1>2. TypeInv /\ AmountsAreOfTheRowsAuction /\ [Next]_vars
        => AmountsAreOfTheRowsAuction'
  BY AmountsKept
<1>3. QED
  BY <1>1, <1>2, AlwaysTyped, PTL DEF Spec

-----------------------------------------------------------------------------
(***************************************************************************)
(* The auction's page.                                                     *)
(***************************************************************************)

LEMMA WaitsKept ==
  ASSUME TypeInv, WaitsOnlyForAnswers, [Next]_vars
  PROVE  WaitsOnlyForAnswers'
<1>1. ASSUME page'.kind # "detail" PROVE WaitsOnlyForAnswers'
  BY <1>1 DEF WaitsOnlyForAnswers
<1>2. ASSUME UNCHANGED <<page, calls>> PROVE WaitsOnlyForAnswers'
  BY <1>2 DEF WaitsOnlyForAnswers
<1>3. CASE OpenStep
  <2>1. (\E i \in Items : page' = DetailPage(i)) \/ page'.kind # "detail"
    BY <1>3, OpenStepOpens DEF IsForm, HistoryPage, MarketPage, BoardPage
  <2>2. ASSUME NEW i \in Items, page' = DetailPage(i) PROVE WaitsOnlyForAnswers'
    BY <2>2 DEF DetailPage, WaitsOnlyForAnswers
  <2>3. QED
    BY <1>1, <2>1, <2>2
<1>4. CASE \E a \in Accounts : LogIn(a)
  BY <1>1, <1>4 DEF LogIn, Start
<1>5. CASE FormStep \/ DownloadKeyFile
  BY <1>1, <1>5, FormStepKeeps, DownloadTyped DEF IsForm
<1>6. CASE \E ts \in Seconds : HandleFinalSubmit(ts)
  BY <1>1, <1>6, SubmitTyped DEF HistoryPage
<1>7. CASE SendStep
  BY <1>1, <1>7, SendStepSends DEF SendStep
<1>8. CASE \E kind \in {"claim", "refund"} : HandleDetailCall(kind)
  <2>1. PICK kind \in {"claim", "refund"} : HandleDetailCall(kind)
    BY <1>8
  <2>2. /\ IsDetail(page) /\ ~ page.loading
        /\ page' = [page EXCEPT !.actionLoading = TRUE]
    BY <2>1, DetailCallSends
  <2> DEFINE call == [kind |-> kind, from |-> "detail", here |-> TRUE,
                      wallet |-> wallet, item |-> page.itemId]
  <2>3. PICK s \in Slots : calls' = [calls EXCEPT ![s] = call]
    BY <2>1, DetailCallSends
  <2>4. calls'[s] = call
    BY <2>3 DEF TypeInv, CallsTyped
  <2>5. page'.itemId = page.itemId /\ ~ page'.loading
    BY <2>2 DEF IsDetail
  <2>6. call # Free /\ call.from = "detail" /\ call.here /\ call.item = page'.itemId
    BY <2>5 DEF Free
  <2> HIDE DEF call
  <2>7. QED
    BY <2>4, <2>5, <2>6 DEF WaitsOnlyForAnswers
<1>9. CASE \E ok \in BOOLEAN : DetailArrives(ok)
  <2>1. IsDetail(page) /\ page.kind = "detail" /\ UNCHANGED calls
    BY <1>9, PageKinds DEF DetailArrives, PageOnly
  <2>2. /\ ~ page'.loading /\ page'.itemId = page.itemId
        /\ page'.actionLoading = page.actionLoading
    BY <1>9, <2>1 DEF DetailArrives, IsDetail
  <2>3. QED
    BY <2>1, <2>2 DEF WaitsOnlyForAnswers
<1>10. CASE (\E ok \in BOOLEAN : PricesArrive(ok)) \/ BoardStep \/ MarketStep
  <2>1. page.kind # "detail"
    BY <1>10 DEF PricesArrive, BoardStep, SelectBoardAsset, RowsArrive,
       BoardListArrives, MarketStep, FilterStep, HandleMainFilterChange,
       SetSubFilter, MarketListArrives, MarketProofsArrive, MarketLoopEnds
  <2>2. page'.kind = page.kind
    BY <1>10, ArrivalsTyped
  <2>3. QED
    BY <1>1, <2>1, <2>2
<1>11. ASSUME NEW s \in Slots, Answer(s)
       PROVE  WaitsOnlyForAnswers'
  <2> DEFINE c == calls[s]
  <2>1. /\ c \in HistoryCalls \cup DetailCalls
        /\ calls' = [calls EXCEPT ![s] = Free]
    BY <1>11, AnswerSettles
  <2>2. \/ page' = page
        \/ page'.kind = "history"
        \/ IsDetail(page) /\ c \in DetailCalls /\ c.here
    BY <1>11, AnswerMovesItsPage
  <2>3. PICK ok \in BOOLEAN : c \in DetailCalls => DetailContinues(c, ok)
    BY <1>11, AnswerSettles
  <2>4. ASSUME page' = page, page.kind = "detail", ~ (c \in DetailCalls /\ c.here)
        PROVE  WaitsOnlyForAnswers'
    <3>1. ~ (c.from = "detail" /\ c.here)
      BY <2>1, <2>4 DEF HistoryCalls, DetailCalls
    <3>2. page.actionLoading =>
              \E z \in Slots : /\ calls[z] # Free
                               /\ calls[z].from = "detail" /\ calls[z].here
                               /\ calls[z].item = page.itemId
                               /\ calls'[z] = calls[z]
      BY <2>1, <2>4, <3>1 DEF WaitsOnlyForAnswers, TypeInv, CallsTyped
    <3>3. page.loading => page.asked
      BY <2>4 DEF WaitsOnlyForAnswers
    <3>4. QED
      BY <2>4, <3>2, <3>3 DEF WaitsOnlyForAnswers
  <2>5. ASSUME c \in DetailCalls, c.here
        PROVE  WaitsOnlyForAnswers'
    <3>1. page.kind = "detail"
      BY <2>5 DEF TypeInv, CallsTyped
    <3>2. IsDetail(page)
      BY <3>1, PageKinds
    <3>3. page' = [page EXCEPT !.actionLoading = FALSE,
                               !.loading = @ \/ ok, !.asked = @ \/ ok]
      BY <2>3, <2>5 DEF DetailContinues
    <3>4. /\ ~ page'.actionLoading
          /\ page'.loading = (page.loading \/ ok)
          /\ page'.asked = (page.asked \/ ok)
      BY <3>2, <3>3 DEF IsDetail
    <3>5. page.loading => page.asked
      BY <3>1 DEF WaitsOnlyForAnswers
    <3>6. QED
      BY <3>4, <3>5 DEF WaitsOnlyForAnswers
  <2>6. QED
    BY <1>1, <2>2, <2>4, <2>5
<1>12. CASE Others
  BY <1>2, <1>12, OthersKeep
<1>13. CASE UNCHANGED vars
  BY <1>2, <1>13 DEF vars
<1>14. QED
  BY <1>3, <1>4, <1>5, <1>6, <1>7, <1>8, <1>9, <1>10, <1>11, <1>12, <1>13, NextIsOneOf

(***************************************************************************)
(* The spinner and the disabled buttons of an auction's page are there     *)
(* only while a call is under way that takes them away again               *)
(* (AuctionDetail.jsx:63, 83, 102).                                        *)
(***************************************************************************)
THEOREM PagesWaitForAnswers == Spec => []WaitsOnlyForAnswers
<1>1. Init => WaitsOnlyForAnswers
  BY DEF Init, WaitsOnlyForAnswers, Start
<1>2. TypeInv /\ WaitsOnlyForAnswers /\ [Next]_vars => WaitsOnlyForAnswers'
  BY WaitsKept
<1>3. QED
  BY <1>1, <1>2, AlwaysTyped, PTL DEF Spec

-----------------------------------------------------------------------------
(***************************************************************************)
(* The pages and the backend.                                              *)
(***************************************************************************)

SealedTyped == \A b \in sealed : b.hash \in Book!Commitment

LEMMA SealedInit ==
  ASSUME Init
  PROVE  SealedTyped
<1>1. TypeInv
  BY InitTyped
<1>2. ASSUME NEW b \in Elements(bid_history)
      PROVE  b.hash \in Book!Commitment
  <2>1. PICK k \in DOMAIN bid_history : b = bid_history[k]
    BY <1>2 DEF Elements
  <2>2. b \in Bid
    BY <1>1, <2>1, ListElements DEF TypeInv
  <2>3. QED
    BY <2>2 DEF Bid
<1>3. PICK h \in RivalBids : sealed =
          {[item |-> b.itemId, wallet |-> wallet, hash |-> b.hash] :
              b \in Elements(bid_history)}
          \cup {[item |-> i, wallet |-> Rival, hash |-> h] :
                  i \in DOMAIN auctions}
  BY DEF Init
<1>4. h \in Book!Commitment
  BY PageRecords
<1>5. QED
  BY <1>2, <1>3, <1>4 DEF SealedTyped

LEMMA StepIsOfTheBook ==
  ASSUME TypeInv, SealedTyped, [Next]_vars
  PROVE  [Book!Next]_<<auctions, sealed, answers, settled>>
<1>1. wallet \in Wallets /\ Rival \in Wallets
  BY DEF TypeInv, Wallets
<1>2. CASE OpenStep
  BY <1>2, OpenStepOpens DEF book
<1>3. CASE (\E a \in Accounts : LogIn(a)) \/ DownloadKeyFile
  BY <1>3 DEF LogIn, DownloadKeyFile, book
<1>4. CASE FormStep
  BY <1>4, FormStepKeeps DEF PageOnly, book
<1>5. CASE \E ts \in Seconds : HandleFinalSubmit(ts)
  <2>1. PICK ts \in Seconds : HandleFinalSubmit(ts)
    BY <1>5
  <2>2. /\ \/ Book!Seal(wallet, page.selectedAsset, ComputedHash)
           \/ UNCHANGED book
        /\ IsForm(page) /\ page.downloaded
    BY <2>1, PageKinds DEF HandleFinalSubmit
  <2>3. page.selectedAsset \in Items /\ ComputedHash \in Book!Commitment
    BY <2>2, FormKeyFile DEF IsForm
  <2>4. QED
    BY <1>1, <2>2, <2>3 DEF Book!Next, book
<1>6. CASE SendStep
  BY <1>6, SendStepSends DEF book
<1>7. CASE \E kind \in {"claim", "refund"} : HandleDetailCall(kind)
  BY <1>7, DetailCallSends DEF book
<1>8. CASE \/ \E ok \in BOOLEAN : PricesArrive(ok) \/ DetailArrives(ok)
           \/ BoardStep \/ MarketStep
  BY <1>8, ArrivalsTyped DEF PageOnly, book
<1>9. CASE \E s \in Slots : Answer(s)
  <2>1. PICK s \in Slots : Answer(s)
    BY <1>9
  <2> DEFINE c == calls[s]
  <2>2. c \in HistoryCalls \cup DetailCalls
    BY <2>1, AnswerSettles
  <2>3. c.wallet \in Wallets /\ c.item \in Items
    BY <2>2 DEF HistoryCalls, DetailCalls, Wallets
  <2>4. \/ Book!Claim(c.wallet, c.item)
        \/ Book!Refund(c.wallet, c.item)
        \/ UNCHANGED book
    BY <2>1 DEF Answer, Accepted
  <2>5. QED
    BY <2>3, <2>4 DEF Book!Next, book
<1>10. CASE Others
  <2>1. PICK i \in Items :
            \/ \E p \in Prices : Book!Create(Rival, i, p)
            \/ \E h \in Book!Commitment : Book!Seal(Rival, i, h)
            \/ \E b \in sealed : Book!Reveal(Rival, i, b.hash)
            \/ Book!SetStatus(Rival, i, "ended")
    BY <1>10 DEF Others, RivalCreates, RivalSeals, RivalReveals, SellerEnds,
                 ProofsFor
  <2>2. QED
    BY <1>1, <2>1 DEF SealedTyped, Book!Next
<1>11. CASE UNCHANGED vars
  BY <1>11 DEF vars, book
<1>12. QED
  BY <1>2, <1>3, <1>4, <1>5, <1>6, <1>7, <1>8, <1>9, <1>10, <1>11, NextIsOneOf

LEMMA SealedKept ==
  ASSUME SealedTyped, [Book!Next]_<<auctions, sealed, answers, settled>>
  PROVE  SealedTyped'
<1>1. CASE UNCHANGED sealed
  BY <1>1 DEF SealedTyped
<1>2. ASSUME NEW w \in Wallets, NEW i \in Items, NEW h \in Book!Commitment,
             Book!Seal(w, i, h)
      PROVE  SealedTyped'
  BY <1>2 DEF Book!Seal, SealedTyped
<1>3. QED
  BY <1>1, <1>2 DEF Book!Next, Book!Create, Book!SetStatus, Book!Reveal,
                    Book!Claim, Book!Refund

\* Whatever the pages and the others do, together they do to the backend
\* only what its endpoints allow, as wallets it knows, on auctions it has and
\* with commitments the form can make (SubmitBid.jsx:202, History.jsx:71):
\* what holds of every step of AuctionBook holds here.
THEOREM PagesKeepToTheBook ==
    Spec => [][Book!Next]_<<auctions, sealed, answers, settled>>
<1>1. TypeInv /\ SealedTyped /\ [Next]_vars =>
          /\ [Book!Next]_<<auctions, sealed, answers, settled>>
          /\ SealedTyped'
  BY StepIsOfTheBook, SealedKept
<1>2. Init => SealedTyped
  BY SealedInit
<1>3. QED
  BY <1>1, <1>2, AlwaysTyped, PTL DEF Spec
=============================================================================
