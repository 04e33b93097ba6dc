------------------------- MODULE AuctionBookProofs --------------------------
(***************************************************************************)
(* AuctionBackend under SQLite: the price of an auction is its best        *)
(* reveal, and the handlers implement AuctionBook.                         *)
(***************************************************************************)
EXTENDS AuctionBackendProofs

-----------------------------------------------------------------------------
(***************************************************************************)
(* The price of an auction under SQLite.  revealBid compares with the row  *)
(* it read and writes in a later transaction; nothing in the handler makes *)
(* that safe.  What does is the synchronous driver: the awaits of one      *)
(* request resolve before the next request begins.  The theorem names that *)
(* assumption, and the run backend_lost_bid shows what happens without it. *)
(***************************************************************************)

Busy(r) == requests[r] # Idle

\* Handlers and the startup code run one at a time, and the cleanup ends
\* before its first DELETE.
OneAtATime ==
    /\ \A r, k \in Requests : Busy(r) /\ Busy(k) => r = k
    /\ cleanup \in {"schema", "done"}
    /\ cleanup # "done" => \A r \in Requests : ~ Busy(r)

\* The item of a createAuction in progress has no auction yet.
NewItems ==
    \A r \in Requests :
        requests[r].at \in AtCreate => requests[r].item \notin DOMAIN auctions

\* Auctions with acknowledged reveals are there.
OffersOnAuctions ==
    \A a \in answers : a.kind = "revealed" => a.item \in DOMAIN auctions

\* A reveal about to write raises the price, as the row is now.
WritesRaise ==
    \A r \in Requests :
        requests[r].at = "reveal:write" =>
            /\ requests[r].item \in DOMAIN auctions
            /\ Rounded(requests[r].hash.amount)
                   > Price(auctions[requests[r].item])

PriceInv ==
    /\ TypeInv
    /\ OneAtATime
    /\ NewItems
    /\ OffersOnAuctions
    /\ WritesRaise
    /\ PriceIsBestReveal

-----------------------------------------------------------------------------
(***************************************************************************)
(* One at a time.                                                          *)
(***************************************************************************)

LEMMA ProgressBusy ==
  ASSUME NEW r \in Requests, Progress(r)
  PROVE  Busy(r)
<1>1. requests[r].at # "idle"
  <2>1. CASE Selects(r)
    BY <2>1 DEF Selects, StatusSelects, StoreSelects, RevealFindsProof,
                VerifySelects, ClaimSelects, RefundSelects
  <2>2. CASE EnsuresUser(r) \/ WritesAuction(r) \/ WritesProof(r)
    BY <2>2 DEF EnsuresUser, EnsureUser, WritesAuction, CreateInserts,
                StatusUpdates, RevealWritesHighest, WritesProof,
                StoreInserts, RevealMarksProof, VerifyUpdates
  <2>3. CASE Notifies(r) \/ NotifyFails(r) \/ RevealReadsAuction(r)
    BY <2>3 DEF Notifies, InsertNotification, NotifyFails, RevealReadsAuction
  <2>4. QED
    BY <2>1, <2>2, <2>3, ProgressCases
<1>2. QED
  BY <1>1 DEF Busy, Idle

LEMMA ArrivalBegins ==
  ASSUME NEW r \in Requests, Arrival(r)
  PROVE  MayBegin
BY DEF Arrival, CreateAuction, UpdateAuctionStatus, StoreProof, RevealBid,
       VerifyZKPProof, ClaimAuctionAsset, RefundCollateral,
       CreateNotification, Begin

\* What a step under SQLite can be.
LEMMA SqliteSteps ==
  ASSUME DbType = "sqlite", OneAtATime, [Next]_vars
  PROVE  \/ \E k \in Requests :
                /\ Arrival(k)
                /\ UNCHANGED <<tables, answers, cleanup>>
                /\ cleanup = "done"
                /\ \A r \in Requests : ~ Busy(r)
         \/ \E k \in Requests :
                /\ Progress(k)
                /\ UNCHANGED cleanup
                /\ cleanup = "done"
                /\ \A r \in Requests : Busy(r) => r = k
         \/ UNCHANGED <<tables, answers, requests>> /\ cleanup' = "done"
         \/ Restart
         \/ UNCHANGED vars
<1>1. ASSUME NEW k \in Requests, Arrival(k)
      PROVE  /\ UNCHANGED <<tables, answers, cleanup>>
             /\ cleanup = "done"
             /\ \A r \in Requests : ~ Busy(r)
  BY <1>1, ArrivalFrame, ArrivalBegins DEF MayBegin, Busy
<1>2. ASSUME NEW k \in Requests, Progress(k)
      PROVE  /\ UNCHANGED cleanup
             /\ cleanup = "done"
             /\ \A r \in Requests : Busy(r) => r = k
  <2>1. UNCHANGED cleanup
    BY <1>2, ProgressCases, SelectsFrame, EnsuresUserFrame, WritesAuctionFrame,
       WritesProofFrame, NotifiesFrame DEF NotifyFails, RevealReadsAuction
  <2>2. QED
    BY <1>2, <2>1, ProgressBusy DEF OneAtATime
<1>3. ASSUME Cleanup
      PROVE  UNCHANGED <<tables, answers, requests>> /\ cleanup' = "done"
  BY <1>3 DEF OneAtATime, Cleanup, MigrateSchema, CleanProofs,
              CleanNotifications, CleanAuctions
<1>4. QED
  BY <1>1, <1>2, <1>3 DEF Next

LEMMA OneAtATimeKept ==
  ASSUME DbType = "sqlite", TypeOK, OneAtATime, [Next]_vars
  PROVE  OneAtATime'
<1>1. ASSUME NEW k \in Requests, Arrival(k) \/ Progress(k),
             UNCHANGED cleanup, cleanup = "done",
             \A r \in Requests : Busy(r) => r = k
      PROVE  OneAtATime'
  <2>1. \A r \in Requests : r # k => requests'[r] = requests[r]
    BY <1>1, OthersWait
  <2>2. \A r \in Requests : r # k => requests'[r] = Idle
    BY <1>1, <2>1 DEF Busy
  <2>3. QED
    BY <1>1, <2>2 DEF OneAtATime, Busy
<1>2. CASE UNCHANGED <<tables, answers, requests>> /\ cleanup' = "done"
  BY <1>2 DEF OneAtATime, Busy
<1>3. CASE Restart
  <2>1. cleanup' = "schema" /\ \A r \in Requests : requests'[r] = Idle
    BY <1>3 DEF Restart
  <2>2. QED
    BY <2>1 DEF OneAtATime, Busy
<1>4. CASE UNCHANGED vars
  BY <1>4 DEF vars, process, OneAtATime, Busy
<1>5. QED
  BY <1>1, <1>2, <1>3, <1>4, SqliteSteps

\* A request that waits keeps the auctions and the answers as they are.
LEMMA NobodyElse ==
  ASSUME DbType = "sqlite", OneAtATime, [Next]_vars,
         NEW r \in Requests, Busy(r)
  PROVE  Progress(r) \/ UNCHANGED <<tables, answers>>
BY SqliteSteps DEF Restart, vars, process

LEMMA NewItemsKept ==
  ASSUME DbType = "sqlite", TypeInv, OneAtATime, NewItems, [Next]_vars
  PROVE  NewItems'
<1> SUFFICES ASSUME NEW r \in Requests, requests'[r].at \in AtCreate
             PROVE  requests'[r].item \notin DOMAIN auctions'
  BY DEF NewItems
<1>1. TypeOK /\ requests'[r] # Idle
  BY DEF TypeInv, Idle, AtCreate
<1>2. CASE Progress(r)
  <2>1. UNCHANGED auctions
    BY <1>1, <1>2, ProgressPosition, EnsuresUserFrame
  <2>2. QED
    BY <1>1, <1>2, <2>1, ProgressPosition DEF NewItems
<1>3. CASE Arrival(r)
  <2>1. UNCHANGED auctions /\ requests'[r].item \notin issued
    BY <1>1, <1>3, ArrivalPosition, ArrivalFrame DEF tables
  <2>2. QED
    BY <1>1, <2>1 DEF TypeOK
<1>4. CASE requests'[r] = requests[r] /\ ~ Progress(r)
  <2>1. UNCHANGED auctions
    BY <1>1, <1>4, NobodyElse DEF Busy, tables
  <2>2. QED
    BY <1>4, <2>1 DEF NewItems
<1>5. QED
  BY <1>1, <1>2, <1>3, <1>4, HandlerSteps

LEMMA WritesRaiseKept ==
  ASSUME DbType = "sqlite", TypeInv, OneAtATime, WritesRaise, [Next]_vars
  PROVE  WritesRaise'
<1> SUFFICES ASSUME NEW r \in Requests, requests'[r].at = "reveal:write"
             PROVE  /\ requests'[r].item \in DOMAIN auctions'
                    /\ Rounded(requests'[r].hash.amount)
                           > Price(auctions[requests[r].item])'
  BY DEF WritesRaise
<1>1. TypeOK /\ requests'[r] # Idle
  BY DEF TypeInv, Idle
<1>2. CASE Progress(r)
  <2>1. RevealReadsAuction(r)
    BY <1>1, <1>2, ProgressPosition
  <2>2. requests[r] \in RevealRequest
    BY <1>1, <2>1, RequestShape DEF RevealReadsAuction, AtReveal, TypeOK
  <2>3. /\ requests[r].item \in DOMAIN auctions
        /\ Rounded(requests[r].hash.amount)
               > Price(auctions[requests[r].item])
        /\ requests'[r] = [requests[r] EXCEPT !.at = "reveal:write"]
        /\ UNCHANGED auctions
    BY <1>1, <2>1 DEF RevealReadsAuction, GoTo, Respond, TypeOK, tables
  <2>4. /\ requests'[r].item = requests[r].item
        /\ requests'[r].hash = requests[r].hash
    BY <2>2, <2>3 DEF RevealRequest
  <2>5. QED
    BY <2>3, <2>4 DEF Price
<1>3. CASE Arrival(r)
  BY <1>1, <1>3, ArrivalPosition DEF AtReveal
<1>4. CASE requests'[r] = requests[r] /\ ~ Progress(r)
  <2>1. UNCHANGED auctions
    BY <1>1, <1>4, NobodyElse DEF Busy, tables
  <2>2. QED
    BY <1>4, <2>1 DEF WritesRaise, Price
<1>5. QED
  BY <1>1, <1>2, <1>3, <1>4, HandlerSteps

-----------------------------------------------------------------------------
(***************************************************************************)
(* The price.                                                              *)
(***************************************************************************)

\* What a step does to the auctions and to the answers about reveals.
LEMMA PriceSteps ==
  ASSUME DbType = "sqlite", OneAtATime, [Next]_vars
  PROVE  \/ /\ UNCHANGED auctions
            /\ \/ UNCHANGED answers
               \/ \E r \in Requests :
                      answers' = answers \cup {Stored(requests[r])}
         \/ \E r \in Requests : \/ CreateInserts(r) \/ StatusUpdates(r)
                                \/ RevealReadsAuction(r)
                                \/ RevealWritesHighest(r)
<1>1. ASSUME NEW r \in Requests, Progress(r)
      PROVE  \/ /\ UNCHANGED auctions
                /\ \/ UNCHANGED answers
                   \/ answers' = answers \cup {Stored(requests[r])}
             \/ CreateInserts(r) \/ StatusUpdates(r)
             \/ RevealReadsAuction(r) \/ RevealWritesHighest(r)
  <2>1. CASE Selects(r) \/ EnsuresUser(r) \/ Notifies(r) \/ NotifyFails(r)
    BY <2>1, SelectsFrame, EnsuresUserFrame, NotifiesFrame
       DEF NotifyFails, tables
  <2>2. CASE WritesProof(r)
    BY <2>2 DEF WritesProof, StoreInserts, RevealMarksProof, VerifyUpdates,
                Stored
  <2>3. QED
    BY <1>1, <2>1, <2>2, ProgressCases DEF WritesAuction
<1>2. QED
  BY <1>1, SqliteSteps DEF Restart, vars, process, tables

LEMMA PriceType ==
  ASSUME NEW row \in AuctionRow
  PROVE  Price(row) \in Nat \ {0} /\ row.starting_price \in Nat \ {0}
BY BackendAmounts, NullAssumption DEF AuctionRow, Price

\* An acknowledged reveal is an offer on its item and on no other.
LEMMA OfferAdded ==
  ASSUME NEW q, answers' = answers \cup {Revealed(q)}, NEW i
  PROVE  /\ q.item = i =>
                RevealedOn(i)' = RevealedOn(i) \cup {Rounded(q.hash.amount)}
         /\ q.item # i => RevealedOn(i)' = RevealedOn(i)
<1>1. /\ Revealed(q).kind = "revealed"
      /\ Revealed(q).item = q.item
      /\ Revealed(q).amount = q.hash.amount
  BY DEF Revealed
<1> DEFINE ans == {b \in answers : b.kind = "revealed" /\ b.item = i}
<1>2. CASE q.item = i
  <2>1. {b \in answers' : b.kind = "revealed" /\ b.item = i}
            = ans \cup {Revealed(q)}
    BY <1>1, <1>2
  <2>2. RevealedOn(i)' = {Rounded(a.amount) : a \in ans \cup {Revealed(q)}}
    BY <2>1 DEF RevealedOn
  <2>3. RevealedOn(i) = {Rounded(a.amount) : a \in ans}
    BY DEF RevealedOn
  <2> HIDE DEF ans
  <2>4. QED
    BY <1>1, <1>2, <2>2, <2>3
<1>3. CASE q.item # i
  <2>1. {b \in answers' : b.kind = "revealed" /\ b.item = i} = ans
    BY <1>1, <1>3
  <2>2. QED
    BY <1>3, <2>1 DEF RevealedOn
<1>4. QED
  BY <1>2, <1>3

LEMMA NoOfferAdded ==
  ASSUME NEW q, answers' = answers \cup {Stored(q)}, NEW i
  PROVE  RevealedOn(i)' = RevealedOn(i)
<1>1. Stored(q).kind # "revealed"
  BY DEF Stored
<1>2. {b \in answers' : b.kind = "revealed" /\ b.item = i}
          = {b \in answers : b.kind = "revealed" /\ b.item = i}
  BY <1>1
<1>3. QED
  BY <1>2 DEF RevealedOn

\* Best(i): the price of auction i is the best of the offers.
Best(i) ==
    LET offers == {auctions[i].starting_price} \cup RevealedOn(i) IN
    /\ Price(auctions[i]) \in offers
    /\ \A a \in offers : Price(auctions[i]) >= a

\* An auction whose price, starting price and offers stay.
LEMMA BestStays ==
  ASSUME NEW i, Best(i), RevealedOn(i)' = RevealedOn(i),
         Price(auctions[i])' = Price(auctions[i]),
         auctions'[i].starting_price = auctions[i].starting_price
  PROVE  Best(i)'
BY DEF Best

LEMMA OffersOnAuctionsKept ==
  ASSUME DbType = "sqlite", TypeOK, OneAtATime, OffersOnAuctions,
         WritesRaise, [Next]_vars
  PROVE  OffersOnAuctions'
<1>1. CASE UNCHANGED auctions /\ UNCHANGED answers
  BY <1>1 DEF OffersOnAuctions
<1>2. ASSUME NEW r \in Requests, UNCHANGED auctions,
             answers' = answers \cup {Stored(requests[r])}
      PROVE  OffersOnAuctions'
  BY <1>2 DEF OffersOnAuctions, Stored
<1>3. ASSUME NEW r \in Requests, CreateInserts(r) \/ StatusUpdates(r)
      PROVE  OffersOnAuctions'
  <2>1. UNCHANGED answers /\ DOMAIN auctions \subseteq DOMAIN auctions'
    BY <1>3 DEF CreateInserts, StatusUpdates, Insert
  <2>2. QED
    BY <2>1 DEF OffersOnAuctions
<1>4. ASSUME NEW r \in Requests,
             RevealReadsAuction(r) \/ RevealWritesHighest(r)
      PROVE  OffersOnAuctions'
  <2>1. /\ DOMAIN auctions' = DOMAIN auctions
        /\ \/ UNCHANGED answers
           \/ /\ requests[r].item \in DOMAIN auctions
              /\ answers' = answers \cup {Revealed(requests[r])}
    BY <1>4 DEF RevealReadsAuction, RevealWritesHighest, AnswerRevealed,
                Revealed, WritesRaise, tables
  <2>2. Revealed(requests[r]).item = requests[r].item
    BY DEF Revealed
  <2>3. QED
    BY <2>1, <2>2 DEF OffersOnAuctions
<1>5. QED
  BY <1>1, <1>2, <1>3, <1>4, PriceSteps

LEMMA PriceStaysBest ==
  ASSUME DbType = "sqlite", TypeInv, OneAtATime, NewItems, OffersOnAuctions,
         WritesRaise, PriceIsBestReveal, [Next]_vars,
         NEW i \in DOMAIN auctions'
  PROVE  Best(i)'
<1>1. /\ TypeOK
      /\ \A k \in DOMAIN auctions : Best(k) /\ auctions[k] \in AuctionRow
  BY DEF PriceIsBestReveal, Best, TypeInv, TypeOK
<1>2. CASE UNCHANGED auctions /\ UNCHANGED answers
  BY <1>1, <1>2 DEF Best, RevealedOn, Price
<1>3. ASSUME NEW r \in Requests, UNCHANGED auctions,
             answers' = answers \cup {Stored(requests[r])}
      PROVE  Best(i)'
  <2>1. RevealedOn(i)' = RevealedOn(i)
    BY <1>3, NoOfferAdded
  <2>2. Price(auctions[i])' = Price(auctions[i])
    BY <1>3 DEF Price
  <2>3. QED
    BY <1>1, <1>3, <2>1, <2>2, BestStays
<1>4. ASSUME NEW r \in Requests, CreateInserts(r)
      PROVE  Best(i)'
  <2> DEFINE row == [seller_address         |-> requests[r].wallet,
                     starting_price         |-> requests[r].price,
                     current_highest_bid    |-> None,
                     highest_bidder_address |-> None,
                     auction_status         |-> "active"]
  <2>1. RevealedOn(i)' = RevealedOn(i)
    BY <1>4 DEF CreateInserts, RevealedOn
  <2>2. \/ auctions' = auctions
        \/ auctions' = Insert(auctions, requests[r].item, row)
    BY <1>4 DEF CreateInserts
  <2>3. requests[r].item \notin DOMAIN auctions
    BY <1>4 DEF CreateInserts, NewItems, AtCreate
  <2>4. /\ Price(row) = requests[r].price
        /\ row.starting_price = requests[r].price
        /\ requests[r].price \in Nat
    <3>1. requests[r] \in CreateRequest
      BY <1>1, <1>4, RequestShape DEF CreateInserts, AtCreate, TypeOK
    <3>2. QED
      BY <3>1, BackendAmounts DEF Price, CreateRequest
  <2> HIDE DEF row
  <2>5. CASE i \in DOMAIN auctions /\ auctions'[i] = auctions[i]
    <3>1. Price(auctions[i])' = Price(auctions[i])
      BY <2>5 DEF Price
    <3>2. QED
      BY <1>1, <2>1, <2>5, <3>1, BestStays
  <2>6. CASE i = requests[r].item /\ auctions'[i] = row
    <3>1. RevealedOn(i) = {}
      BY <2>3, <2>6 DEF OffersOnAuctions, RevealedOn
    <3>2. /\ Price(auctions[i])' = requests[r].price
          /\ auctions'[i].starting_price = requests[r].price
      BY <2>4, <2>6 DEF Price
    <3>3. QED
      BY <2>1, <2>4, <3>1, <3>2 DEF Best
  <2>7. QED
    BY <2>2, <2>3, <2>5, <2>6 DEF Insert
<1>5. ASSUME NEW r \in Requests, StatusUpdates(r)
      PROVE  Best(i)'
  <2>1. RevealedOn(i)' = RevealedOn(i)
    BY <1>5 DEF StatusUpdates, RevealedOn
  <2>2. \/ auctions' = auctions
        \/ /\ requests[r].item \in DOMAIN auctions
           /\ auctions' = [auctions EXCEPT
                ![requests[r].item] = [@ EXCEPT
                    !.auction_status = requests[r].value]]
    BY <1>5 DEF StatusUpdates
  <2>3. i \in DOMAIN auctions
    BY <2>2
  <2>4. LET row == [auctions[i] EXCEPT !.auction_status = requests[r].value]
        IN  /\ row.starting_price = auctions[i].starting_price
            /\ row.current_highest_bid = auctions[i].current_highest_bid
    BY <1>1, <2>3 DEF AuctionRow
  <2>5. /\ auctions'[i].starting_price = auctions[i].starting_price
        /\ auctions'[i].current_highest_bid = auctions[i].current_highest_bid
    BY <2>2, <2>3, <2>4
  <2>6. Price(auctions[i])' = Price(auctions[i])
    BY <2>5 DEF Price
  <2>7. QED
    BY <1>1, <2>1, <2>3, <2>5, <2>6, BestStays
<1>6. ASSUME NEW r \in Requests, RevealReadsAuction(r)
      PROVE  Best(i)'
  <2> DEFINE q == requests[r]
             bid == Rounded(q.hash.amount)
  <2>1. /\ UNCHANGED auctions
        /\ \/ UNCHANGED answers
           \/ /\ q.item \in DOMAIN auctions
              /\ ~ (bid > Price(auctions[q.item]))
              /\ answers' = answers \cup {Revealed(q)}
    BY <1>6 DEF RevealReadsAuction, AnswerRevealed, Revealed, tables
  <2>2. bid \in Nat
    <3>1. q \in RevealRequest
      BY <1>1, <1>6, RequestShape DEF RevealReadsAuction, AtReveal, TypeOK
    <3>2. QED
      BY <3>1, BackendAmounts DEF RevealRequest, Commitment
  <2>3. CASE answers' = answers \cup {Revealed(q)} /\ q.item = i
    <3>1. RevealedOn(i)' = RevealedOn(i) \cup {bid}
      BY <2>3, OfferAdded
    <3>2. /\ Price(auctions[i])' = Price(auctions[i])
          /\ auctions'[i] = auctions[i]
      BY <2>1 DEF Price
    <3>3. Best(i) /\ Price(auctions[i]) \in Nat
      BY <1>1, <2>1, PriceType
    <3>4. i \in DOMAIN auctions /\ (bid <= Price(auctions[i]) \/ UNCHANGED answers)
      BY <2>1, <2>2, <2>3, <3>3
    <3> HIDE DEF bid
    <3>5. CASE UNCHANGED answers
      BY <1>2, <2>1, <3>5
    <3>6. CASE bid <= Price(auctions[i])
      BY <3>1, <3>2, <3>3, <3>6 DEF Best
    <3>7. QED
      BY <3>4, <3>5, <3>6
  <2>4. CASE answers' = answers \cup {Revealed(q)} /\ q.item # i
    <3>1. RevealedOn(i)' = RevealedOn(i)
      BY <2>4, OfferAdded
    <3>2. Price(auctions[i])' = Price(auctions[i])
      BY <2>1 DEF Price
    <3>3. QED
      BY <1>1, <2>1, <3>1, <3>2, BestStays
  <2>5. QED
    BY <1>2, <2>1, <2>3, <2>4
<1>7. ASSUME NEW r \in Requests, RevealWritesHighest(r)
      PROVE  Best(i)'
  <2> DEFINE q == requests[r]
             bid == Rounded(q.hash.amount)
  <2>1. /\ q.item \in DOMAIN auctions
        /\ bid > Price(auctions[q.item])
    BY <1>7 DEF WritesRaise, RevealWritesHighest
  <2>2. bid \in Nat
    <3>1. q \in RevealRequest
      BY <1>1, <1>7, RequestShape DEF RevealWritesHighest, AtReveal, TypeOK
    <3>2. QED
      BY <3>1, BackendAmounts DEF RevealRequest, Commitment
  <2>3. /\ auctions' = [auctions EXCEPT
              ![q.item] = [@ EXCEPT !.current_highest_bid = bid,
                                    !.highest_bidder_address = q.wallet]]
        /\ answers' = answers \cup {Revealed(q)}
    BY <1>7, <2>1 DEF RevealWritesHighest, AnswerRevealed, Revealed
  <2>4. i \in DOMAIN auctions
    BY <2>3
  <2>5. CASE q.item = i
    <3>1. RevealedOn(i)' = RevealedOn(i) \cup {bid}
      BY <2>3, <2>5, OfferAdded
    <3>2. Best(i) /\ Price(auctions[i]) \in Nat \ {0}
      BY <1>1, <2>4, PriceType
    <3> HIDE DEF bid
    <3>3. LET row == [auctions[i] EXCEPT !.current_highest_bid = bid,
                                         !.highest_bidder_address = q.wallet]
          IN  /\ row.starting_price = auctions[i].starting_price
              /\ row.current_highest_bid = bid
      BY <1>1, <2>4 DEF AuctionRow
    <3>4. /\ auctions'[i].starting_price = auctions[i].starting_price
          /\ auctions'[i].current_highest_bid = bid
      BY <2>3, <2>4, <2>5, <3>3
    <3>5. bid \notin {None, 0} /\ bid > Price(auctions[i])
      BY <2>1, <2>2, <2>5, <3>2, NullAssumption
    <3>6. Price(auctions[i])' = bid
      BY <3>4, <3>5 DEF Price
    <3>7. \A a \in {auctions[i].starting_price} \cup RevealedOn(i) :
              Price(auctions[i]) >= a
      BY <3>2 DEF Best
    <3>8. auctions[i].starting_price \in Nat
      BY <1>1, <2>4, PriceType
    <3>9. RevealedOn(i) \subseteq Nat
      <4>1. \A a \in answers : a.kind = "revealed" => a.amount \in Amounts
        BY <1>1 DEF TypeOK, Answer
      <4>2. QED
        BY <4>1, BackendAmounts DEF RevealedOn
    <3>10. \A a \in {auctions[i].starting_price} \cup RevealedOn(i) : bid >= a
      BY <2>2, <3>2, <3>5, <3>7, <3>8, <3>9
    <3>11. QED
      BY <2>2, <3>1, <3>4, <3>6, <3>10 DEF Best
  <2>6. CASE q.item # i
    <3>1. RevealedOn(i)' = RevealedOn(i)
      BY <2>3, <2>6, OfferAdded
    <3>2. auctions'[i] = auctions[i]
      BY <2>3, <2>4, <2>6
    <3>3. Price(auctions[i])' = Price(auctions[i])
      BY <3>2 DEF Price
    <3>4. QED
      BY <1>1, <2>4, <3>1, <3>2, <3>3, BestStays
  <2>7. QED
    BY <2>5, <2>6
<1>8. QED
  BY <1>2, <1>3, <1>4, <1>5, <1>6, <1>7, PriceSteps

LEMMA PriceInvInit == Init => PriceInv
<1>1. Init => /\ OneAtATime /\ NewItems /\ OffersOnAuctions
              /\ WritesRaise /\ PriceIsBestReveal
  BY DEF Init, Idle, OneAtATime, Busy, NewItems, OffersOnAuctions,
         WritesRaise, PriceIsBestReveal, AtCreate, NoRows
<1>2. QED
  BY <1>1, TypeInvInit DEF PriceInv

LEMMA PriceInvKept ==
  ASSUME DbType = "sqlite", PriceInv, [Next]_vars
  PROVE  PriceInv'
<1> SUFFICES ASSUME TypeInv, TypeOK, OneAtATime, NewItems,
                    OffersOnAuctions, WritesRaise, PriceIsBestReveal
             PROVE  PriceInv'
  BY DEF PriceInv, TypeInv
<1>1. TypeInv' /\ OneAtATime' /\ NewItems'
  BY TypeInvKept, OneAtATimeKept, NewItemsKept
<1>2. OffersOnAuctions' /\ WritesRaise'
  BY OffersOnAuctionsKept, WritesRaiseKept
<1>3. PriceIsBestReveal'
  BY PriceStaysBest DEF PriceIsBestReveal, Best
<1>4. QED
  BY <1>1, <1>2, <1>3 DEF PriceInv

-----------------------------------------------------------------------------
\* With SQLite no revealed bid is lost: the price is the best of the starting
\* price and every bid the server acknowledged, over restarts at any
\* statement (auctionController.js:320-345, database.js:43-88).
THEOREM SqlitePriceIsBest ==
  ASSUME DbType = "sqlite"
  PROVE  Spec => []PriceIsBestReveal
<1>1. PriceInv /\ [Next]_vars => PriceInv'
  BY PriceInvKept
<1>2. PriceInv => PriceIsBestReveal
  BY DEF PriceInv
<1>3. QED
  BY <1>1, <1>2, PriceInvInit, PTL DEF Spec

-----------------------------------------------------------------------------
(***************************************************************************)
(* With SQLite the handlers implement AuctionBook: each call takes effect  *)
(* at one of its statements, and the others stutter.                       *)
(*                                                                         *)
(* A handler decides at a SELECT and writes in a later transaction, on the *)
(* strength of what it saw.  What it saw is kept in Decided, and stays     *)
(* true because nobody else runs meanwhile; a restart between the two      *)
(* statements loses the handler and with it the decision.                  *)
(***************************************************************************)

\* The decisions handlers have made and not yet acted on.
DecidedBy(q) ==
    /\ q.at \in AtReveal =>
           [item |-> q.item, wallet |-> q.wallet, hash |-> q.hash] \in SealedBids
    /\ q.at = "status:update" =>
           /\ q.item \in DOMAIN auctions
           /\ auctions[q.item].seller_address = q.wallet
    /\ q.at = "claim:notify" =>
           /\ q.item \in DOMAIN auctions
           /\ auctions[q.item].highest_bidder_address = q.wallet
    /\ q.at = "refund:notify" =>
           /\ q.item \in DOMAIN auctions
           /\ auctions[q.item].highest_bidder_address # q.wallet

Decided == \A r \in Requests : DecidedBy(requests[r])

-----------------------------------------------------------------------------
(***************************************************************************)
(* What AuctionBook sees of the tables.                                    *)
(***************************************************************************)

LEMMA SealedStay ==
  ASSUME UNCHANGED proofs
  PROVE  UNCHANGED SealedBids
BY DEF SealedBids

LEMMA SealedSame ==
  ASSUME ProofsTyped, NEW id, proofs' = Verify(id)
  PROVE  UNCHANGED SealedBids
<1>1. /\ DOMAIN proofs' = DOMAIN proofs
      /\ \A k \in DOMAIN proofs :
             /\ proofs'[k].item_id = proofs[k].item_id
             /\ proofs'[k].bidder_address = proofs[k].bidder_address
             /\ proofs'[k].commitment_hash = proofs[k].commitment_hash
  BY VerifyKeeps
<1>2. QED
  BY <1>1 DEF SealedBids

LEMMA SealedInserted ==
  ASSUME NEW id, id \notin DOMAIN proofs, NEW row, proofs' = Insert(proofs, id, row)
  PROVE  SealedBids' = SealedBids \cup
             {[item |-> row.item_id, wallet |-> row.bidder_address,
               hash |-> row.commitment_hash]}
<1>1. /\ DOMAIN proofs' = DOMAIN proofs \cup {id}
      /\ proofs'[id] = row
      /\ \A k \in DOMAIN proofs : proofs'[k] = proofs[k]
  BY DEF Insert
<1>2. QED
  BY <1>1 DEF SealedBids

LEMMA BookStutters ==
  ASSUME UNCHANGED <<auctions, answers>>, UNCHANGED <<proofs, notifications>>
  PROVE  UNCHANGED Book!vars
BY SealedStay DEF Book!vars, Settlements

-----------------------------------------------------------------------------
(***************************************************************************)
(* Decisions.                                                              *)
(***************************************************************************)

LEMMA GoToKeeps ==
  ASSUME TypeOK, NEW r \in Requests, NEW step, GoTo(r, step),
         requests[r].at \in AtStatus \cup AtItem
  PROVE  /\ requests'[r].at = step
         /\ requests'[r].wallet = requests[r].wallet
         /\ requests'[r].item = requests[r].item
<1>1. requests[r] \in StatusRequest \cup ItemRequest
  BY RequestShape DEF TypeOK
<1>2. requests'[r] = [requests[r] EXCEPT !.at = step]
  BY DEF GoTo, TypeOK
<1>3. QED
  BY <1>1, <1>2 DEF StatusRequest, ItemRequest

\* The two decisions ProgressPosition is silent about.
LEMMA DecisionPosition ==
  ASSUME TypeOK, NEW r \in Requests, Progress(r)
  PROVE  /\ requests'[r].at = "status:update" => StatusSelects(r)
         /\ requests'[r].at = "refund:notify" => RefundSelects(r)
<1> DEFINE Decides == requests'[r].at \in {"status:update", "refund:notify"}
           Moves(step) == requests'[r] = [requests[r] EXCEPT !.at = step]
<1>1. requests \in [Requests -> Request] /\ requests[r] \in Request
  BY DEF TypeOK
<1>2. ASSUME NEW step, GoTo(r, step) PROVE Moves(step)
  BY <1>1, <1>2 DEF GoTo
<1>3. ASSUME Respond(r) PROVE ~ Decides
  BY <1>1, <1>3 DEF Respond, Idle
<1>4. "at" \in DOMAIN requests[r]
  BY <1>1 DEF Request, Idle, CreateRequest, StatusRequest, StoreRequest,
              RevealRequest, VerifyRequest, ItemRequest
<1>5. ASSUME NEW step, Moves(step) PROVE requests'[r].at = step
  BY <1>4, <1>5
<1> HIDE DEF Moves
<1>6. CASE StatusSelects(r)
  BY <1>2, <1>3, <1>5, <1>6 DEF StatusSelects
<1>7. CASE RefundSelects(r)
  BY <1>2, <1>3, <1>5, <1>7 DEF RefundSelects
<1>8. CASE StoreSelects(r) \/ VerifySelects(r) \/ ClaimSelects(r)
  BY <1>2, <1>3, <1>5, <1>8 DEF StoreSelects, VerifySelects, ClaimSelects
<1>9. CASE RevealFindsProof(r)
  BY <1>1, <1>3, <1>9 DEF RevealFindsProof
<1>10. CASE EnsuresUser(r)
  BY <1>2, <1>5, <1>10 DEF EnsuresUser, EnsureUser
<1>11. CASE WritesAuction(r) \/ WritesProof(r)
  BY <1>2, <1>3, <1>5, <1>11 DEF WritesAuction, CreateInserts, StatusUpdates,
     RevealWritesHighest, WritesProof, StoreInserts, RevealMarksProof,
     VerifyUpdates
<1>12. CASE Notifies(r) \/ NotifyFails(r) \/ RevealReadsAuction(r)
  BY <1>2, <1>3, <1>5, <1>12 DEF Notifies, InsertNotification, NotifyFails,
     RevealReadsAuction
<1>13. QED
  BY <1>6, <1>7, <1>8, <1>9, <1>10, <1>11, <1>12, ProgressCases DEF Selects

LEMMA ArrivalDecidesNothing ==
  ASSUME TypeOK, NEW r \in Requests, Arrival(r)
  PROVE  requests'[r].at \notin {"status:update", "refund:notify"}
<1> DEFINE Right == requests'[r].at \notin {"status:update", "refund:notify"}
<1>1. ASSUME NEW q, Begin(r, q), q.at \notin {"status:update", "refund:notify"}
      PROVE  Right
  BY <1>1 DEF Begin, TypeOK
<1> HIDE DEF Right
<1>2. ASSUME NEW w, NEW i, NEW p, CreateAuction(r, w, i, p) PROVE Right
  BY <1>1, <1>2 DEF CreateAuction
<1>3. ASSUME NEW w, NEW i, NEW v, UpdateAuctionStatus(r, w, i, v) PROVE Right
  BY <1>1, <1>3 DEF UpdateAuctionStatus
<1>4. ASSUME NEW w, NEW i, NEW h, StoreProof(r, w, i, h) PROVE Right
  BY <1>1, <1>4 DEF StoreProof
<1>5. ASSUME NEW w, NEW i, NEW a, NEW s, NEW h, RevealBid(r, w, i, a, s, h)
      PROVE  Right
  BY <1>1, <1>5 DEF RevealBid
<1>6. ASSUME NEW w, NEW i, \/ ClaimAuctionAsset(r, w, i)
                           \/ RefundCollateral(r, w, i)
                           \/ CreateNotification(r, w, i)
      PROVE  Right
  BY <1>1, <1>6 DEF ClaimAuctionAsset, RefundCollateral, CreateNotification
<1>7. ASSUME NEW id, NEW h, VerifyZKPProof(r, id, h) PROVE Right
  BY <1>1, <1>7 DEF VerifyZKPProof
<1>8. Right
  BY <1>2, <1>3, <1>4, <1>5, <1>6, <1>7 DEF Arrival
<1>9. QED
  BY <1>8 DEF Right

LEMMA DecisionStays ==
  ASSUME NEW q, DecidedBy(q), UNCHANGED <<auctions, proofs>>
  PROVE  DecidedBy(q)'
BY SealedStay DEF DecidedBy

LEMMA DecidedKept ==
  ASSUME DbType = "sqlite", TypeInv, OneAtATime, Decided, [Next]_vars
  PROVE  Decided'
<1> SUFFICES ASSUME NEW r \in Requests
             PROVE  DecidedBy(requests[r])'
  BY DEF Decided
<1>0. TypeOK /\ ProofsTyped
  BY DEF TypeInv, TypeOK, ProofsTyped
<1> DEFINE q == requests[r]
           n == requests'[r]
           Deciding == {"status:update", "claim:notify", "refund:notify"}
<1>1. CASE Progress(r)
  <2>1. ASSUME n.at \in AtReveal
        PROVE  [item |-> n.item, wallet |-> n.wallet, hash |-> n.hash]
                   \in SealedBids'
    <3>1. CASE RevealFindsProof(r)
      <4>1. PICK id \in ProofsOf(q.wallet, q.item, q.hash) :
                n = [at |-> "reveal:mark", wallet |-> q.wallet,
                     item |-> q.item, hash |-> q.hash, proof |-> id]
        BY <1>0, <2>1, <3>1 DEF RevealFindsProof, Respond, Idle, TypeOK, AtReveal
      <4>2. UNCHANGED proofs
        BY <3>1 DEF RevealFindsProof, tables
      <4>3. [item |-> q.item, wallet |-> q.wallet, hash |-> q.hash] \in SealedBids
        BY DEF ProofsOf, SealedBids
      <4>4. QED
        BY <4>1, <4>2, <4>3, SealedStay
    <3>2. CASE /\ q.at \in AtReveal
               /\ n.wallet = q.wallet /\ n.item = q.item /\ n.hash = q.hash
      <4>1. [item |-> q.item, wallet |-> q.wallet, hash |-> q.hash] \in SealedBids
        BY <3>2 DEF Decided, DecidedBy
      <4>2. UNCHANGED SealedBids
        <5>1. RevealMarksProof(r) \/ UNCHANGED proofs
          BY <1>1, <3>2, ProgressCases, SelectsFrame, EnsuresUserFrame,
             WritesAuctionFrame, NotifiesFrame
             DEF WritesProof, StoreInserts, VerifyUpdates, NotifyFails,
                 RevealReadsAuction, tables, AtReveal
        <5>2. QED
          BY <1>0, <5>1, SealedStay, SealedSame DEF RevealMarksProof
      <4>3. QED
        BY <3>2, <4>1, <4>2
    <3>3. QED
      BY <1>0, <1>1, <2>1, <3>1, <3>2, ProgressPosition
  <2>2. CASE n.at \in Deciding
    <3>1. StatusSelects(r) \/ ClaimSelects(r) \/ RefundSelects(r)
      BY <1>0, <1>1, <2>2, DecisionPosition, ProgressPosition
    <3>2. UNCHANGED <<auctions, proofs>>
      BY <3>1 DEF StatusSelects, ClaimSelects, RefundSelects, tables
    <3>3. /\ n.at = "status:update" => StatusSelects(r)
          /\ n.at = "claim:notify" => ClaimSelects(r)
          /\ n.at = "refund:notify" => RefundSelects(r)
      BY <1>0, <1>1, DecisionPosition, ProgressPosition
    <3>4. n.wallet = q.wallet /\ n.item = q.item /\ q.at \notin AtReveal
      <4>1. ~ Respond(r) /\ q.at \in AtStatus \cup AtItem
        BY <1>0, <2>2, <3>1 DEF Respond, Idle, TypeOK, StatusSelects,
                                ClaimSelects, RefundSelects, AtStatus, AtItem
      <4>2. \E step : GoTo(r, step)
        BY <3>1, <4>1 DEF StatusSelects, ClaimSelects, RefundSelects
      <4>3. QED
        BY <1>0, <4>1, <4>2, GoToKeeps DEF AtStatus, AtItem, AtReveal
    <3>5. ~ Respond(r)
      BY <1>0, <2>2 DEF Respond, Idle, TypeOK
    <3>6. /\ StatusSelects(r) => /\ q.item \in DOMAIN auctions
                                 /\ auctions[q.item].seller_address = q.wallet
          /\ ClaimSelects(r) =>
                 /\ q.item \in DOMAIN auctions
                 /\ auctions[q.item].highest_bidder_address = q.wallet
          /\ RefundSelects(r) =>
                 /\ q.item \in DOMAIN auctions
                 /\ auctions[q.item].highest_bidder_address # q.wallet
      BY <3>5 DEF StatusSelects, ClaimSelects, RefundSelects
    <3>7. QED
      BY <2>2, <3>2, <3>3, <3>4, <3>6 DEF DecidedBy, AtReveal
  <2>3. CASE n.at \notin Deciding
    BY <2>1, <2>3 DEF DecidedBy
  <2>4. QED
    BY <2>2, <2>3
<1>2. CASE Arrival(r)
  <2>1. n.at \notin AtReveal \cup Deciding
    <3>1. n.at \notin AtReveal /\ n.at # "claim:notify"
      BY <1>0, <1>2, ArrivalPosition
    <3>2. n.at \notin {"status:update", "refund:notify"}
      BY <1>0, <1>2, ArrivalDecidesNothing
    <3>3. QED
      BY <3>1, <3>2
  <2>2. QED
    BY <2>1 DEF DecidedBy
<1>3. CASE n = q /\ ~ Progress(r)
  <2>1. CASE Busy(r)
    <3>1. UNCHANGED <<auctions, proofs>>
      BY <1>3, <2>1, NobodyElse DEF tables
    <3>2. QED
      BY <1>3, <3>1, DecisionStays DEF Decided
  <2>2. CASE ~ Busy(r)
    BY <1>3, <2>2 DEF Busy, Idle, DecidedBy, AtReveal
  <2>3. QED
    BY <2>1, <2>2
<1>4. CASE n = Idle
  BY <1>4 DEF Idle, DecidedBy, AtReveal
<1>5. QED
  BY <1>0, <1>1, <1>2, <1>3, <1>4, HandlerSteps

-----------------------------------------------------------------------------
(***************************************************************************)
(* Each statement is an operation of the book, or a stutter.               *)
(***************************************************************************)

BookStep == Book!Next \/ UNCHANGED Book!vars

LEMMA SamePrice == \A row : Book!Price(row) = Price(row)
BY DEF Book!Price, Price

LEMMA SameRounded == \A a : Book!Rounded(a) = Rounded(a)
BY DEF Book!Rounded, Rounded

LEMMA CreateIsCreate ==
  ASSUME TypeOK, NewItems, NEW r \in Requests, CreateInserts(r)
  PROVE  BookStep
<1> DEFINE q == requests[r]
<1>1. q \in CreateRequest
  BY RequestShape DEF CreateInserts, AtCreate, TypeOK
<1>2. q.item \notin DOMAIN auctions /\ UNCHANGED <<proofs, notifications, answers>>
  BY DEF CreateInserts, NewItems, AtCreate
<1>3. CASE UNCHANGED auctions
  BY <1>2, <1>3, BookStutters DEF BookStep
<1>4. CASE ~ UNCHANGED auctions
  <2>1. Book!Create(q.wallet, q.item, q.price)
    BY <1>2, <1>4, SealedStay
       DEF CreateInserts, Insert, Book!Create, Settlements
  <2>2. QED
    BY <1>1, <2>1 DEF CreateRequest, BookStep, Book!Next
<1>5. QED
  BY <1>3, <1>4

LEMMA StatusIsSetStatus ==
  ASSUME TypeOK, Decided, NEW r \in Requests, StatusUpdates(r)
  PROVE  BookStep
<1> DEFINE q == requests[r]
<1>1. q \in StatusRequest
  BY RequestShape DEF StatusUpdates, AtStatus, TypeOK
<1>2. q.item \in DOMAIN auctions /\ auctions[q.item].seller_address = q.wallet
  BY DEF StatusUpdates, Decided, DecidedBy
<1>3. UNCHANGED <<SealedBids, Settlements, answers>>
  BY SealedStay DEF StatusUpdates, Settlements
<1>4. Book!SetStatus(q.wallet, q.item, q.value)
  BY <1>2, <1>3 DEF StatusUpdates, Book!SetStatus
<1>5. QED
  BY <1>1, <1>4 DEF StatusRequest, BookStep, Book!Next

LEMMA StoreIsSeal ==
  ASSUME TypeOK, NEW r \in Requests, StoreInserts(r)
  PROVE  BookStep
<1> DEFINE q == requests[r]
           row == [item_id |-> q.item, bidder_address |-> q.wallet,
                   commitment_hash |-> q.hash, verified |-> FALSE]
<1>1. q \in StoreRequest
  BY RequestShape DEF StoreInserts, AtStore, TypeOK
<1>2. UNCHANGED <<auctions, notifications>>
  BY DEF StoreInserts
<1>3. CASE UNCHANGED <<last_id, proofs, answers>>
  BY <1>2, <1>3, BookStutters DEF BookStep
<1>4. CASE /\ q.item \in DOMAIN auctions
           /\ proofs' = Insert(proofs, last_id + 1, row)
           /\ answers' = answers \cup {Stored(q)}
  <2>1. last_id + 1 \notin DOMAIN proofs
    BY BackendBounds DEF TypeOK
  <2>2. /\ row.item_id = q.item /\ row.bidder_address = q.wallet
        /\ row.commitment_hash = q.hash
    OBVIOUS
  <2> HIDE DEF row
  <2>3. SealedBids' = SealedBids \cup
            {[item |-> q.item, wallet |-> q.wallet, hash |-> q.hash]}
    BY <1>4, <2>1, <2>2, SealedInserted
  <2>4. Book!Seal(q.wallet, q.item, q.hash)
    BY <1>2, <1>4, <2>3 DEF Book!Seal, Stored, Settlements
  <2>5. q.wallet \in Wallets /\ q.item \in Items /\ q.hash \in Book!Commitment
    BY <1>1 DEF StoreRequest, Commitment, Book!Commitment
  <2>6. QED
    BY <2>4, <2>5 DEF BookStep, Book!Next
<1>5. QED
  BY <1>3, <1>4 DEF StoreInserts, ForeignKeysHold, Stored

\* What the book needs of a reveal that is answered.
LEMMA RevealIsReveal ==
  ASSUME TypeOK, Decided, NEW r \in Requests, requests[r].at \in AtReveal,
         UNCHANGED <<proofs, notifications>>,
         requests[r].item \in DOMAIN auctions,
         AnswerRevealed(requests[r]),
         auctions' = IF Rounded(requests[r].hash.amount)
                            > Price(auctions[requests[r].item])
             THEN [auctions EXCEPT
                       ![requests[r].item].current_highest_bid =
                           Rounded(requests[r].hash.amount),
                       ![requests[r].item].highest_bidder_address =
                           requests[r].wallet]
             ELSE auctions
  PROVE  BookStep
<1> DEFINE q == requests[r]
<1>1. q \in RevealRequest
  BY RequestShape DEF TypeOK
<1>2. /\ [item |-> q.item, wallet |-> q.wallet, hash |-> q.hash] \in SealedBids
      /\ UNCHANGED <<SealedBids, Settlements>>
  BY SealedStay DEF Decided, DecidedBy, Settlements
<1>3. Book!Reveal(q.wallet, q.item, q.hash)
  BY <1>2, SamePrice, SameRounded DEF Book!Reveal, AnswerRevealed
<1>4. q.wallet \in Wallets /\ q.item \in Items /\ q.hash \in Book!Commitment
  BY <1>1 DEF RevealRequest, Commitment, Book!Commitment
<1>5. QED
  BY <1>3, <1>4 DEF BookStep, Book!Next

LEMMA ReadIsReveal ==
  ASSUME TypeOK, Decided, NEW r \in Requests, RevealReadsAuction(r)
  PROVE  BookStep
<1>1. UNCHANGED <<auctions, proofs, notifications>>
  BY DEF RevealReadsAuction, tables
<1>2. CASE UNCHANGED answers
  BY <1>1, <1>2, BookStutters DEF BookStep
<1>3. CASE /\ requests[r].item \in DOMAIN auctions
           /\ ~ (Rounded(requests[r].hash.amount)
                     > Price(auctions[requests[r].item]))
           /\ AnswerRevealed(requests[r])
  BY <1>1, <1>3, RevealIsReveal DEF RevealReadsAuction, AtReveal
<1>4. QED
  BY <1>2, <1>3 DEF RevealReadsAuction

LEMMA WriteIsReveal ==
  ASSUME TypeOK, Decided, WritesRaise, NEW r \in Requests, RevealWritesHighest(r)
  PROVE  BookStep
<1>1. /\ requests[r].item \in DOMAIN auctions
      /\ Rounded(requests[r].hash.amount) > Price(auctions[requests[r].item])
  BY DEF WritesRaise, RevealWritesHighest
<1>2. QED
  BY <1>1, RevealIsReveal DEF RevealWritesHighest, AtReveal

\* Of the notifications the book sees the settlements.
LEMMA NotifyIsSettlement ==
  ASSUME TypeOK, Decided, NEW r \in Requests, Notifies(r)
  PROVE  BookStep
<1> DEFINE q == requests[r]
<1>1. q.at \in AtItem /\ UNCHANGED <<auctions, proofs, answers>>
  BY DEF Notifies, InsertNotification, AtItem
<1>2. q.wallet \in Wallets /\ q.item \in Items
  BY <1>1, RequestShape DEF ItemRequest, TypeOK
<1>3. CASE UNCHANGED notifications
  BY <1>1, <1>3, BookStutters DEF BookStep
<1>4. ASSUME NEW type,
             notifications' = notifications \cup
                 {[user_address |-> q.wallet, item_id |-> q.item,
                   notification_type |-> type]}
      PROVE  Settlements' = IF type \in {"claim_success", "refund_success"}
                              THEN Settlements \cup
                                       {[user_address |-> q.wallet,
                                         item_id |-> q.item,
                                         notification_type |-> type]}
                              ELSE Settlements
  BY <1>4 DEF Settlements
<1>5. CASE InsertNotification(r, "claim:notify", "claim_success")
  <2>1. /\ q.item \in DOMAIN auctions
        /\ auctions[q.item].highest_bidder_address = q.wallet
    BY <1>5 DEF InsertNotification, Decided, DecidedBy
  <2>2. CASE ~ UNCHANGED notifications
    <3>1. Book!Claim(q.wallet, q.item)
      BY <1>1, <1>4, <1>5, <2>1, <2>2, SealedStay
         DEF InsertNotification, Book!Claim
    <3>2. QED
      BY <1>2, <3>1 DEF BookStep, Book!Next
  <2>3. QED
    BY <1>3, <2>2
<1>6. CASE InsertNotification(r, "refund:notify", "refund_success")
  <2>1. /\ q.item \in DOMAIN auctions
        /\ auctions[q.item].highest_bidder_address # q.wallet
    BY <1>6 DEF InsertNotification, Decided, DecidedBy
  <2>2. CASE ~ UNCHANGED notifications
    <3>1. Book!Refund(q.wallet, q.item)
      BY <1>1, <1>4, <1>6, <2>1, <2>2, SealedStay
         DEF InsertNotification, Book!Refund
    <3>2. QED
      BY <1>2, <3>1 DEF BookStep, Book!Next
  <2>3. QED
    BY <1>3, <2>2
<1>7. CASE InsertNotification(r, "notify:insert", "other")
  <2>1. Settlements' = Settlements
    BY <1>4, <1>7 DEF InsertNotification, Settlements
  <2>2. UNCHANGED Book!vars
    BY <1>1, <2>1, SealedStay DEF Book!vars
  <2>3. QED
    BY <2>2 DEF BookStep
<1>8. QED
  BY <1>5, <1>6, <1>7 DEF Notifies

LEMMA BookSteps ==
  ASSUME DbType = "sqlite", PriceInv, Decided, [Next]_vars
  PROVE  BookStep
<1>0. TypeOK /\ ProofsTyped /\ NewItems /\ WritesRaise /\ OneAtATime
  BY DEF PriceInv, TypeInv, TypeOK, ProofsTyped
<1>1. CASE UNCHANGED <<auctions, answers, proofs, notifications>>
  BY <1>1, BookStutters DEF BookStep
<1>2. ASSUME NEW r \in Requests, Progress(r)
      PROVE  BookStep
  <2>1. CASE Selects(r) \/ EnsuresUser(r) \/ NotifyFails(r)
    BY <1>1, <2>1, SelectsFrame, EnsuresUserFrame DEF NotifyFails, tables
  <2>2. CASE WritesAuction(r)
    BY <1>0, <2>2, CreateIsCreate, StatusIsSetStatus, WriteIsReveal
       DEF WritesAuction
  <2>3. CASE StoreInserts(r)
    BY <1>0, <2>3, StoreIsSeal
  <2>4. CASE RevealMarksProof(r) \/ VerifyUpdates(r)
    <3>1. /\ UNCHANGED <<auctions, notifications, answers>>
          /\ proofs' = proofs \/ proofs' = Verify(requests[r].proof)
      BY <2>4 DEF RevealMarksProof, VerifyUpdates
    <3>2. UNCHANGED SealedBids
      BY <1>0, <3>1, SealedStay, SealedSame
    <3>3. QED
      BY <3>1, <3>2 DEF BookStep, Book!vars, Settlements
  <2>5. CASE Notifies(r)
    BY <1>0, <2>5, NotifyIsSettlement
  <2>6. CASE RevealReadsAuction(r)
    BY <1>0, <2>6, ReadIsReveal
  <2>7. QED
    BY <1>2, <2>1, <2>2, <2>3, <2>4, <2>5, <2>6, ProgressCases DEF WritesProof
<1>3. QED
  BY <1>0, <1>1, <1>2, SqliteSteps DEF Restart, vars, process, tables

-----------------------------------------------------------------------------
\* With SQLite the Express handlers implement AuctionBook, the system the two
\* browser applications are modelled against: for any number of wallets,
\* auctions, requests and restarts, a call takes effect at once or not at all
\* (auctionController.js:249-470, zkpController.js:68-180).
THEOREM SqliteImplementsBook ==
  ASSUME DbType = "sqlite"
  PROVE  Spec => ImplementsAuctionBook
<1>1. Init => PriceInv /\ Decided /\ Book!Init
  <2> SUFFICES ASSUME Init PROVE PriceInv /\ Decided /\ Book!Init
    OBVIOUS
  <2>1. PriceInv
    BY PriceInvInit
  <2>2. Decided
    BY DEF Init, Idle, Decided, DecidedBy, AtReveal
  <2>3. Book!Init
    BY DEF Init, Book!Init, NoRows, SealedBids, Settlements
  <2>4. QED
    BY <2>1, <2>2, <2>3
<1>2. PriceInv /\ [Next]_vars => PriceInv'
  BY PriceInvKept
<1>3. PriceInv /\ Decided /\ [Next]_vars => Decided'
  BY DecidedKept DEF PriceInv
<1>4. PriceInv /\ Decided /\ [Next]_vars => [Book!Next]_(Book!vars)
  BY BookSteps DEF BookStep
<1>5. QED
  BY <1>1, <1>2, <1>3, <1>4, PTL DEF Spec, ImplementsAuctionBook, Book!Spec
=============================================================================
