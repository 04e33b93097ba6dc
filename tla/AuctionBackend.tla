--------------------------- MODULE AuctionBackend ---------------------------
(***************************************************************************)
(* The Express backend, apps/backend/src: the request handlers that write  *)
(* the database, the four tables they share, and the cleanup that          *)
(* index.js starts after the server already listens.                       *)
(*                                                                         *)
(* A handler is cut where it awaits query(): one action is one SQL         *)
(* statement together with the synchronous code up to the next await or    *)
(* the response.  Each statement is a transaction of its own.              *)
(*   - With DbType "postgres" other requests run at every await.           *)
(*   - With "sqlite" query() computes its result before it returns, so the *)
(*     awaits of a handler resolve before the event loop takes another     *)
(*     request: handlers, and the startup code, run one after the other.   *)
(* The process may die and be started again between any two statements.    *)
(***************************************************************************)
EXTENDS Integers, FiniteSets, FiniteSetsExt, Functions

CONSTANTS
    DbType,      \* process.env.DB_TYPE
    Wallets,     \* wallet addresses, authenticated by the middleware
    Items,       \* bound: the uuids handed out
    Prices,      \* starting prices
    Amounts,     \* amounts a bid may open to, in the smallest unit
    Salts,       \* salt keys
    Ulp,         \* distance between adjacent doubles at these amounts
    Calls,       \* bound: the endpoints clients call
    Requests,    \* bound: requests in progress at a time
    MaxProofs,   \* the last id zkp_proof_backup can give out
    MaxRestarts, \* bound: restarts of the process
    None         \* SQL NULL

\* parseFloat of a decimal amount: the nearest double.
Rounded(amount) == ((amount + (Ulp \div 2)) \div Ulp) * Ulp

(***************************************************************************)
(* createAuction refuses a zero price.  It accepts a negative one, which   *)
(* no page of the admin application sends; prices here are positive.       *)
(***************************************************************************)
ASSUME DbAssumption == DbType \in {"sqlite", "postgres"}
ASSUME BackendAmounts ==
    /\ Ulp \in Nat \ {0}
    /\ Amounts \subseteq Nat
    /\ Prices \subseteq Nat \ {0}
    /\ \A a \in Amounts : Rounded(a) \in Nat
    /\ \A p \in Prices : Rounded(p) = p
ASSUME BackendBounds == MaxProofs \in Nat /\ MaxRestarts \in Nat
ASSUME BackendCalls ==
    Calls \subseteq {"create", "status", "store", "reveal",
                     "verify", "claim", "refund", "notify"}

VARIABLES
    users,         \* users_profile: the wallet addresses
    auctions,      \* auctions_metadata: item_id -> row
    proofs,        \* zkp_proof_backup: id -> row
    last_id,       \* zkp_proof_backup: the last id given out
    notifications, \* notifications: rows that differ in more than their id
    issued,        \* item ids uuidv4 has returned
    requests,      \* the handler invocations in progress
    answers,       \* the 2xx answers clients hold
    cleanup,       \* where runMigrationAndCleanup is
    restarts

tables == <<users, auctions, proofs, last_id, notifications>>
process == <<issued, requests, answers, cleanup, restarts>>
vars == <<tables, process>>

\* What commitment_hash commits to; keccak256 does not collide.
Commitment == [amount : Amounts, salt : Salts]
Keccak(amount, salt) == [amount |-> amount, salt |-> salt]

ProofIds == 1 .. MaxProofs

AuctionRow ==
    [seller_address         : Wallets,
     starting_price         : Prices,
     current_highest_bid    : Nat \cup {None},
     highest_bidder_address : Wallets \cup {None},
     auction_status         : {"active", "ended"}]

ProofRow ==
    [item_id : Items, bidder_address : Wallets,
     commitment_hash : Commitment, verified : BOOLEAN]

NotificationRow ==
    [user_address : Wallets, item_id : Items,
     notification_type : {"claim_success", "refund_success", "other"}]

ASSUME NullAssumption == None \notin Nat \cup Wallets \cup ProofIds

(***************************************************************************)
(* A request in progress: the await it is suspended at and its locals.     *)
(***************************************************************************)
Idle == [at |-> "idle"]

CreateRequest ==
    [at : {"create:user", "create:insert"},
     wallet : Wallets, item : Items, price : Prices]

StatusRequest ==
    [at : {"status:select", "status:update"},
     wallet : Wallets, item : Items, value : {"active", "ended"}]

StoreRequest ==
    [at : {"store:select", "store:user", "store:insert", "reveal:find"},
     wallet : Wallets, item : Items, hash : Commitment]

RevealRequest ==
    [at : {"reveal:mark", "reveal:read", "reveal:write"},
     wallet : Wallets, item : Items, hash : Commitment, proof : ProofIds]

VerifyRequest ==
    [at : {"verify:select", "verify:update"},
     proof : ProofIds, hash : Commitment]

ItemRequest ==
    [at : {"claim:select", "claim:notify", "refund:select", "refund:notify",
           "notify:user", "notify:insert"},
     wallet : Wallets, item : Items]

Request ==
    {Idle} \cup CreateRequest \cup StatusRequest \cup StoreRequest
           \cup RevealRequest \cup VerifyRequest \cup ItemRequest

Answer ==
    [kind : {"stored"}, wallet : Wallets, item : Items, hash : Commitment]
    \cup
    [kind : {"revealed"}, wallet : Wallets, item : Items, amount : Amounts]

TypeOK ==
    /\ users \subseteq Wallets
    /\ DOMAIN auctions \subseteq issued
    /\ issued \subseteq Items
    /\ \A i \in DOMAIN auctions : auctions[i] \in AuctionRow
    /\ last_id \in 0 .. MaxProofs
    /\ DOMAIN proofs \subseteq 1 .. last_id
    /\ \A id \in DOMAIN proofs : proofs[id] \in ProofRow
    /\ notifications \subseteq NotificationRow
    /\ requests \in [Requests -> Request]
    /\ answers \subseteq Answer
    /\ cleanup \in {"schema", "proofs", "notifications", "auctions", "done"}
    /\ restarts \in 0 .. MaxRestarts

\* An empty table.
NoRows == [k \in {} |-> None]

\* A migrated database without rows, and the process about to start.
Init ==
    /\ users = {}
    /\ auctions = NoRows
    /\ proofs = NoRows
    /\ last_id = 0
    /\ notifications = {}
    /\ issued = {}
    /\ requests = [r \in Requests |-> Idle]
    /\ answers = {}
    /\ cleanup = "schema"
    /\ restarts = 0

-----------------------------------------------------------------------------
(***************************************************************************)
(* The event loop and the database.                                        *)
(***************************************************************************)

\* Whether a handler may begin.
MayBegin ==
    DbType = "sqlite" =>
        /\ cleanup = "done"
        /\ \A r \in Requests : requests[r] = Idle

Begin(r, request) ==
    /\ requests[r] = Idle
    /\ MayBegin
    /\ requests' = [requests EXCEPT ![r] = request]
    /\ UNCHANGED <<tables, answers, cleanup, restarts>>

GoTo(r, step) == requests' = [requests EXCEPT ![r].at = step]
Respond(r) == requests' = [requests EXCEPT ![r] = Idle]

\* INSERT of a row with a key the table does not hold yet.
Insert(table, key, row) ==
    [k \in DOMAIN table \cup {key} |-> IF k = key THEN row ELSE table[k]]

\* Variant: the connection does not switch foreign keys on.
ForeignKeysHold_Off(user, items) == TRUE

\* FOREIGN KEY ... REFERENCES users_profile / auctions_metadata, on insert;
\* items are the item ids the new row refers to.
ForeignKeysHold(user, items) ==
    /\ user \in users
    /\ items \subseteq DOMAIN auctions

\* INSERT INTO users_profile ... ON CONFLICT DO NOTHING, first in a handler
\* that inserts a row which refers to the wallet.
EnsureUser(r, at, next) ==
    /\ requests[r].at = at
    /\ users' = users \cup {requests[r].wallet}
    /\ GoTo(r, next)
    /\ UNCHANGED <<auctions, proofs, last_id, notifications,
                   issued, answers, cleanup, restarts>>

\* A notification row, or the 500 answer to a foreign key violation.
InsertNotification(r, at, type) ==
    /\ requests[r].at = at
    /\ notifications' =
           IF ForeignKeysHold(requests[r].wallet, {})
             THEN notifications \cup
                      {[user_address      |-> requests[r].wallet,
                        item_id           |-> requests[r].item,
                        notification_type |-> type]}
             ELSE notifications
    /\ Respond(r)
    /\ UNCHANGED <<users, auctions, proofs, last_id,
                   issued, answers, cleanup, restarts>>

-----------------------------------------------------------------------------
(***************************************************************************)
(* auctionController.createAuction                                         *)
(***************************************************************************)

\* Variant: the price is not required.
CreateAuction_NoPrice(r, wallet, item, price) ==
    /\ item \notin issued
    /\ issued' = issued \cup {item}
    /\ Begin(r, [at |-> "create:user", wallet |-> wallet,
                 item |-> item, price |-> 0])

\* The uuid is drawn before the first await.  A body without a price, or
\* with price 0, is answered 400 at once.
CreateAuction(r, wallet, item, price) ==
    /\ item \notin issued
    /\ issued' = issued \cup {item}
    /\ Begin(r, [at |-> "create:user", wallet |-> wallet,
                 item |-> item, price |-> price])

CreateEnsuresSeller(r) == EnsureUser(r, "create:user", "create:insert")

CreateInserts(r) ==
    /\ requests[r].at = "create:insert"
    /\ auctions' =
           IF ForeignKeysHold(requests[r].wallet, {})
             THEN Insert(auctions, requests[r].item,
                      [seller_address         |-> requests[r].wallet,
                       starting_price         |-> requests[r].price,
                       current_highest_bid    |-> None,
                       highest_bidder_address |-> None,
                       auction_status         |-> "active"])
             ELSE auctions
    /\ Respond(r)
    /\ UNCHANGED <<users, proofs, last_id, notifications,
                   issued, answers, cleanup, restarts>>

(***************************************************************************)
(* auctionController.updateAuctionStatus                                   *)
(***************************************************************************)
UpdateAuctionStatus(r, wallet, item, value) ==
    /\ Begin(r, [at |-> "status:select", wallet |-> wallet,
                 item |-> item, value |-> value])
    /\ UNCHANGED issued

\* 404 without the row, 403 for anybody but the seller.
StatusSelects(r) ==
    /\ requests[r].at = "status:select"
    /\ IF /\ requests[r].item \in DOMAIN auctions
          /\ auctions[requests[r].item].seller_address = requests[r].wallet
         THEN GoTo(r, "status:update")
         ELSE Respond(r)
    /\ UNCHANGED <<tables, issued, answers, cleanup, restarts>>

StatusUpdates(r) ==
    LET i == requests[r].item IN
    /\ requests[r].at = "status:update"
    /\ auctions' =
           IF i \in DOMAIN auctions
             THEN [auctions EXCEPT ![i].auction_status = requests[r].value]
             ELSE auctions
    /\ Respond(r)
    /\ UNCHANGED <<users, proofs, last_id, notifications,
                   issued, answers, cleanup, restarts>>

(***************************************************************************)
(* zkpController.storeZKPProofBackup                                       *)
(***************************************************************************)
StoreProof(r, wallet, item, hash) ==
    /\ Begin(r, [at |-> "store:select", wallet |-> wallet,
                 item |-> item, hash |-> hash])
    /\ UNCHANGED issued

StoreSelects(r) ==
    /\ requests[r].at = "store:select"
    /\ IF requests[r].item \in DOMAIN auctions
         THEN GoTo(r, "store:user")
         ELSE Respond(r)
    /\ UNCHANGED <<tables, issued, answers, cleanup, restarts>>

StoreEnsuresBidder(r) == EnsureUser(r, "store:user", "store:insert")

\* The 201 answer, or 500 when the auction is gone by now or the id column
\* has no further value.
StoreInserts(r) ==
    LET q == requests[r]
        id == last_id + 1
    IN
    /\ q.at = "store:insert"
    /\ Respond(r)
    /\ IF ForeignKeysHold(q.wallet, {q.item}) /\ id \in ProofIds
         THEN /\ last_id' = id
              /\ proofs' = Insert(proofs, id,
                     [item_id |-> q.item, bidder_address |-> q.wallet,
                      commitment_hash |-> q.hash, verified |-> FALSE])
              /\ answers' = answers \cup
                     {[kind |-> "stored", wallet |-> q.wallet,
                       item |-> q.item, hash |-> q.hash]}
         ELSE UNCHANGED <<last_id, proofs, answers>>
    /\ UNCHANGED <<users, auctions, notifications, issued, cleanup, restarts>>

(***************************************************************************)
(* auctionController.revealBid                                             *)
(***************************************************************************)

\* An opening that does not hash to the commitment is answered 400 at once.
RevealBid(r, wallet, item, amount, salt, hash) ==
    /\ Keccak(amount, salt) = hash
    /\ Begin(r, [at |-> "reveal:find", wallet |-> wallet, item |-> item,
                 hash |-> hash])
    /\ UNCHANGED issued

\* Variant: the commitment is looked up whoever stored it.
ProofsOf_AnyBidder(wallet, item, hash) ==
    {id \in DOMAIN proofs : /\ proofs[id].item_id = item
                            /\ proofs[id].commitment_hash = hash}

\* The rows the lookup of a commitment finds.
ProofsOf(wallet, item, hash) ==
    {id \in DOMAIN proofs : /\ proofs[id].item_id = item
                            /\ proofs[id].bidder_address = wallet
                            /\ proofs[id].commitment_hash = hash}

\* SELECT without ORDER BY: rows[0] is any of the rows.
RevealFindsProof(r) ==
    LET q == requests[r]
        found == ProofsOf(q.wallet, q.item, q.hash)
    IN
    /\ q.at = "reveal:find"
    /\ IF found = {}
         THEN Respond(r)
         ELSE \E id \in found :
                  requests' = [requests EXCEPT ![r] =
                      [at |-> "reveal:mark", wallet |-> q.wallet,
                       item |-> q.item, hash |-> q.hash, proof |-> id]]
    /\ UNCHANGED <<tables, issued, answers, cleanup, restarts>>

\* UPDATE zkp_proof_backup SET verified WHERE id: no row, no change.
Verify(id) ==
    IF id \in DOMAIN proofs
      THEN [proofs EXCEPT ![id].verified = TRUE]
      ELSE proofs

RevealMarksProof(r) ==
    /\ requests[r].at = "reveal:mark"
    /\ proofs' = Verify(requests[r].proof)
    /\ GoTo(r, "reveal:read")
    /\ UNCHANGED <<users, auctions, last_id, notifications,
                   issued, answers, cleanup, restarts>>

\* current_highest_bid || starting_price.
Price(auction) ==
    IF auction.current_highest_bid \in {None, 0}
      THEN auction.starting_price
      ELSE auction.current_highest_bid

AnswerRevealed(q) ==
    answers' = answers \cup {[kind |-> "revealed", wallet |-> q.wallet,
                              item |-> q.item, amount |-> q.hash.amount]}

\* Variant: the bid is compared with the starting price.
RevealReadsAuction_Starting(r) ==
    LET q == requests[r] IN
    /\ q.at = "reveal:read"
    /\ IF q.item \notin DOMAIN auctions
         THEN Respond(r) /\ UNCHANGED answers
         ELSE IF Rounded(q.hash.amount) > auctions[q.item].starting_price
         THEN GoTo(r, "reveal:write") /\ UNCHANGED answers
         ELSE Respond(r) /\ AnswerRevealed(q)
    /\ UNCHANGED <<tables, issued, cleanup, restarts>>

\* Variant: the bid is compared with the recorded bid only.
RevealReadsAuction_NoStart(r) ==
    LET q == requests[r] IN
    /\ q.at = "reveal:read"
    /\ IF q.item \notin DOMAIN auctions
         THEN Respond(r) /\ UNCHANGED answers
         ELSE IF \/ auctions[q.item].current_highest_bid = None
                 \/ Rounded(q.hash.amount) > auctions[q.item].current_highest_bid
         THEN GoTo(r, "reveal:write") /\ UNCHANGED answers
         ELSE Respond(r) /\ AnswerRevealed(q)
    /\ UNCHANGED <<tables, issued, cleanup, restarts>>

\* Variant: the SELECT is sent again until the auction is there.
RevealReadsAuction_Retry(r) ==
    LET q == requests[r] IN
    /\ q.at = "reveal:read"
    /\ IF q.item \notin DOMAIN auctions
         THEN UNCHANGED <<requests, answers>>
         ELSE IF Rounded(q.hash.amount) > Price(auctions[q.item])
         THEN GoTo(r, "reveal:write") /\ UNCHANGED answers
         ELSE Respond(r) /\ AnswerRevealed(q)
    /\ UNCHANGED <<tables, issued, cleanup, restarts>>

\* The comparison is made here, with the row as it is now.
RevealReadsAuction(r) ==
    LET q == requests[r] IN
    /\ q.at = "reveal:read"
    /\ IF q.item \notin DOMAIN auctions
         THEN Respond(r) /\ UNCHANGED answers
         ELSE IF Rounded(q.hash.amount) > Price(auctions[q.item])
         THEN GoTo(r, "reveal:write") /\ UNCHANGED answers
         ELSE Respond(r) /\ AnswerRevealed(q)
    /\ UNCHANGED <<tables, issued, cleanup, restarts>>

RevealWritesHighest(r) ==
    LET q == requests[r] IN
    /\ q.at = "reveal:write"
    /\ auctions' =
           IF q.item \in DOMAIN auctions
             THEN [auctions EXCEPT
                       ![q.item].current_highest_bid = Rounded(q.hash.amount),
                       ![q.item].highest_bidder_address = q.wallet]
             ELSE auctions
    /\ Respond(r)
    /\ AnswerRevealed(q)
    /\ UNCHANGED <<users, proofs, last_id, notifications,
                   issued, cleanup, restarts>>

(***************************************************************************)
(* zkpController.verifyZKPProof                                            *)
(***************************************************************************)
VerifyZKPProof(r, id, hash) ==
    /\ Begin(r, [at |-> "verify:select", proof |-> id, hash |-> hash])
    /\ UNCHANGED issued

VerifySelects(r) ==
    LET q == requests[r] IN
    /\ q.at = "verify:select"
    /\ IF q.proof \in DOMAIN proofs /\ proofs[q.proof].commitment_hash = q.hash
         THEN GoTo(r, "verify:update")
         ELSE Respond(r)
    /\ UNCHANGED <<tables, issued, answers, cleanup, restarts>>

\* verified is an INTEGER column: Postgres refuses SET verified = TRUE.
VerifyUpdates(r) ==
    /\ requests[r].at = "verify:update"
    /\ proofs' = IF DbType = "sqlite" THEN Verify(requests[r].proof) ELSE proofs
    /\ Respond(r)
    /\ UNCHANGED <<users, auctions, last_id, notifications,
                   issued, answers, cleanup, restarts>>

(***************************************************************************)
(* auctionController.claimAuctionAsset and refundCollateral.  Neither      *)
(* looks at auction_status, end_time or what was claimed before.           *)
(***************************************************************************)
ClaimAuctionAsset(r, wallet, item) ==
    /\ Begin(r, [at |-> "claim:select", wallet |-> wallet, item |-> item])
    /\ UNCHANGED issued

\* Variant: anybody may claim once there is a highest bid.
ClaimSelects_AnyBidder(r) ==
    LET q == requests[r] IN
    /\ q.at = "claim:select"
    /\ IF /\ q.item \in DOMAIN auctions
          /\ auctions[q.item].highest_bidder_address # None
         THEN GoTo(r, "claim:notify")
         ELSE Respond(r)
    /\ UNCHANGED <<tables, issued, answers, cleanup, restarts>>

ClaimSelects(r) ==
    LET q == requests[r] IN
    /\ q.at = "claim:select"
    /\ IF /\ q.item \in DOMAIN auctions
          /\ auctions[q.item].highest_bidder_address = q.wallet
         THEN GoTo(r, "claim:notify")
         ELSE Respond(r)
    /\ UNCHANGED <<tables, issued, answers, cleanup, restarts>>

ClaimNotifies(r) == InsertNotification(r, "claim:notify", "claim_success")

RefundCollateral(r, wallet, item) ==
    /\ Begin(r, [at |-> "refund:select", wallet |-> wallet, item |-> item])
    /\ UNCHANGED issued

RefundSelects(r) ==
    LET q == requests[r] IN
    /\ q.at = "refund:select"
    /\ IF /\ q.item \in DOMAIN auctions
          /\ auctions[q.item].highest_bidder_address # q.wallet
         THEN GoTo(r, "refund:notify")
         ELSE Respond(r)
    /\ UNCHANGED <<tables, issued, answers, cleanup, restarts>>

RefundNotifies(r) == InsertNotification(r, "refund:notify", "refund_success")

(***************************************************************************)
(* notificationController.createNotification, for any user named in the    *)
(* body.  is_read is an INTEGER column: Postgres refuses the FALSE of the  *)
(* INSERT, and keeps the user row of the statement before.                 *)
(***************************************************************************)
CreateNotification(r, wallet, item) ==
    /\ Begin(r, [at |-> "notify:user", wallet |-> wallet, item |-> item])
    /\ UNCHANGED issued

NotifyEnsuresUser(r) == EnsureUser(r, "notify:user", "notify:insert")

NotifyInserts(r) ==
    \/ DbType = "sqlite" /\ InsertNotification(r, "notify:insert", "other")
    \/ /\ DbType = "postgres"
       /\ requests[r].at = "notify:insert"
       /\ Respond(r)
       /\ UNCHANGED <<tables, issued, answers, cleanup, restarts>>

-----------------------------------------------------------------------------
(***************************************************************************)
(* db/auto-migrate.js, run by index.js at every start, after app.listen.   *)
(***************************************************************************)

\* The CREATE TABLE IF NOT EXISTS part, which finds the tables there.  With
\* sqlite it ends the whole function: query() sends PRAGMA table_info to
\* run(), which returns no rows, and `.rows.map` throws into the catch.
MigrateSchema ==
    /\ cleanup = "schema"
    /\ cleanup' = IF DbType = "sqlite" THEN "done" ELSE "proofs"
    /\ UNCHANGED <<tables, issued, requests, answers, restarts>>

CleanProofs ==
    /\ cleanup = "proofs"
    /\ proofs' = NoRows
    /\ cleanup' = "notifications"
    /\ UNCHANGED <<users, auctions, last_id, notifications,
                   issued, requests, answers, restarts>>

CleanNotifications ==
    /\ cleanup = "notifications"
    /\ notifications' = {}
    /\ cleanup' = "auctions"
    /\ UNCHANGED <<users, auctions, proofs, last_id,
                   issued, requests, answers, restarts>>

\* The statement fails as a whole, and the failure is only logged, when a
\* proof row refers to an auction.
CleanAuctions ==
    /\ cleanup = "auctions"
    /\ auctions' = IF proofs = NoRows THEN NoRows ELSE auctions
    /\ cleanup' = "done"
    /\ UNCHANGED <<users, proofs, last_id, notifications,
                   issued, requests, answers, restarts>>

Cleanup == MigrateSchema \/ CleanProofs \/ CleanNotifications \/ CleanAuctions

\* The process ends, whatever it was doing, and is started again.
Restart ==
    /\ restarts < MaxRestarts
    /\ restarts' = restarts + 1
    /\ requests' = [r \in Requests |-> Idle]
    /\ cleanup' = "schema"
    /\ UNCHANGED <<tables, issued, answers>>

-----------------------------------------------------------------------------
\* A client's call of one of the endpoints.
Arrival(r) ==
    \/ \E w \in Wallets, i \in Items :
           \/ "create" \in Calls /\ \E p \in Prices : CreateAuction(r, w, i, p)
           \/ "status" \in Calls /\ \E v \in {"active", "ended"} :
                  UpdateAuctionStatus(r, w, i, v)
           \/ "store" \in Calls /\ \E h \in Commitment : StoreProof(r, w, i, h)
           \/ "reveal" \in Calls /\ \E a \in Amounts, s \in Salts :
                  \E h \in Commitment : RevealBid(r, w, i, a, s, h)
           \/ "claim" \in Calls /\ ClaimAuctionAsset(r, w, i)
           \/ "refund" \in Calls /\ RefundCollateral(r, w, i)
           \/ "notify" \in Calls /\ CreateNotification(r, w, i)
    \/ "verify" \in Calls /\ \E id \in ProofIds, h \in Commitment :
           VerifyZKPProof(r, id, h)

\* The next statement of the handler that runs in r.
Progress(r) ==
    \/ CreateEnsuresSeller(r) \/ CreateInserts(r)
    \/ StatusSelects(r) \/ StatusUpdates(r)
    \/ StoreSelects(r) \/ StoreEnsuresBidder(r) \/ StoreInserts(r)
    \/ RevealFindsProof(r) \/ RevealMarksProof(r)
    \/ RevealReadsAuction(r) \/ RevealWritesHighest(r)
    \/ VerifySelects(r) \/ VerifyUpdates(r)
    \/ ClaimSelects(r) \/ ClaimNotifies(r)
    \/ RefundSelects(r) \/ RefundNotifies(r)
    \/ NotifyEnsuresUser(r) \/ NotifyInserts(r)

Next ==
    \/ \E r \in Requests : Arrival(r) \/ Progress(r)
    \/ Cleanup
    \/ Restart

Spec == Init /\ [][Next]_vars

\* The database answers every statement, and the event loop runs what it
\* answered.  Clients need not call, and the process need not die.
Fairness ==
    /\ \A r \in Requests : WF_vars(Progress(r))
    /\ WF_vars(Cleanup)

FairSpec == Spec /\ Fairness

-----------------------------------------------------------------------------
(***************************************************************************)
(* Properties.                                                             *)
(***************************************************************************)

\* Every row names rows that exist: sellers, bidders and notified users have
\* a profile, stored proofs an auction, whatever the cleanup deletes under a
\* running handler.  highest_bidder_address is no foreign key, and is
\* included: the claim of the highest bidder must find the profile it
\* notifies (auto-migrate.js:42, auctionController.js:396).
RowsReferToRows ==
    /\ \A i \in DOMAIN auctions :
           /\ auctions[i].seller_address \in users
           /\ auctions[i].highest_bidder_address \in users \cup {None}
    /\ \A id \in DOMAIN proofs :
           /\ proofs[id].bidder_address \in users
           /\ proofs[id].item_id \in DOMAIN auctions
    /\ \A n \in notifications : n.user_address \in users

\* The highest bid on record is one its bidder committed to: the server
\* acknowledged the bidder's own commitment to that amount for that auction
\* before, in this run of the process or an earlier one
\* (auctionController.js:290 and 298-309).
HighestWasCommitted ==
    \A i \in DOMAIN auctions :
        auctions[i].highest_bidder_address # None =>
            \E s \in answers :
                /\ s.kind = "stored"
                /\ s.wallet = auctions[i].highest_bidder_address
                /\ s.item = i
                /\ Rounded(s.hash.amount) = auctions[i].current_highest_bid

\* However reveals overwrite each other, the highest bid on record is one
\* reveal's: its amount and its bidder were acknowledged together, above the
\* starting price, and no bidder is on record before (auctionController.js:336).
RecordIsOneReveal ==
    \A i \in DOMAIN auctions :
        LET row == auctions[i] IN
        IF row.highest_bidder_address = None
          THEN row.current_highest_bid = None
          ELSE /\ row.current_highest_bid > row.starting_price
               /\ \E a \in answers :
                      /\ a.kind = "revealed"
                      /\ a.wallet = row.highest_bidder_address
                      /\ a.item = i
                      /\ Rounded(a.amount) = row.current_highest_bid

\* Whoever was told that the asset is claimed had revealed a bid on it
\* (auctionController.js:388): no cleanup, restart or other request between
\* the claim's SELECT and its INSERT lets anybody else through.
ClaimantsRevealed ==
    \A n \in notifications :
        n.notification_type = "claim_success" =>
            \E a \in answers :
                /\ a.kind = "revealed"
                /\ a.wallet = n.user_address
                /\ a.item = n.item_id

\* The amounts clients were told are revealed on an item.
RevealedOn(i) ==
    {Rounded(a.amount) : a \in {b \in answers : b.kind = "revealed"
                                                /\ b.item = i}}

\* The price of an auction is the best of its starting price and all bids
\* the server acknowledged as revealed: none is lost
\* (auctionController.js:320-345).
PriceIsBestReveal ==
    \A i \in DOMAIN auctions :
        LET offers == {auctions[i].starting_price} \cup RevealedOn(i) IN
        /\ Price(auctions[i]) \in offers
        /\ \A a \in offers : Price(auctions[i]) >= a

\* Every request is answered, unless the process dies under it: no step of a
\* handler waits for a row another request or the cleanup took away.
RequestsAnswered ==
    \A r \in Requests : requests[r] # Idle ~> requests[r] = Idle

\* Nobody is told both that the asset of an auction is theirs and that their
\* collateral for it was paid back (auctionController.js:447).
ClaimOrRefund ==
    \A n, m \in notifications :
        /\ n.notification_type = "claim_success"
        /\ m.notification_type = "refund_success"
        /\ n.item_id = m.item_id
        => n.user_address # m.user_address

\* The bids on record and the settlements announced, whatever the ids.
SealedBids ==
    {[item |-> proofs[id].item_id, wallet |-> proofs[id].bidder_address,
      hash |-> proofs[id].commitment_hash] : id \in DOMAIN proofs}

Settlements ==
    {n \in notifications :
        n.notification_type \in {"claim_success", "refund_success"}}

Book == INSTANCE AuctionBook
        WITH sealed <- SealedBids, settled <- Settlements

\* With SQLite every call takes effect at once or not at all, wherever the
\* process dies in the handler: a claim is granted to the highest bidder of
\* that moment, a reveal raises the price it was compared with, and nothing
\* else ever changes a price, a sealed bid or a settlement.
ImplementsAuctionBook == Book!Spec
=============================================================================
