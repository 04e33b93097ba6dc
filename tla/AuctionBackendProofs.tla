------------------------ MODULE AuctionBackendProofs ------------------------
(***************************************************************************)
(* Theorems about AuctionBackend, for both database engines and any number *)
(* of wallets, items, amounts, requests and restarts.                      *)
(***************************************************************************)
EXTENDS AuctionBackend, TLAPS

-----------------------------------------------------------------------------
(***************************************************************************)
(* Requests.  What the position of a handler says about its locals, and    *)
(* what advancing it keeps.                                                *)
(***************************************************************************)

AtCreate == {"create:user", "create:insert"}
AtStatus == {"status:select", "status:update"}
AtStore == {"store:select", "store:user", "store:insert", "reveal:find"}
AtReveal == {"reveal:mark", "reveal:read", "reveal:write"}
AtVerify == {"verify:select", "verify:update"}
AtItem == {"claim:select", "claim:notify", "refund:select", "refund:notify",
           "notify:user", "notify:insert"}

\* A handler at a position of an endpoint has that endpoint's locals.
LEMMA RequestShape ==
  ASSUME NEW q \in Request
  PROVE  /\ q.at \in AtCreate => q \in CreateRequest
         /\ q.at \in AtStatus => q \in StatusRequest
         /\ q.at \in AtStore  => q \in StoreRequest
         /\ q.at \in AtReveal => q \in RevealRequest
         /\ q.at \in AtVerify => q \in VerifyRequest
         /\ q.at \in AtItem   => q \in ItemRequest
BY DEF Request, Idle, CreateRequest, StatusRequest, StoreRequest, RevealRequest,
       VerifyRequest, ItemRequest, AtCreate, AtStatus, AtStore, AtReveal,
       AtVerify, AtItem

\* Moving to another position of the same endpoint keeps the type.
LEMMA GoToType ==
  ASSUME requests \in [Requests -> Request], NEW r \in Requests, NEW step,
         GoTo(r, step),
         \E S \in {AtCreate, AtStatus, AtStore, AtReveal, AtVerify, AtItem} :
             requests[r].at \in S /\ step \in S
  PROVE  requests' \in [Requests -> Request]
<1> DEFINE q == requests[r]
<1>1. [q EXCEPT !.at = step] \in Request
  <2>1. CASE q.at \in AtCreate /\ step \in AtCreate
    BY <2>1, RequestShape DEF CreateRequest, AtCreate, Request
  <2>2. CASE q.at \in AtStatus /\ step \in AtStatus
    BY <2>2, RequestShape DEF StatusRequest, AtStatus, Request
  <2>3. CASE q.at \in AtStore /\ step \in AtStore
    BY <2>3, RequestShape DEF StoreRequest, AtStore, Request
  <2>4. CASE q.at \in AtReveal /\ step \in AtReveal
    BY <2>4, RequestShape DEF RevealRequest, AtReveal, Request
  <2>5. CASE q.at \in AtVerify /\ step \in AtVerify
    BY <2>5, RequestShape DEF VerifyRequest, AtVerify, Request
  <2>6. CASE q.at \in AtItem /\ step \in AtItem
    BY <2>6, RequestShape DEF ItemRequest, AtItem, Request
  <2>7. QED
    BY <2>1, <2>2, <2>3, <2>4, <2>5, <2>6
<1>2. requests' = [requests EXCEPT ![r] = [q EXCEPT !.at = step]]
  BY DEF GoTo
<1>3. QED
  BY <1>1, <1>2

\* Responding keeps the type.
LEMMA RespondType ==
  ASSUME requests \in [Requests -> Request], NEW r \in Requests, Respond(r)
  PROVE  requests' \in [Requests -> Request]
BY DEF Respond, Request

-----------------------------------------------------------------------------
(***************************************************************************)
(* Frames: which statements touch which table.                             *)
(***************************************************************************)

\* Beginning a handler touches no table.
LEMMA ArrivalFrame ==
  ASSUME NEW r \in Requests, Arrival(r)
  PROVE  UNCHANGED <<tables, answers, cleanup, restarts>>
BY DEF Arrival, CreateAuction, UpdateAuctionStatus, StoreProof, RevealBid,
       VerifyZKPProof, ClaimAuctionAsset, RefundCollateral, CreateNotification,
       Begin

\* The statements by what they may write.
Selects(r) ==
    \/ StatusSelects(r) \/ StoreSelects(r) \/ RevealFindsProof(r)
    \/ VerifySelects(r) \/ ClaimSelects(r) \/ RefundSelects(r)

EnsuresUser(r) ==
    \/ EnsureUser(r, "create:user", "create:insert")
    \/ EnsureUser(r, "store:user", "store:insert")
    \/ EnsureUser(r, "notify:user", "notify:insert")

WritesAuction(r) ==
    CreateInserts(r) \/ StatusUpdates(r) \/ RevealWritesHighest(r)

WritesProof(r) ==
    StoreInserts(r) \/ RevealMarksProof(r) \/ VerifyUpdates(r)

Notifies(r) ==
    \/ InsertNotification(r, "claim:notify", "claim_success")
    \/ InsertNotification(r, "refund:notify", "refund_success")
    \/ InsertNotification(r, "notify:insert", "other")

NotifyFails(r) ==
    /\ requests[r].at = "notify:insert"
    /\ Respond(r)
    /\ UNCHANGED <<tables, issued, answers, cleanup, restarts>>

LEMMA ProgressCases ==
  ASSUME NEW r \in Requests, Progress(r)
  PROVE  \/ Selects(r) \/ EnsuresUser(r) \/ WritesAuction(r) \/ WritesProof(r)
         \/ Notifies(r) \/ NotifyFails(r) \/ RevealReadsAuction(r)
BY DEF Progress, Selects, EnsuresUser, WritesAuction, WritesProof, Notifies,
       NotifyFails, CreateEnsuresSeller, StoreEnsuresBidder, NotifyEnsuresUser,
       ClaimNotifies, RefundNotifies, NotifyInserts

LEMMA SelectsFrame ==
  ASSUME NEW r \in Requests, Selects(r)
  PROVE  UNCHANGED <<tables, issued, answers, cleanup, restarts>>
BY DEF Selects, StatusSelects, StoreSelects, RevealFindsProof, VerifySelects,
       ClaimSelects, RefundSelects

LEMMA EnsuresUserFrame ==
  ASSUME NEW r \in Requests, EnsuresUser(r)
  PROVE  UNCHANGED <<auctions, proofs, last_id, notifications,
                     issued, answers, cleanup, restarts>>
BY DEF EnsuresUser, EnsureUser

LEMMA WritesAuctionFrame ==
  ASSUME NEW r \in Requests, WritesAuction(r)
  PROVE  UNCHANGED <<users, proofs, last_id, notifications,
                     issued, cleanup, restarts>>
BY DEF WritesAuction, CreateInserts, StatusUpdates, RevealWritesHighest

LEMMA WritesProofFrame ==
  ASSUME NEW r \in Requests, WritesProof(r)
  PROVE  UNCHANGED <<users, auctions, notifications, issued, cleanup, restarts>>
BY DEF WritesProof, StoreInserts, RevealMarksProof, VerifyUpdates

LEMMA NotifiesFrame ==
  ASSUME NEW r \in Requests, Notifies(r)
  PROVE  UNCHANGED <<users, auctions, proofs, last_id,
                     issued, answers, cleanup, restarts>>
BY DEF Notifies, InsertNotification

LEMMA CleanupFrame ==
  ASSUME Cleanup
  PROVE  UNCHANGED <<users, last_id, issued, requests, answers, restarts>>
BY DEF Cleanup, MigrateSchema, CleanProofs, CleanNotifications, CleanAuctions,
       tables

LEMMA StepCases ==
  ASSUME [Next]_vars
  PROVE  \/ \E r \in Requests :
                \/ Arrival(r) \/ Selects(r) \/ EnsuresUser(r)
                \/ WritesAuction(r) \/ WritesProof(r) \/ Notifies(r)
                \/ NotifyFails(r) \/ RevealReadsAuction(r)
         \/ Cleanup
         \/ Restart
         \/ UNCHANGED vars
<1>1. CASE \E r \in Requests : Arrival(r) \/ Progress(r)
  BY <1>1, ProgressCases
<1>2. CASE Cleanup \/ Restart \/ UNCHANGED vars
  BY <1>2
<1>3. QED
  BY <1>1, <1>2 DEF Next

-----------------------------------------------------------------------------
(***************************************************************************)
(* Types.                                                                  *)
(***************************************************************************)

LEMMA ArrivalTypesRequests ==
  ASSUME TypeOK, NEW r \in Requests, Arrival(r)
  PROVE  requests' \in [Requests -> Request]
<1>1. ASSUME NEW q \in Request, Begin(r, q)
      PROVE  requests' \in [Requests -> Request]
  BY <1>1 DEF Begin, TypeOK
<1>2. ASSUME NEW w \in Wallets, NEW i \in Items, NEW p \in Prices,
             CreateAuction(r, w, i, p)
      PROVE  requests' \in [Requests -> Request]
  BY <1>1, <1>2 DEF CreateAuction, Request, CreateRequest
<1>3. ASSUME NEW w \in Wallets, NEW i \in Items, NEW v \in {"active", "ended"},
             UpdateAuctionStatus(r, w, i, v)
      PROVE  requests' \in [Requests -> Request]
  BY <1>1, <1>3 DEF UpdateAuctionStatus, Request, StatusRequest
<1>4. ASSUME NEW w \in Wallets, NEW i \in Items, NEW h \in Commitment,
             StoreProof(r, w, i, h)
      PROVE  requests' \in [Requests -> Request]
  BY <1>1, <1>4 DEF StoreProof, Request, StoreRequest
<1>5. ASSUME NEW w \in Wallets, NEW i \in Items, NEW h \in Commitment,
             NEW a \in Amounts, NEW s \in Salts, RevealBid(r, w, i, a, s, h)
      PROVE  requests' \in [Requests -> Request]
  BY <1>1, <1>5 DEF RevealBid, Request, StoreRequest
<1>6. ASSUME NEW w \in Wallets, NEW i \in Items,
             \/ ClaimAuctionAsset(r, w, i)
             \/ RefundCollateral(r, w, i)
             \/ CreateNotification(r, w, i)
      PROVE  requests' \in [Requests -> Request]
  BY <1>1, <1>6 DEF ClaimAuctionAsset, RefundCollateral, CreateNotification,
                    Request, ItemRequest
<1>7. ASSUME NEW id \in ProofIds, NEW h \in Commitment, VerifyZKPProof(r, id, h)
      PROVE  requests' \in [Requests -> Request]
  BY <1>1, <1>7 DEF VerifyZKPProof, Request, VerifyRequest
<1>8. QED
  BY <1>2, <1>3, <1>4, <1>5, <1>6, <1>7 DEF Arrival

LEMMA SelectsTypesRequests ==
  ASSUME TypeOK, NEW r \in Requests, Selects(r)
  PROVE  requests' \in [Requests -> Request]
<1>1. requests \in [Requests -> Request] /\ requests[r] \in Request
  BY DEF TypeOK
<1>2. CASE StatusSelects(r)
  BY <1>1, <1>2, GoToType, RespondType DEF StatusSelects, AtStatus
<1>3. CASE StoreSelects(r)
  BY <1>1, <1>3, GoToType, RespondType DEF StoreSelects, AtStore
<1>4. CASE RevealFindsProof(r)
  <2> DEFINE q == requests[r]
  <2>1. q \in StoreRequest
    BY <1>1, <1>4, RequestShape DEF RevealFindsProof, AtStore
  <2>2. ASSUME NEW id \in ProofsOf(q.wallet, q.item, q.hash)
        PROVE  [at |-> "reveal:mark", wallet |-> q.wallet, item |-> q.item,
                hash |-> q.hash, proof |-> id] \in Request
    <3>1. id \in DOMAIN proofs
      BY DEF ProofsOf
    <3> id \in ProofIds
      BY <3>1, BackendBounds DEF ProofIds, TypeOK
    <3>2. QED
      BY <2>1 DEF StoreRequest, RevealRequest, Request
  <2>3. QED
    BY <1>1, <1>4, <2>2, RespondType DEF RevealFindsProof
<1>5. CASE VerifySelects(r)
  BY <1>1, <1>5, GoToType, RespondType DEF VerifySelects, AtVerify
<1>6. CASE ClaimSelects(r)
  BY <1>1, <1>6, GoToType, RespondType DEF ClaimSelects, AtItem
<1>7. CASE RefundSelects(r)
  BY <1>1, <1>7, GoToType, RespondType DEF RefundSelects, AtItem
<1>8. QED
  BY <1>2, <1>3, <1>4, <1>5, <1>6, <1>7 DEF Selects

LEMMA RequestsTyped ==
  ASSUME TypeOK, [Next]_vars
  PROVE  requests' \in [Requests -> Request]
<1>1. requests \in [Requests -> Request]
  BY DEF TypeOK
<1>2. ASSUME NEW r \in Requests, EnsuresUser(r)
      PROVE  requests' \in [Requests -> Request]
  <2>1. CASE EnsureUser(r, "create:user", "create:insert")
    BY <1>1, <2>1, GoToType DEF EnsureUser, AtCreate
  <2>2. CASE EnsureUser(r, "store:user", "store:insert")
    BY <1>1, <2>2, GoToType DEF EnsureUser, AtStore
  <2>3. CASE EnsureUser(r, "notify:user", "notify:insert")
    BY <1>1, <2>3, GoToType DEF EnsureUser, AtItem
  <2>4. QED
    BY <1>2, <2>1, <2>2, <2>3 DEF EnsuresUser
<1>3. ASSUME NEW r \in Requests, WritesAuction(r)
      PROVE  requests' \in [Requests -> Request]
  <2>1. Respond(r)
    BY <1>3 DEF WritesAuction, CreateInserts, StatusUpdates, RevealWritesHighest
  <2>2. QED
    BY <1>1, <2>1, RespondType
<1>4. ASSUME NEW r \in Requests, WritesProof(r)
      PROVE  requests' \in [Requests -> Request]
  <2>1. CASE StoreInserts(r) \/ VerifyUpdates(r)
    <3>1. Respond(r)
      BY <2>1 DEF StoreInserts, VerifyUpdates
    <3>2. QED
      BY <1>1, <3>1, RespondType
  <2>2. CASE RevealMarksProof(r)
    BY <1>1, <2>2, GoToType DEF RevealMarksProof, AtReveal
  <2>3. QED
    BY <1>4, <2>1, <2>2 DEF WritesProof
<1>5. ASSUME NEW r \in Requests, Notifies(r) \/ NotifyFails(r)
      PROVE  requests' \in [Requests -> Request]
  <2>1. Respond(r)
    BY <1>5 DEF Notifies, NotifyFails, InsertNotification
  <2>2. QED
    BY <1>1, <2>1, RespondType
<1>6. ASSUME NEW r \in Requests, RevealReadsAuction(r)
      PROVE  requests' \in [Requests -> Request]
  <2>1. Respond(r) \/ GoTo(r, "reveal:write")
    BY <1>6 DEF RevealReadsAuction
  <2>2. requests[r].at = "reveal:read"
    BY <1>6 DEF RevealReadsAuction
  <2>3. QED
    BY <1>1, <2>1, <2>2, RespondType, GoToType DEF AtReveal
<1>7. CASE Restart
  BY <1>7 DEF Restart, Request
<1>8. CASE Cleanup \/ UNCHANGED vars
  BY <1>1, <1>8, CleanupFrame DEF vars, process
<1>9. QED
  BY <1>2, <1>3, <1>4, <1>5, <1>6, <1>7, <1>8, StepCases,
     ArrivalTypesRequests, SelectsTypesRequests

\* The tables change by these steps only.
LEMMA TableSteps ==
  ASSUME [Next]_vars
  PROVE  /\ \/ UNCHANGED auctions
            \/ \E r \in Requests : WritesAuction(r)
            \/ CleanAuctions
         /\ \/ UNCHANGED <<proofs, last_id>>
            \/ \E r \in Requests : WritesProof(r)
            \/ CleanProofs
         /\ \/ UNCHANGED notifications
            \/ \E r \in Requests : Notifies(r)
            \/ CleanNotifications
         /\ \/ UNCHANGED users
            \/ \E r \in Requests : EnsuresUser(r)
<1>1. CASE \E r \in Requests : Arrival(r)
  BY <1>1, ArrivalFrame DEF tables
<1>2. CASE \E r \in Requests : Selects(r)
  BY <1>2, SelectsFrame DEF tables
<1>3. CASE \E r \in Requests : EnsuresUser(r)
  BY <1>3, EnsuresUserFrame
<1>4. CASE \E r \in Requests : WritesAuction(r)
  BY <1>4, WritesAuctionFrame
<1>5. CASE \E r \in Requests : WritesProof(r)
  BY <1>5, WritesProofFrame
<1>6. CASE \E r \in Requests : Notifies(r)
  BY <1>6, NotifiesFrame
<1>7. CASE \E r \in Requests : NotifyFails(r) \/ RevealReadsAuction(r)
  BY <1>7 DEF NotifyFails, RevealReadsAuction, tables
<1>8. CASE Cleanup
  BY <1>8 DEF Cleanup, MigrateSchema, CleanProofs, CleanNotifications,
              CleanAuctions, tables
<1>9. CASE Restart \/ UNCHANGED vars
  BY <1>9 DEF Restart, vars, tables
<1>10. QED
  BY <1>1, <1>2, <1>3, <1>4, <1>5, <1>6, <1>7, <1>8, <1>9, StepCases

\* An item id that a createAuction handler inserts under has been issued.
FreshCreates ==
    \A r \in Requests :
        requests[r].at \in AtCreate => requests[r].item \in issued

LEMMA IssuedGrows ==
  ASSUME TypeOK, [Next]_vars
  PROVE  issued \subseteq issued' /\ issued' \subseteq Items
<1>1. ASSUME NEW r \in Requests, Arrival(r)
      PROVE  issued \subseteq issued' /\ issued' \subseteq Items
  <2>1. issued' = issued \/ \E i \in Items : issued' = issued \cup {i}
    BY <1>1 DEF Arrival, CreateAuction, UpdateAuctionStatus, StoreProof,
                RevealBid, VerifyZKPProof, ClaimAuctionAsset,
                RefundCollateral, CreateNotification
  <2>2. QED
    BY <2>1 DEF TypeOK
<1>2. CASE \E r \in Requests : \/ Selects(r) \/ EnsuresUser(r)
                               \/ WritesAuction(r) \/ WritesProof(r)
                               \/ Notifies(r)
  BY <1>2, SelectsFrame, EnsuresUserFrame, WritesAuctionFrame,
     WritesProofFrame, NotifiesFrame DEF TypeOK
<1>3. CASE \E r \in Requests : NotifyFails(r) \/ RevealReadsAuction(r)
  BY <1>3 DEF NotifyFails, RevealReadsAuction, TypeOK
<1>4. CASE Cleanup \/ Restart \/ UNCHANGED vars
  BY <1>4, CleanupFrame DEF Restart, vars, process, TypeOK
<1>5. QED
  BY <1>1, <1>2, <1>3, <1>4, StepCases

-----------------------------------------------------------------------------
(***************************************************************************)
(* Handlers.  How a handler gets where it is.                              *)
(***************************************************************************)

\* One step of the handler in r leaves the other handlers where they are.
LEMMA OthersWait ==
  ASSUME TypeOK, NEW k \in Requests, Arrival(k) \/ Progress(k),
         NEW r \in Requests, r # k
  PROVE  requests'[r] = requests[r]
<1> DEFINE Keeps == requests'[r] = requests[r]
<1>1. requests \in [Requests -> Request]
  BY DEF TypeOK
<1>2. /\ \A q : requests' = [requests EXCEPT ![k] = q] => Keeps
      /\ Respond(k) => Keeps
      /\ \A step : GoTo(k, step) => Keeps
  BY <1>1 DEF Respond, GoTo
<1> HIDE DEF Keeps
<1>3. ASSUME Arrival(k) PROVE Keeps
  BY <1>2, <1>3 DEF Arrival, CreateAuction, UpdateAuctionStatus, StoreProof,
                    RevealBid, VerifyZKPProof, ClaimAuctionAsset,
                    RefundCollateral, CreateNotification, Begin
<1>4. ASSUME Selects(k) PROVE Keeps
  BY <1>2, <1>4 DEF Selects, StatusSelects, StoreSelects, RevealFindsProof,
                    VerifySelects, ClaimSelects, RefundSelects
<1>5. ASSUME EnsuresUser(k) \/ WritesAuction(k) \/ WritesProof(k) PROVE Keeps
  BY <1>2, <1>5 DEF EnsuresUser, EnsureUser, WritesAuction, CreateInserts,
                    StatusUpdates, RevealWritesHighest, WritesProof,
                    StoreInserts, RevealMarksProof, VerifyUpdates
<1>6. ASSUME Notifies(k) \/ NotifyFails(k) \/ RevealReadsAuction(k) PROVE Keeps
  BY <1>2, <1>6 DEF Notifies, InsertNotification, NotifyFails,
                    RevealReadsAuction
<1>7. Keeps
  BY <1>3, <1>4, <1>5, <1>6, ProgressCases
<1>8. QED
  BY <1>7 DEF Keeps

\* A handler is where it was, or has made a step, or died with the process.
LEMMA HandlerSteps ==
  ASSUME TypeOK, [Next]_vars, NEW r \in Requests
  PROVE  \/ requests'[r] = requests[r]
         \/ Arrival(r) \/ Progress(r)
         \/ requests'[r] = Idle
<1>1. CASE \E k \in Requests : Arrival(k) \/ Progress(k)
  BY <1>1, OthersWait
<1>2. CASE Cleanup \/ UNCHANGED vars
  BY <1>2, CleanupFrame DEF vars, process
<1>3. CASE Restart
  BY <1>3 DEF Restart
<1>4. QED
  BY <1>1, <1>2, <1>3 DEF Next

\* The position a new request starts at.
LEMMA ArrivalPosition ==
  ASSUME TypeOK, NEW r \in Requests, Arrival(r)
  PROVE  /\ requests'[r].at \notin AtReveal
         /\ requests'[r].at # "claim:notify"
         /\ requests'[r].at \in AtCreate =>
                requests'[r].item \in issued' \ issued
<1> DEFINE Right == /\ requests'[r].at \notin AtReveal
                    /\ requests'[r].at # "claim:notify"
                    /\ requests'[r].at \in AtCreate =>
                           requests'[r].item \in issued' \ issued
<1>1. ASSUME NEW q, Begin(r, q) PROVE requests'[r] = q
  BY <1>1 DEF Begin, TypeOK
<1>2. ASSUME NEW w \in Wallets, NEW i \in Items, NEW p \in Prices,
             CreateAuction(r, w, i, p)
      PROVE  Right
  BY <1>1, <1>2 DEF CreateAuction, AtReveal, AtCreate
<1>3. ASSUME NEW w \in Wallets, NEW i \in Items, NEW v \in {"active", "ended"},
             UpdateAuctionStatus(r, w, i, v)
      PROVE  Right
  BY <1>1, <1>3 DEF UpdateAuctionStatus, AtReveal, AtCreate
<1>4. ASSUME NEW w \in Wallets, NEW i \in Items, NEW h \in Commitment,
             StoreProof(r, w, i, h)
      PROVE  Right
  BY <1>1, <1>4 DEF StoreProof, AtReveal, AtCreate
<1>5. ASSUME NEW w \in Wallets, NEW i \in Items, NEW h \in Commitment,
             NEW a \in Amounts, NEW s \in Salts, RevealBid(r, w, i, a, s, h)
      PROVE  Right
  BY <1>1, <1>5 DEF RevealBid, AtReveal, AtCreate
<1>6. ASSUME NEW w \in Wallets, NEW i \in Items,
             \/ ClaimAuctionAsset(r, w, i)
             \/ RefundCollateral(r, w, i)
             \/ CreateNotification(r, w, i)
      PROVE  Right
  BY <1>1, <1>6 DEF ClaimAuctionAsset, RefundCollateral, CreateNotification,
                    AtReveal, AtCreate
<1>7. ASSUME NEW id \in ProofIds, NEW h \in Commitment, VerifyZKPProof(r, id, h)
      PROVE  Right
  BY <1>1, <1>7 DEF VerifyZKPProof, AtReveal, AtCreate
<1>8. QED
  BY <1>2, <1>3, <1>4, <1>5, <1>6, <1>7 DEF Arrival

\* The locals stay, from the first statement of an endpoint that matters
\* here to the last.
LEMMA ProgressPosition ==
  ASSUME TypeOK, NEW r \in Requests, Progress(r)
  PROVE  /\ requests'[r].at \in AtCreate =>
                /\ EnsuresUser(r)
                /\ requests[r].at \in AtCreate
                /\ requests'[r].item = requests[r].item
         /\ requests'[r].at \in AtReveal =>
                \/ RevealFindsProof(r) /\ requests'[r].at = "reveal:mark"
                \/ /\ requests[r].at \in AtReveal
                   /\ requests'[r].wallet = requests[r].wallet
                   /\ requests'[r].item = requests[r].item
                   /\ requests'[r].hash = requests[r].hash
         /\ requests'[r].at = "reveal:write" => RevealReadsAuction(r)
         /\ requests'[r].at = "claim:notify" => ClaimSelects(r)
<1> DEFINE Moves(from, to) ==
             /\ requests[r].at = from
             /\ requests'[r] = [requests[r] EXCEPT !.at = to]
<1>1. requests \in [Requests -> Request] /\ requests[r] \in Request
  BY DEF TypeOK
<1>2. ASSUME NEW step, GoTo(r, step)
      PROVE  requests'[r] = [requests[r] EXCEPT !.at = step]
  BY <1>1, <1>2 DEF GoTo
<1>3. ASSUME Respond(r) PROVE requests'[r] = Idle
  BY <1>1, <1>3 DEF Respond
<1>4. \/ requests'[r] = Idle
      \/ Moves("create:user", "create:insert") /\ EnsuresUser(r)
      \/ Moves("status:select", "status:update")
      \/ Moves("store:select", "store:user")
      \/ Moves("store:user", "store:insert")
      \/ Moves("reveal:mark", "reveal:read")
      \/ Moves("reveal:read", "reveal:write") /\ RevealReadsAuction(r)
      \/ Moves("verify:select", "verify:update")
      \/ Moves("claim:select", "claim:notify") /\ ClaimSelects(r)
      \/ Moves("refund:select", "refund:notify")
      \/ Moves("notify:user", "notify:insert")
      \/ RevealFindsProof(r) /\ requests'[r].at = "reveal:mark"
  <2>1. CASE Selects(r)
    <3>1. CASE RevealFindsProof(r)
      BY <1>1, <1>3, <3>1 DEF RevealFindsProof
    <3>2. CASE StatusSelects(r) \/ StoreSelects(r)
      BY <1>2, <1>3, <3>2 DEF StatusSelects, StoreSelects
    <3>3. CASE VerifySelects(r) \/ ClaimSelects(r) \/ RefundSelects(r)
      BY <1>2, <1>3, <3>3 DEF VerifySelects, ClaimSelects, RefundSelects
    <3>4. QED
      BY <2>1, <3>1, <3>2, <3>3 DEF Selects
  <2>2. CASE EnsuresUser(r)
    BY <1>2, <2>2 DEF EnsuresUser, EnsureUser
  <2>3. CASE WritesAuction(r) \/ WritesProof(r)
    BY <1>2, <1>3, <2>3 DEF WritesAuction, CreateInserts, StatusUpdates,
         RevealWritesHighest, WritesProof, StoreInserts, RevealMarksProof,
         VerifyUpdates
  <2>4. CASE Notifies(r) \/ NotifyFails(r) \/ RevealReadsAuction(r)
    BY <1>2, <1>3, <2>4 DEF Notifies, InsertNotification, NotifyFails,
         RevealReadsAuction
  <2>5. QED
    BY <2>1, <2>2, <2>3, <2>4, ProgressCases
<1>5. CASE requests'[r] = Idle
  BY <1>5 DEF Idle, AtCreate, AtReveal
<1>6. CASE Moves("create:user", "create:insert") /\ EnsuresUser(r)
  <2>1. requests[r] \in CreateRequest
    BY <1>1, <1>6, RequestShape DEF AtCreate
  <2>2. QED
    BY <1>6, <2>1 DEF CreateRequest, AtCreate, AtReveal
<1>7. CASE \/ Moves("reveal:mark", "reveal:read")
           \/ Moves("reveal:read", "reveal:write") /\ RevealReadsAuction(r)
  <2>1. requests[r] \in RevealRequest
    BY <1>1, <1>7, RequestShape DEF AtReveal
  <2>2. QED
    BY <1>7, <2>1 DEF RevealRequest, AtCreate, AtReveal
<1>8. CASE RevealFindsProof(r) /\ requests'[r].at = "reveal:mark"
  BY <1>8 DEF AtCreate
<1>9. ASSUME NEW from, NEW to, Moves(from, to),
             to \in AtStatus \cup AtStore \cup AtVerify \cup AtItem,
             from \in AtStatus \cup AtStore \cup AtVerify \cup AtItem
      PROVE  requests'[r].at = to
  <2>1. "at" \in DOMAIN requests[r]
    BY <1>1, <1>9, RequestShape DEF StatusRequest, StoreRequest,
         VerifyRequest, ItemRequest
  <2>2. QED
    BY <1>9, <2>1
<1>10. QED
  BY <1>4, <1>5, <1>6, <1>7, <1>8, <1>9
     DEF AtCreate, AtReveal, AtStatus, AtStore, AtVerify, AtItem

-----------------------------------------------------------------------------
(***************************************************************************)
(* Type correctness.                                                       *)
(***************************************************************************)

LEMMA FreshCreatesKept ==
  ASSUME TypeOK, FreshCreates, [Next]_vars
  PROVE  FreshCreates'
<1> SUFFICES ASSUME NEW r \in Requests, requests'[r].at \in AtCreate
             PROVE  requests'[r].item \in issued'
  BY DEF FreshCreates
<1>1. CASE requests'[r] = requests[r]
  BY <1>1, IssuedGrows DEF FreshCreates
<1>2. CASE Arrival(r)
  BY <1>2, ArrivalPosition
<1>3. CASE Progress(r)
  BY <1>3, ProgressPosition, IssuedGrows DEF FreshCreates
<1>4. CASE requests'[r] = Idle
  BY <1>4 DEF Idle, AtCreate
<1>5. QED
  BY <1>1, <1>2, <1>3, <1>4, HandlerSteps

AuctionsTyped ==
    /\ DOMAIN auctions \subseteq issued
    /\ \A i \in DOMAIN auctions : auctions[i] \in AuctionRow

LEMMA AuctionsKeepType ==
  ASSUME TypeOK, FreshCreates, [Next]_vars
  PROVE  AuctionsTyped'
<1>1. AuctionsTyped /\ issued \subseteq issued'
  BY IssuedGrows DEF AuctionsTyped, TypeOK
<1>2. CASE UNCHANGED auctions
  BY <1>1, <1>2 DEF AuctionsTyped
<1>3. CASE CleanAuctions
  BY <1>1, <1>3 DEF CleanAuctions, AuctionsTyped, NoRows
<1>4. ASSUME NEW r \in Requests, CreateInserts(r)
      PROVE  AuctionsTyped'
  <2> DEFINE row == [seller_address         |-> requests[r].wallet,
                     starting_price         |-> requests[r].price,
                     current_highest_bid    |-> None,
                     highest_bidder_address |-> None,
                     auction_status         |-> "active"]
  <2>1. requests[r] \in Request /\ requests[r].at \in AtCreate
    BY <1>4 DEF TypeOK, CreateInserts, AtCreate
  <2>2. requests[r] \in CreateRequest /\ requests[r].item \in issued
    BY <2>1, RequestShape DEF FreshCreates
  <2>3. row \in AuctionRow
    BY <2>2 DEF CreateRequest, AuctionRow
  <2>4. \/ auctions' = auctions
        \/ auctions' = Insert(auctions, requests[r].item, row)
    BY <1>4 DEF CreateInserts
  <2> HIDE DEF row
  <2>5. QED
    BY <1>1, <2>2, <2>3, <2>4 DEF AuctionsTyped, Insert
<1>5. ASSUME NEW r \in Requests, StatusUpdates(r)
      PROVE  AuctionsTyped'
  <2>1. requests[r] \in Request /\ requests[r].at \in AtStatus
    BY <1>5 DEF TypeOK, StatusUpdates, AtStatus
  <2>2. requests[r].value \in {"active", "ended"}
    BY <2>1, RequestShape DEF StatusRequest
  <2>3. \/ auctions' = auctions
        \/ /\ requests[r].item \in DOMAIN auctions
           /\ auctions' = [auctions EXCEPT
                ![requests[r].item] = [@ EXCEPT
                    !.auction_status = requests[r].value]]
    BY <1>5 DEF StatusUpdates
  <2>4. ASSUME NEW i \in DOMAIN auctions
        PROVE  [auctions[i] EXCEPT !.auction_status = requests[r].value]
                   \in AuctionRow
    BY <1>1, <2>2 DEF AuctionsTyped, AuctionRow
  <2>5. QED
    BY <1>1, <2>3, <2>4 DEF AuctionsTyped
<1>6. ASSUME NEW r \in Requests, RevealWritesHighest(r)
      PROVE  AuctionsTyped'
  <2> DEFINE q == requests[r]
             bid == Rounded(q.hash.amount)
  <2>1. q \in Request /\ q.at \in AtReveal
    BY <1>6 DEF TypeOK, RevealWritesHighest, AtReveal
  <2>2. q.wallet \in Wallets /\ q.hash \in Commitment
    BY <2>1, RequestShape DEF RevealRequest
  <2>3. bid \in Nat
    BY <2>2, BackendAmounts DEF Commitment
  <2>4. \/ auctions' = auctions
        \/ /\ q.item \in DOMAIN auctions
           /\ auctions' = [auctions EXCEPT
                ![q.item] = [@ EXCEPT !.current_highest_bid = bid,
                                      !.highest_bidder_address = q.wallet]]
    BY <1>6 DEF RevealWritesHighest
  <2> HIDE DEF bid
  <2>5. ASSUME NEW i \in DOMAIN auctions
        PROVE  [auctions[i] EXCEPT !.current_highest_bid = bid,
                                   !.highest_bidder_address = q.wallet]
                   \in AuctionRow
    BY <1>1, <2>2, <2>3 DEF AuctionsTyped, AuctionRow
  <2>6. QED
    BY <1>1, <2>4, <2>5 DEF AuctionsTyped
<1>7. QED
  BY <1>2, <1>3, <1>4, <1>5, <1>6, TableSteps DEF WritesAuction

ProofsTyped ==
    /\ last_id \in 0 .. MaxProofs
    /\ DOMAIN proofs \subseteq 1 .. last_id
    /\ \A id \in DOMAIN proofs : proofs[id] \in ProofRow

\* Setting verified keeps the rows.
LEMMA VerifyKeeps ==
  ASSUME ProofsTyped, NEW id
  PROVE  /\ DOMAIN Verify(id) = DOMAIN proofs
         /\ \A k \in DOMAIN proofs :
                /\ Verify(id)[k] \in ProofRow
                /\ Verify(id)[k].item_id = proofs[k].item_id
                /\ Verify(id)[k].bidder_address = proofs[k].bidder_address
                /\ Verify(id)[k].commitment_hash = proofs[k].commitment_hash
<1>1. CASE id \in DOMAIN proofs
  <2>1. Verify(id) = [proofs EXCEPT ![id] = [@ EXCEPT !.verified = TRUE]]
    BY <1>1 DEF Verify
  <2>2. ASSUME NEW k \in DOMAIN proofs
        PROVE  LET row == [proofs[k] EXCEPT !.verified = TRUE]
               IN  /\ row \in ProofRow
                   /\ row.item_id = proofs[k].item_id
                   /\ row.bidder_address = proofs[k].bidder_address
                   /\ row.commitment_hash = proofs[k].commitment_hash
    BY DEF ProofsTyped, ProofRow
  <2>3. QED
    BY <2>1, <2>2 DEF ProofsTyped
<1>2. CASE id \notin DOMAIN proofs
  BY <1>2 DEF Verify, ProofsTyped
<1>3. QED
  BY <1>1, <1>2

LEMMA ProofsKeepType ==
  ASSUME TypeOK, [Next]_vars
  PROVE  ProofsTyped'
<1>1. ProofsTyped
  BY DEF ProofsTyped, TypeOK
<1>2. CASE UNCHANGED <<proofs, last_id>>
  BY <1>1, <1>2 DEF ProofsTyped
<1>3. CASE CleanProofs
  BY <1>1, <1>3 DEF CleanProofs, ProofsTyped, NoRows
<1>4. ASSUME NEW r \in Requests, StoreInserts(r)
      PROVE  ProofsTyped'
  <2> DEFINE row == [item_id         |-> requests[r].item,
                     bidder_address  |-> requests[r].wallet,
                     commitment_hash |-> requests[r].hash,
                     verified        |-> FALSE]
  <2>1. requests[r] \in Request /\ requests[r].at \in AtStore
    BY <1>4 DEF TypeOK, StoreInserts, AtStore
  <2>2. row \in ProofRow
    BY <2>1, RequestShape DEF StoreRequest, ProofRow
  <2>3. \/ UNCHANGED <<proofs, last_id>>
        \/ /\ last_id + 1 \in ProofIds
           /\ last_id' = last_id + 1
           /\ proofs' = Insert(proofs, last_id + 1, row)
    BY <1>4 DEF StoreInserts
  <2> HIDE DEF row
  <2>4. CASE UNCHANGED <<proofs, last_id>>
    BY <1>2, <2>4
  <2>5. CASE /\ last_id + 1 \in ProofIds
             /\ last_id' = last_id + 1
             /\ proofs' = Insert(proofs, last_id + 1, row)
    <3>1. last_id' \in 0 .. MaxProofs /\ 1 .. last_id' = (1 .. last_id) \cup {last_id + 1}
      BY <1>1, <2>5, BackendBounds DEF ProofsTyped, ProofIds
    <3>2. DOMAIN proofs' = DOMAIN proofs \cup {last_id + 1}
      BY <2>5 DEF Insert
    <3>3. \A k \in DOMAIN proofs' : proofs'[k] \in ProofRow
      BY <1>1, <2>2, <2>5 DEF ProofsTyped, Insert
    <3>4. QED
      BY <1>1, <3>1, <3>2, <3>3 DEF ProofsTyped
  <2>6. QED
    BY <2>3, <2>4, <2>5
<1>5. ASSUME NEW r \in Requests, RevealMarksProof(r) \/ VerifyUpdates(r)
      PROVE  ProofsTyped'
  <2>1. UNCHANGED last_id
    BY <1>5 DEF RevealMarksProof, VerifyUpdates
  <2>2. proofs' = proofs \/ proofs' = Verify(requests[r].proof)
    BY <1>5 DEF RevealMarksProof, VerifyUpdates
  <2>3. QED
    BY <1>1, <2>1, <2>2, VerifyKeeps DEF ProofsTyped
<1>6. QED
  BY <1>2, <1>3, <1>4, <1>5, TableSteps DEF WritesProof

LEMMA UsersKeepType ==
  ASSUME TypeOK, [Next]_vars
  PROVE  users \subseteq users' /\ users' \subseteq Wallets
<1>1. ASSUME NEW r \in Requests, EnsuresUser(r)
      PROVE  users \subseteq users' /\ users' \subseteq Wallets
  <2>1. /\ requests[r] \in Request
        /\ requests[r].at \in {"create:user", "store:user", "notify:user"}
        /\ users' = users \cup {requests[r].wallet}
    BY <1>1 DEF EnsuresUser, EnsureUser, TypeOK
  <2>2. requests[r].wallet \in Wallets
    BY <2>1, RequestShape DEF AtCreate, AtStore, AtItem, CreateRequest,
                              StoreRequest, ItemRequest
  <2>3. QED
    BY <2>1, <2>2 DEF TypeOK
<1>2. QED
  BY <1>1, TableSteps DEF TypeOK

LEMMA NotificationsKeepType ==
  ASSUME TypeOK, [Next]_vars
  PROVE  notifications' \subseteq NotificationRow
<1>1. ASSUME NEW r \in Requests, Notifies(r)
      PROVE  notifications' \subseteq NotificationRow
  <2>1. /\ requests[r] \in Request
        /\ requests[r].at \in AtItem
    BY <1>1 DEF Notifies, InsertNotification, TypeOK, AtItem
  <2>2. requests[r].wallet \in Wallets /\ requests[r].item \in Items
    BY <2>1, RequestShape DEF ItemRequest
  <2>3. PICK type \in {"claim_success", "refund_success", "other"} :
           notifications' \subseteq notifications \cup
               {[user_address      |-> requests[r].wallet,
                 item_id           |-> requests[r].item,
                 notification_type |-> type]}
    BY <1>1 DEF Notifies, InsertNotification
  <2>4. QED
    BY <2>2, <2>3 DEF NotificationRow, TypeOK
<1>2. QED
  BY <1>1, TableSteps DEF CleanNotifications, TypeOK

\* The answer a handler gives, in the words of the client that keeps it.
Stored(q) ==
    [kind |-> "stored", wallet |-> q.wallet, item |-> q.item, hash |-> q.hash]
Revealed(q) ==
    [kind |-> "revealed", wallet |-> q.wallet, item |-> q.item,
     amount |-> q.hash.amount]

\* Clients keep their answers, and gain one at two places.
LEMMA AnswerSteps ==
  ASSUME [Next]_vars
  PROVE  \/ UNCHANGED answers
         \/ \E r \in Requests :
                /\ StoreInserts(r)
                /\ answers' = answers \cup {Stored(requests[r])}
         \/ \E r \in Requests :
                /\ requests[r].at \in AtReveal
                /\ answers' = answers \cup {Revealed(requests[r])}
<1>1. ASSUME NEW r \in Requests, WritesAuction(r) \/ RevealReadsAuction(r)
      PROVE  \/ UNCHANGED answers
             \/ /\ requests[r].at \in AtReveal
                /\ answers' = answers \cup {Revealed(requests[r])}
  BY <1>1 DEF WritesAuction, CreateInserts, StatusUpdates,
              RevealWritesHighest, RevealReadsAuction, AnswerRevealed,
              Revealed, AtReveal
<1>2. ASSUME NEW r \in Requests, WritesProof(r)
      PROVE  \/ UNCHANGED answers
             \/ /\ StoreInserts(r)
                /\ answers' = answers \cup {Stored(requests[r])}
  <2>1. CASE StoreInserts(r)
    BY <2>1 DEF StoreInserts, Stored
  <2>2. CASE RevealMarksProof(r) \/ VerifyUpdates(r)
    BY <2>2 DEF RevealMarksProof, VerifyUpdates
  <2>3. QED
    BY <1>2, <2>1, <2>2 DEF WritesProof
<1>3. CASE \E r \in Requests : \/ Arrival(r) \/ Selects(r) \/ EnsuresUser(r)
                               \/ Notifies(r) \/ NotifyFails(r)
  BY <1>3, ArrivalFrame, SelectsFrame, EnsuresUserFrame, NotifiesFrame
     DEF NotifyFails
<1>4. CASE Cleanup \/ Restart \/ UNCHANGED vars
  BY <1>4, CleanupFrame DEF Restart, vars, process
<1>5. QED
  BY <1>1, <1>2, <1>3, <1>4, StepCases

LEMMA AnswersKeepType ==
  ASSUME TypeOK, [Next]_vars
  PROVE  answers \subseteq answers' /\ answers' \subseteq Answer
<1>1. ASSUME NEW r \in Requests, StoreInserts(r)
      PROVE  Stored(requests[r]) \in Answer
  <2>1. requests[r] \in Request /\ requests[r].at \in AtStore
    BY <1>1 DEF StoreInserts, AtStore, TypeOK
  <2>2. QED
    BY <2>1, RequestShape DEF StoreRequest, Stored, Answer
<1>2. ASSUME NEW r \in Requests, requests[r].at \in AtReveal
      PROVE  Revealed(requests[r]) \in Answer
  <2>1. requests[r] \in RevealRequest
    BY <1>2, RequestShape DEF TypeOK
  <2>2. /\ requests[r].wallet \in Wallets
        /\ requests[r].item \in Items
        /\ requests[r].hash.amount \in Amounts
    BY <2>1 DEF RevealRequest, Commitment
  <2>3. QED
    BY <2>2 DEF Revealed, Answer
<1>3. answers \subseteq Answer
  BY DEF TypeOK
<1>4. QED
  BY <1>1, <1>2, <1>3, AnswerSteps

LEMMA ProcessKeepsType ==
  ASSUME TypeOK, [Next]_vars
  PROVE  /\ cleanup' \in {"schema", "proofs", "notifications", "auctions",
                          "done"}
         /\ restarts' \in 0 .. MaxRestarts
<1>1. CASE \E r \in Requests : Arrival(r)
  BY <1>1, ArrivalFrame DEF TypeOK
<1>2. CASE \E r \in Requests : \/ Selects(r) \/ EnsuresUser(r)
                               \/ WritesAuction(r) \/ WritesProof(r)
                               \/ Notifies(r)
  BY <1>2, SelectsFrame, EnsuresUserFrame, WritesAuctionFrame,
     WritesProofFrame, NotifiesFrame DEF TypeOK
<1>3. CASE \E r \in Requests : NotifyFails(r) \/ RevealReadsAuction(r)
  BY <1>3 DEF NotifyFails, RevealReadsAuction, TypeOK
<1>4. CASE Cleanup
  BY <1>4 DEF Cleanup, MigrateSchema, CleanProofs, CleanNotifications,
              CleanAuctions, TypeOK
<1>5. CASE Restart
  BY <1>5, BackendBounds DEF Restart, TypeOK
<1>6. CASE UNCHANGED vars
  BY <1>6 DEF vars, process, TypeOK
<1>7. QED
  BY <1>1, <1>2, <1>3, <1>4, <1>5, <1>6, StepCases

TypeInv == TypeOK /\ FreshCreates

LEMMA TypeInvInit == Init => TypeInv
<1> SUFFICES ASSUME Init PROVE TypeInv
  OBVIOUS
<1>1. requests \in [Requests -> Request]
  BY DEF Init, Request
<1>2. FreshCreates
  BY DEF Init, Idle, FreshCreates, AtCreate
<1>3. QED
  BY <1>1, <1>2, BackendBounds DEF Init, TypeInv, TypeOK, NoRows

LEMMA TypeInvKept == TypeInv /\ [Next]_vars => TypeInv'
<1> SUFFICES ASSUME TypeOK, FreshCreates, [Next]_vars PROVE TypeInv'
  BY DEF TypeInv
<1>1. FreshCreates' /\ AuctionsTyped' /\ ProofsTyped'
  BY FreshCreatesKept, AuctionsKeepType, ProofsKeepType
<1>2. /\ users' \subseteq Wallets
      /\ issued' \subseteq Items
      /\ notifications' \subseteq NotificationRow
      /\ requests' \in [Requests -> Request]
      /\ answers' \subseteq Answer
  BY UsersKeepType, IssuedGrows, NotificationsKeepType, RequestsTyped,
     AnswersKeepType
<1>3. /\ cleanup' \in {"schema", "proofs", "notifications", "auctions",
                       "done"}
      /\ restarts' \in 0 .. MaxRestarts
  BY ProcessKeepsType
<1>4. QED
  BY <1>1, <1>2, <1>3 DEF TypeInv, TypeOK, AuctionsTyped, ProofsTyped

\* The tables, the handlers' locals and the answers keep their types under
\* every interleaving of requests, cleanup and restarts: no handler writes a
\* row from locals of another endpoint or under an id uuidv4 did not return
\* (auctionController.js, zkpController.js, notificationController.js).
THEOREM BackendTypeCorrect == Spec => []TypeOK
<1>1. TypeInv => TypeOK
  BY DEF TypeInv
<1>2. QED
  BY <1>1, TypeInvInit, TypeInvKept, PTL DEF Spec

-----------------------------------------------------------------------------
(***************************************************************************)
(* Referential integrity.  Two of its parts are not the database's doing:  *)
(* highest_bidder_address is no foreign key, and the row it is written to  *)
(* has been read two statements after the proof that names the bidder.     *)
(***************************************************************************)

\* A bidder whose proof a reveal has found has a profile.
RevealersKnown ==
    \A r \in Requests :
        requests[r].at \in AtReveal => requests[r].wallet \in users

LEMMA RevealersStayKnown ==
  ASSUME TypeOK, RowsReferToRows, RevealersKnown, [Next]_vars
  PROVE  RevealersKnown'
<1> SUFFICES ASSUME NEW r \in Requests, requests'[r].at \in AtReveal
             PROVE  requests'[r].wallet \in users'
  BY DEF RevealersKnown
<1>1. users \subseteq users'
  BY UsersKeepType
<1>2. CASE requests'[r] = requests[r]
  BY <1>1, <1>2 DEF RevealersKnown
<1>3. CASE Arrival(r)
  BY <1>3, ArrivalPosition
<1>4. CASE RevealFindsProof(r) /\ requests'[r].at = "reveal:mark"
  <2>1. PICK id \in ProofsOf(requests[r].wallet, requests[r].item,
                             requests[r].hash) :
            requests'[r].wallet = requests[r].wallet
    BY <1>4 DEF RevealFindsProof, Respond, Idle, TypeOK
  <2>2. requests[r].wallet \in users
    BY DEF ProofsOf, RowsReferToRows
  <2>3. QED
    BY <1>1, <2>1, <2>2
<1>5. CASE /\ requests[r].at \in AtReveal
           /\ requests'[r].wallet = requests[r].wallet
  BY <1>1, <1>5 DEF RevealersKnown
<1>6. CASE requests'[r] = Idle
  BY <1>6 DEF Idle, AtReveal
<1>7. QED
  BY <1>2, <1>3, <1>4, <1>5, <1>6, HandlerSteps, ProgressPosition

AuctionsRefer ==
    \A i \in DOMAIN auctions :
        /\ auctions[i].seller_address \in users
        /\ auctions[i].highest_bidder_address \in users \cup {None}

LEMMA AuctionsKeepReferring ==
  ASSUME TypeOK, RowsReferToRows, RevealersKnown, [Next]_vars
  PROVE  AuctionsRefer'
<1>1. AuctionsRefer /\ users \subseteq users'
  BY UsersKeepType DEF AuctionsRefer, RowsReferToRows
<1>2. CASE UNCHANGED auctions
  BY <1>1, <1>2 DEF AuctionsRefer
<1>3. CASE CleanAuctions
  BY <1>1, <1>3 DEF CleanAuctions, AuctionsRefer, NoRows
<1>4. ASSUME NEW r \in Requests, CreateInserts(r)
      PROVE  AuctionsRefer'
  <2> DEFINE row == [seller_address         |-> requests[r].wallet,
                     starting_price         |-> requests[r].price,
                     current_highest_bid    |-> None,
                     highest_bidder_address |-> None,
                     auction_status         |-> "active"]
  <2>1. \/ auctions' = auctions
        \/ /\ requests[r].wallet \in users
           /\ auctions' = Insert(auctions, requests[r].item, row)
    BY <1>4 DEF CreateInserts, ForeignKeysHold
  <2>2. /\ row.seller_address = requests[r].wallet
        /\ row.highest_bidder_address = None
    OBVIOUS
  <2> HIDE DEF row
  <2>3. QED
    BY <1>1, <2>1, <2>2 DEF AuctionsRefer, Insert
<1>5. ASSUME NEW r \in Requests, StatusUpdates(r)
      PROVE  AuctionsRefer'
  <2>1. \/ auctions' = auctions
        \/ /\ requests[r].item \in DOMAIN auctions
           /\ auctions' = [auctions EXCEPT
                ![requests[r].item] = [@ EXCEPT
                    !.auction_status = requests[r].value]]
    BY <1>5 DEF StatusUpdates
  <2>2. ASSUME NEW i \in DOMAIN auctions
        PROVE  LET row == [auctions[i] EXCEPT
                               !.auction_status = requests[r].value]
               IN  /\ row.seller_address = auctions[i].seller_address
                   /\ row.highest_bidder_address =
                          auctions[i].highest_bidder_address
    BY DEF TypeOK, AuctionRow
  <2>3. QED
    BY <1>1, <2>1, <2>2 DEF AuctionsRefer
<1>6. ASSUME NEW r \in Requests, RevealWritesHighest(r)
      PROVE  AuctionsRefer'
  <2> DEFINE q == requests[r]
             bid == Rounded(q.hash.amount)
  <2>1. q.wallet \in users
    BY <1>6 DEF RevealersKnown, RevealWritesHighest, AtReveal
  <2>2. \/ auctions' = auctions
        \/ /\ q.item \in DOMAIN auctions
           /\ auctions' = [auctions EXCEPT
                ![q.item] = [@ EXCEPT !.current_highest_bid = bid,
                                      !.highest_bidder_address = q.wallet]]
    BY <1>6 DEF RevealWritesHighest
  <2> HIDE DEF bid
  <2>3. ASSUME NEW i \in DOMAIN auctions
        PROVE  LET row == [auctions[i] EXCEPT
                               !.current_highest_bid = bid,
                               !.highest_bidder_address = q.wallet]
               IN  /\ row.seller_address = auctions[i].seller_address
                   /\ row.highest_bidder_address = q.wallet
    BY DEF TypeOK, AuctionRow
  <2>4. QED
    BY <1>1, <2>1, <2>2, <2>3 DEF AuctionsRefer
<1>7. QED
  BY <1>2, <1>3, <1>4, <1>5, <1>6, TableSteps DEF WritesAuction

\* An auction goes by the cleanup only, when no proof is left.
LEMMA AuctionsStay ==
  ASSUME TypeOK, [Next]_vars, proofs # NoRows
  PROVE  DOMAIN auctions \subseteq DOMAIN auctions'
<1>1. CASE UNCHANGED auctions
  BY <1>1
<1>2. CASE CleanAuctions
  BY <1>2 DEF CleanAuctions
<1>3. ASSUME NEW r \in Requests, WritesAuction(r)
      PROVE  DOMAIN auctions \subseteq DOMAIN auctions'
  <2>1. CASE CreateInserts(r)
    BY <2>1 DEF CreateInserts, Insert
  <2>2. CASE StatusUpdates(r) \/ RevealWritesHighest(r)
    BY <2>2 DEF StatusUpdates, RevealWritesHighest
  <2>3. QED
    BY <1>3, <2>1, <2>2 DEF WritesAuction
<1>4. QED
  BY <1>1, <1>2, <1>3, TableSteps

ProofsRefer ==
    \A id \in DOMAIN proofs :
        /\ proofs[id].bidder_address \in users
        /\ proofs[id].item_id \in DOMAIN auctions

LEMMA ProofsKeepReferring ==
  ASSUME TypeOK, RowsReferToRows, [Next]_vars
  PROVE  ProofsRefer'
<1>1. ProofsRefer /\ ProofsTyped /\ users \subseteq users'
  BY UsersKeepType DEF ProofsRefer, RowsReferToRows, ProofsTyped, TypeOK
<1>2. DOMAIN proofs # {} => DOMAIN auctions \subseteq DOMAIN auctions'
  BY AuctionsStay DEF NoRows
<1>3. CASE UNCHANGED proofs
  BY <1>1, <1>2, <1>3 DEF ProofsRefer
<1>4. CASE CleanProofs
  BY <1>4 DEF CleanProofs, ProofsRefer, NoRows
<1>5. ASSUME NEW r \in Requests, StoreInserts(r), ~ UNCHANGED proofs
      PROVE  ProofsRefer'
  <2> DEFINE row == [item_id         |-> requests[r].item,
                     bidder_address  |-> requests[r].wallet,
                     commitment_hash |-> requests[r].hash,
                     verified        |-> FALSE]
  <2>1. /\ requests[r].wallet \in users
        /\ requests[r].item \in DOMAIN auctions
        /\ proofs' = Insert(proofs, last_id + 1, row)
        /\ UNCHANGED auctions
    BY <1>5 DEF StoreInserts, ForeignKeysHold
  <2>2. /\ row.bidder_address = requests[r].wallet
        /\ row.item_id = requests[r].item
    OBVIOUS
  <2> HIDE DEF row
  <2>3. QED
    BY <1>1, <2>1, <2>2 DEF ProofsRefer, Insert
<1>6. ASSUME NEW r \in Requests, RevealMarksProof(r) \/ VerifyUpdates(r)
      PROVE  ProofsRefer'
  <2>1. proofs' = proofs \/ proofs' = Verify(requests[r].proof)
    BY <1>6 DEF RevealMarksProof, VerifyUpdates
  <2>2. QED
    BY <1>1, <1>2, <1>3, <2>1, VerifyKeeps DEF ProofsRefer
<1>7. QED
  BY <1>3, <1>4, <1>5, <1>6, TableSteps DEF WritesProof

LEMMA NotificationsKeepReferring ==
  ASSUME TypeOK, RowsReferToRows, [Next]_vars
  PROVE  \A n \in notifications' : n.user_address \in users'
<1>1. /\ \A n \in notifications : n.user_address \in users
      /\ users \subseteq users'
  BY UsersKeepType DEF RowsReferToRows
<1>2. ASSUME NEW r \in Requests, Notifies(r)
      PROVE  \A n \in notifications' : n.user_address \in users
  BY <1>1, <1>2 DEF Notifies, InsertNotification, ForeignKeysHold
<1>3. QED
  BY <1>1, <1>2, TableSteps DEF CleanNotifications

RefInv == TypeInv /\ RowsReferToRows /\ RevealersKnown

\* Foreign keys that no statement of the handlers or the cleanup breaks, and
\* the one the schema does not declare: the highest bidder of every auction
\* has a profile, though a reveal reads the proof and writes the auction in
\* different transactions (auctionController.js:298-340, auto-migrate.js:212-214).
THEOREM BackendRowsRefer == Spec => []RowsReferToRows
<1>1. Init => RefInv
  <2>1. Init => RowsReferToRows /\ RevealersKnown
    BY DEF Init, Idle, RowsReferToRows, RevealersKnown, AtReveal, NoRows
  <2>2. QED
    BY <2>1, TypeInvInit DEF RefInv
<1>2. RefInv /\ [Next]_vars => RefInv'
  <2> SUFFICES ASSUME TypeInv, TypeOK, RowsReferToRows, RevealersKnown,
                      [Next]_vars
               PROVE  RefInv'
    BY DEF RefInv, TypeInv
  <2>1. TypeInv' /\ RevealersKnown'
    BY TypeInvKept, RevealersStayKnown
  <2>2. AuctionsRefer' /\ ProofsRefer'
    BY AuctionsKeepReferring, ProofsKeepReferring
  <2>3. \A n \in notifications' : n.user_address \in users'
    BY NotificationsKeepReferring
  <2>4. QED
    BY <2>1, <2>2, <2>3
       DEF RefInv, RowsReferToRows, AuctionsRefer, ProofsRefer
<1>3. RefInv => RowsReferToRows
  BY DEF RefInv
<1>4. QED
  BY <1>1, <1>2, <1>3, PTL DEF Spec

-----------------------------------------------------------------------------
(***************************************************************************)
(* The highest bid was committed to.  The proof row that says so may be    *)
(* gone, with its auction, while the reveal runs, or be deleted after it:  *)
(* what lasts is the answer the bidder was given when it was stored.       *)
(***************************************************************************)

WasStored(wallet, item, hash) ==
    \E s \in answers : /\ s.kind = "stored"
                       /\ s.wallet = wallet
                       /\ s.item = item
                       /\ s.hash = hash

ProofsStored ==
    \A id \in DOMAIN proofs :
        WasStored(proofs[id].bidder_address, proofs[id].item_id,
                  proofs[id].commitment_hash)

RevealsStored ==
    \A r \in Requests :
        requests[r].at \in AtReveal =>
            WasStored(requests[r].wallet, requests[r].item, requests[r].hash)

LEMMA StaysStored ==
  ASSUME TypeOK, [Next]_vars, NEW w, NEW i, NEW h, WasStored(w, i, h)
  PROVE  WasStored(w, i, h)'
BY AnswersKeepType DEF WasStored

LEMMA ProofsStayStored ==
  ASSUME TypeOK, ProofsStored, [Next]_vars
  PROVE  ProofsStored'
<1>1. ProofsTyped
  BY DEF ProofsTyped, TypeOK
<1>2. CASE UNCHANGED proofs
  BY <1>2, StaysStored DEF ProofsStored
<1>3. CASE CleanProofs
  BY <1>3 DEF CleanProofs, ProofsStored, NoRows
<1>4. ASSUME NEW r \in Requests, StoreInserts(r), ~ UNCHANGED proofs
      PROVE  ProofsStored'
  <2> DEFINE row == [item_id         |-> requests[r].item,
                     bidder_address  |-> requests[r].wallet,
                     commitment_hash |-> requests[r].hash,
                     verified        |-> FALSE]
  <2>1. /\ proofs' = Insert(proofs, last_id + 1, row)
        /\ answers' = answers \cup {Stored(requests[r])}
    BY <1>4 DEF StoreInserts, Stored
  <2>2. \E s \in answers' : /\ s.kind = "stored"
                            /\ s.wallet = row.bidder_address
                            /\ s.item = row.item_id
                            /\ s.hash = row.commitment_hash
    <3>1. /\ row.bidder_address = requests[r].wallet
          /\ row.item_id = requests[r].item
          /\ row.commitment_hash = requests[r].hash
      OBVIOUS
    <3>2. Stored(requests[r]) \in answers'
      BY <2>1
    <3> HIDE DEF row
    <3>3. QED
      BY <3>1, <3>2 DEF Stored
  <2> HIDE DEF row
  <2>3. ASSUME NEW id \in DOMAIN proofs'
        PROVE  WasStored(proofs[id].bidder_address, proofs[id].item_id,
                         proofs[id].commitment_hash)'
    <3>1. CASE id = last_id + 1
      BY <2>1, <2>2, <3>1 DEF Insert, WasStored
    <3>2. CASE id # last_id + 1
      <4>1. id \in DOMAIN proofs /\ proofs'[id] = proofs[id]
        BY <2>1, <3>2 DEF Insert
      <4>2. QED
        BY <4>1, StaysStored DEF ProofsStored
    <3>3. QED
      BY <3>1, <3>2
  <2>4. QED
    BY <2>3 DEF ProofsStored
<1>5. ASSUME NEW r \in Requests, RevealMarksProof(r) \/ VerifyUpdates(r)
      PROVE  ProofsStored'
  <2>1. proofs' = proofs \/ proofs' = Verify(requests[r].proof)
    BY <1>5 DEF RevealMarksProof, VerifyUpdates
  <2>2. CASE proofs' = Verify(requests[r].proof)
    <3>1. /\ DOMAIN proofs' = DOMAIN proofs
          /\ \A k \in DOMAIN proofs :
                 /\ proofs'[k].item_id = proofs[k].item_id
                 /\ proofs'[k].bidder_address = proofs[k].bidder_address
                 /\ proofs'[k].commitment_hash = proofs[k].commitment_hash
      BY <1>1, <2>2, VerifyKeeps
    <3>2. QED
      BY <3>1, StaysStored DEF ProofsStored
  <2>3. QED
    BY <1>2, <2>1, <2>2
<1>6. QED
  BY <1>2, <1>3, <1>4, <1>5, TableSteps DEF WritesProof

LEMMA RevealsStayStored ==
  ASSUME TypeOK, ProofsStored, RevealsStored, [Next]_vars
  PROVE  RevealsStored'
<1> SUFFICES ASSUME NEW r \in Requests, requests'[r].at \in AtReveal
             PROVE  WasStored(requests[r].wallet, requests[r].item,
                              requests[r].hash)'
  BY DEF RevealsStored
<1>1. CASE requests'[r] = requests[r]
  BY <1>1, StaysStored DEF RevealsStored
<1>2. CASE Arrival(r)
  BY <1>2, ArrivalPosition
<1>3. CASE RevealFindsProof(r) /\ requests'[r].at = "reveal:mark"
  <2>1. PICK id \in ProofsOf(requests[r].wallet, requests[r].item,
                             requests[r].hash) :
            /\ requests'[r].wallet = requests[r].wallet
            /\ requests'[r].item = requests[r].item
            /\ requests'[r].hash = requests[r].hash
    BY <1>3 DEF RevealFindsProof, Respond, Idle, TypeOK
  <2>2. WasStored(requests[r].wallet, requests[r].item, requests[r].hash)
    BY DEF ProofsOf, ProofsStored
  <2>3. QED
    BY <2>1, <2>2, StaysStored
<1>4. CASE /\ requests[r].at \in AtReveal
           /\ requests'[r].wallet = requests[r].wallet
           /\ requests'[r].item = requests[r].item
           /\ requests'[r].hash = requests[r].hash
  BY <1>4, StaysStored DEF RevealsStored
<1>5. CASE requests'[r] = Idle
  BY <1>5 DEF Idle, AtReveal
<1>6. QED
  BY <1>1, <1>2, <1>3, <1>4, <1>5, HandlerSteps, ProgressPosition

\* What the steps do to the price columns of an auction.
LEMMA BidColumns ==
  ASSUME TypeOK, [Next]_vars, NEW i \in DOMAIN auctions'
  PROVE  \/ /\ \E r \in Requests : CreateInserts(r) /\ requests[r].item = i
            /\ auctions'[i].highest_bidder_address = None
            /\ auctions'[i].current_highest_bid = None
         \/ /\ i \in DOMAIN auctions
            /\ auctions'[i].highest_bidder_address =
                   auctions[i].highest_bidder_address
            /\ auctions'[i].current_highest_bid =
                   auctions[i].current_highest_bid
            /\ auctions'[i].starting_price = auctions[i].starting_price
         \/ \E r \in Requests :
                /\ requests[r].at = "reveal:write"
                /\ requests[r].at \in AtReveal
                /\ requests[r].item = i
                /\ i \in DOMAIN auctions
                /\ auctions'[i].highest_bidder_address = requests[r].wallet
                /\ auctions'[i].current_highest_bid =
                       Rounded(requests[r].hash.amount)
                /\ auctions'[i].starting_price = auctions[i].starting_price
                /\ Revealed(requests[r]) \in answers'
<1>1. CASE UNCHANGED auctions
  BY <1>1
<1>2. CASE CleanAuctions
  BY <1>2 DEF CleanAuctions, NoRows
<1>3. ASSUME NEW r \in Requests, CreateInserts(r)
      PROVE  \/ /\ requests[r].item = i
                /\ auctions'[i].highest_bidder_address = None
                /\ auctions'[i].current_highest_bid = None
             \/ i \in DOMAIN auctions /\ auctions'[i] = auctions[i]
  BY <1>3 DEF CreateInserts, Insert
<1>4. ASSUME NEW r \in Requests, StatusUpdates(r)
      PROVE  /\ i \in DOMAIN auctions
             /\ auctions'[i].highest_bidder_address =
                    auctions[i].highest_bidder_address
             /\ auctions'[i].current_highest_bid =
                    auctions[i].current_highest_bid
             /\ auctions'[i].starting_price = auctions[i].starting_price
  <2>1. \/ auctions' = auctions
        \/ /\ requests[r].item \in DOMAIN auctions
           /\ auctions' = [auctions EXCEPT
                ![requests[r].item] = [@ EXCEPT
                    !.auction_status = requests[r].value]]
    BY <1>4 DEF StatusUpdates
  <2>2. i \in DOMAIN auctions
    BY <2>1
  <2>3. LET row == [auctions[i] EXCEPT !.auction_status = requests[r].value]
        IN  /\ row.highest_bidder_address = auctions[i].highest_bidder_address
            /\ row.current_highest_bid = auctions[i].current_highest_bid
            /\ row.starting_price = auctions[i].starting_price
    BY <2>2 DEF TypeOK, AuctionRow
  <2>4. QED
    BY <2>1, <2>2, <2>3
<1>5. ASSUME NEW r \in Requests, RevealWritesHighest(r)
      PROVE  /\ i \in DOMAIN auctions
             /\ \/ auctions'[i] = auctions[i]
                \/ /\ requests[r].at = "reveal:write"
                   /\ requests[r].at \in AtReveal
                   /\ requests[r].item = i
                   /\ auctions'[i].highest_bidder_address = requests[r].wallet
                   /\ auctions'[i].current_highest_bid =
                          Rounded(requests[r].hash.amount)
                   /\ auctions'[i].starting_price = auctions[i].starting_price
                   /\ Revealed(requests[r]) \in answers'
  <2> DEFINE q == requests[r]
             bid == Rounded(q.hash.amount)
  <2>1. /\ q.at = "reveal:write" /\ q.at \in AtReveal
        /\ Revealed(q) \in answers'
    BY <1>5 DEF RevealWritesHighest, AnswerRevealed, Revealed, AtReveal
  <2>2. \/ auctions' = auctions
        \/ /\ q.item \in DOMAIN auctions
           /\ auctions' = [auctions EXCEPT
                ![q.item] = [@ EXCEPT !.current_highest_bid = bid,
                                      !.highest_bidder_address = q.wallet]]
    BY <1>5 DEF RevealWritesHighest
  <2> HIDE DEF bid
  <2>3. i \in DOMAIN auctions
    BY <2>2
  <2>4. LET row == [auctions[i] EXCEPT !.current_highest_bid = bid,
                                       !.highest_bidder_address = q.wallet]
        IN  /\ row.highest_bidder_address = q.wallet
            /\ row.current_highest_bid = bid
            /\ row.starting_price = auctions[i].starting_price
    BY <2>3 DEF TypeOK, AuctionRow
  <2>5. CASE q.item = i
    BY <2>1, <2>2, <2>3, <2>4, <2>5 DEF bid
  <2>6. CASE q.item # i
    BY <2>2, <2>3, <2>6
  <2>7. QED
    BY <2>5, <2>6
<1>6. QED
  BY <1>1, <1>2, <1>3, <1>4, <1>5, TableSteps DEF WritesAuction

BidInv == TypeInv /\ ProofsStored /\ RevealsStored /\ HighestWasCommitted

\* However reveals, cleanups and restarts interleave, the highest bid on
\* record is the rounded amount of a commitment that its own bidder was told
\* is stored for that auction (auctionController.js:290-340).
THEOREM BackendHighestCommitted == Spec => []HighestWasCommitted
<1>1. Init => BidInv
  <2>1. Init => ProofsStored /\ RevealsStored /\ HighestWasCommitted
    BY DEF Init, Idle, ProofsStored, RevealsStored, HighestWasCommitted,
           AtReveal, NoRows
  <2>2. QED
    BY <2>1, TypeInvInit DEF BidInv
<1>2. BidInv /\ [Next]_vars => BidInv'
  <2> SUFFICES ASSUME TypeInv, TypeOK, ProofsStored, RevealsStored,
                      HighestWasCommitted, [Next]_vars
               PROVE  BidInv'
    BY DEF BidInv, TypeInv
  <2>1. TypeInv' /\ ProofsStored' /\ RevealsStored'
    BY TypeInvKept, ProofsStayStored, RevealsStayStored
  <2>2. ASSUME NEW i \in DOMAIN auctions',
               auctions'[i].highest_bidder_address # None
        PROVE  \E s \in answers' :
                   /\ s.kind = "stored"
                   /\ s.wallet = auctions'[i].highest_bidder_address
                   /\ s.item = i
                   /\ Rounded(s.hash.amount) = auctions'[i].current_highest_bid
    <3>1. answers \subseteq answers'
      BY AnswersKeepType
    <3>2. CASE /\ i \in DOMAIN auctions
               /\ auctions'[i].highest_bidder_address =
                      auctions[i].highest_bidder_address
               /\ auctions'[i].current_highest_bid =
                      auctions[i].current_highest_bid
      BY <2>2, <3>1, <3>2 DEF HighestWasCommitted
    <3>3. CASE \E r \in Requests :
                   /\ requests[r].at \in AtReveal
                   /\ requests[r].item = i
                   /\ auctions'[i].highest_bidder_address = requests[r].wallet
                   /\ auctions'[i].current_highest_bid =
                          Rounded(requests[r].hash.amount)
      BY <3>1, <3>3 DEF RevealsStored, WasStored
    <3>4. QED
      BY <2>2, <3>2, <3>3, BidColumns
  <2>3. HighestWasCommitted'
    BY <2>2 DEF HighestWasCommitted
  <2>4. QED
    BY <2>1, <2>3 DEF BidInv
<1>3. BidInv => HighestWasCommitted
  BY DEF BidInv
<1>4. QED
  BY <1>1, <1>2, <1>3, PTL DEF Spec

-----------------------------------------------------------------------------
(***************************************************************************)
(* Only bidders who revealed are told that an asset is theirs.             *)
(***************************************************************************)

HasRevealed(wallet, item) ==
    \E a \in answers : /\ a.kind = "revealed"
                       /\ a.wallet = wallet
                       /\ a.item = item

HighestRevealed ==
    \A i \in DOMAIN auctions :
        auctions[i].highest_bidder_address # None =>
            HasRevealed(auctions[i].highest_bidder_address, i)

\* A claim past its SELECT; the highest bidder may have changed since.
ClaimersRevealed ==
    \A r \in Requests :
        requests[r].at = "claim:notify" =>
            HasRevealed(requests[r].wallet, requests[r].item)

LEMMA StaysRevealed ==
  ASSUME TypeOK, [Next]_vars, NEW w, NEW i, HasRevealed(w, i)
  PROVE  HasRevealed(w, i)'
BY AnswersKeepType DEF HasRevealed

LEMMA HighestStaysRevealed ==
  ASSUME TypeOK, HighestRevealed, [Next]_vars
  PROVE  HighestRevealed'
<1> SUFFICES ASSUME NEW i \in DOMAIN auctions',
                    auctions'[i].highest_bidder_address # None
             PROVE  HasRevealed(auctions[i].highest_bidder_address, i)'
  BY DEF HighestRevealed
<1>1. CASE /\ i \in DOMAIN auctions
           /\ auctions'[i].highest_bidder_address =
                  auctions[i].highest_bidder_address
  <2>1. HasRevealed(auctions[i].highest_bidder_address, i)
    BY <1>1 DEF HighestRevealed
  <2>2. QED
    BY <1>1, <2>1, AnswersKeepType DEF HasRevealed
<1>2. CASE \E r \in Requests :
               /\ requests[r].item = i
               /\ auctions'[i].highest_bidder_address = requests[r].wallet
               /\ Revealed(requests[r]) \in answers'
  BY <1>2 DEF HasRevealed, Revealed
<1>3. QED
  BY <1>1, <1>2, BidColumns

LEMMA ClaimersStayRevealed ==
  ASSUME TypeOK, HighestRevealed, ClaimersRevealed, [Next]_vars
  PROVE  ClaimersRevealed'
<1> SUFFICES ASSUME NEW r \in Requests, requests'[r].at = "claim:notify"
             PROVE  HasRevealed(requests[r].wallet, requests[r].item)'
  BY DEF ClaimersRevealed
<1>1. CASE requests'[r] = requests[r]
  BY <1>1, AnswersKeepType DEF ClaimersRevealed, HasRevealed
<1>2. CASE Arrival(r)
  BY <1>2, ArrivalPosition
<1>3. CASE ClaimSelects(r)
  <2>1. requests[r] \in ItemRequest
    BY <1>3, RequestShape DEF ClaimSelects, AtItem, TypeOK
  <2>2. /\ requests[r].item \in DOMAIN auctions
        /\ auctions[requests[r].item].highest_bidder_address
               = requests[r].wallet
        /\ requests'[r] = [requests[r] EXCEPT !.at = "claim:notify"]
    BY <1>3 DEF ClaimSelects, GoTo, Respond, Idle, TypeOK
  <2>3. /\ requests'[r].wallet = requests[r].wallet
        /\ requests'[r].item = requests[r].item
        /\ requests[r].wallet # None
    BY <2>1, <2>2, NullAssumption DEF ItemRequest
  <2>4. HasRevealed(requests[r].wallet, requests[r].item)
    BY <2>2, <2>3 DEF HighestRevealed
  <2>5. QED
    BY <2>3, <2>4, AnswersKeepType DEF HasRevealed
<1>4. CASE requests'[r] = Idle
  BY <1>4 DEF Idle
<1>5. QED
  BY <1>1, <1>2, <1>3, <1>4, HandlerSteps, ProgressPosition

ClaimInv ==
    TypeInv /\ HighestRevealed /\ ClaimersRevealed /\ ClaimantsRevealed

\* Nobody is told that an asset is claimed who was not told before that a
\* bid of theirs on it is revealed, although the claim reads the highest
\* bidder and writes the notification in different transactions
\* (auctionController.js:380-399).
THEOREM BackendClaimantsRevealed == Spec => []ClaimantsRevealed
<1>1. Init => ClaimInv
  <2>1. Init => HighestRevealed /\ ClaimersRevealed /\ ClaimantsRevealed
    BY DEF Init, Idle, HighestRevealed, ClaimersRevealed, ClaimantsRevealed,
           NoRows
  <2>2. QED
    BY <2>1, TypeInvInit DEF ClaimInv
<1>2. ClaimInv /\ [Next]_vars => ClaimInv'
  <2> SUFFICES ASSUME TypeInv, TypeOK, HighestRevealed, ClaimersRevealed,
                      ClaimantsRevealed, [Next]_vars
               PROVE  ClaimInv'
    BY DEF ClaimInv, TypeInv
  <2>1. TypeInv' /\ HighestRevealed' /\ ClaimersRevealed'
    BY TypeInvKept, HighestStaysRevealed, ClaimersStayRevealed
  <2>2. ASSUME NEW n \in notifications', n.notification_type = "claim_success"
        PROVE  HasRevealed(n.user_address, n.item_id)
    <3>1. CASE n \in notifications
      BY <2>2, <3>1 DEF ClaimantsRevealed, HasRevealed
    <3>2. ASSUME NEW r \in Requests, Notifies(r), n \notin notifications
          PROVE  HasRevealed(n.user_address, n.item_id)
      <4>1. /\ requests[r].at = "claim:notify"
            /\ n.user_address = requests[r].wallet
            /\ n.item_id = requests[r].item
        BY <2>2, <3>2 DEF Notifies, InsertNotification
      <4>2. QED
        BY <4>1 DEF ClaimersRevealed
    <3>3. QED
      BY <3>1, <3>2, TableSteps DEF CleanNotifications
  <2>3. ClaimantsRevealed'
    BY <2>2, AnswersKeepType DEF ClaimantsRevealed, HasRevealed
  <2>4. QED
    BY <2>1, <2>3 DEF ClaimInv
<1>3. ClaimInv => ClaimantsRevealed
  BY DEF ClaimInv
<1>4. QED
  BY <1>1, <1>2, <1>3, PTL DEF Spec
-----------------------------------------------------------------------------
(***************************************************************************)
(* The highest bid on record is one reveal's.  A reveal compares with a    *)
(* row it has read one await before it writes: what it may rely on is that *)
(* no other row can take the place of that one.                            *)
(***************************************************************************)

\* The item a createAuction handler is about to insert is its own: no row,
\* no other such handler and no reveal about to write has it.
CreatesApart ==
    /\ \A r, k \in Requests :
           /\ r # k
           /\ requests[r].at \in AtCreate
           /\ requests[k].at \in AtCreate
           => requests[r].item # requests[k].item
    /\ \A r \in Requests :
           requests[r].at \in AtCreate => requests[r].item \notin DOMAIN auctions
    /\ \A r, k \in Requests :
           requests[r].at \in AtCreate /\ requests[k].at = "reveal:write"
           => requests[r].item # requests[k].item
    /\ \A k \in Requests :
           requests[k].at = "reveal:write" => requests[k].item \in issued

\* A reveal about to write beats the starting price of the auction.
WritesBeat ==
    \A r \in Requests :
        requests[r].at = "reveal:write" /\ requests[r].item \in DOMAIN auctions
        => Rounded(requests[r].hash.amount)
               > auctions[requests[r].item].starting_price

LEMMA CreatePosition ==
  ASSUME TypeOK, [Next]_vars, NEW r \in Requests, requests'[r].at \in AtCreate
  PROVE  \/ requests[r].at \in AtCreate /\ requests'[r].item = requests[r].item
         \/ Arrival(r) /\ requests'[r].item \notin issued
<1>1. CASE requests'[r] = requests[r]
  BY <1>1
<1>2. CASE Arrival(r)
  BY <1>2, ArrivalPosition
<1>3. CASE Progress(r)
  BY <1>3, ProgressPosition
<1>4. CASE requests'[r] = Idle
  BY <1>4 DEF Idle, AtCreate
<1>5. QED
  BY <1>1, <1>2, <1>3, <1>4, HandlerSteps

\* A reveal gets to its UPDATE from its SELECT, when the amount beats the
\* price of the row as it is.
LEMMA WritePosition ==
  ASSUME TypeOK, [Next]_vars, NEW r \in Requests,
         requests'[r].at = "reveal:write"
  PROVE  \/ requests'[r] = requests[r]
         \/ /\ auctions' = auctions
            /\ requests'[r].item \in DOMAIN auctions
            /\ Rounded(requests'[r].hash.amount)
                   > Price(auctions[requests'[r].item])
<1>1. CASE requests'[r] = requests[r]
  BY <1>1
<1>2. CASE Arrival(r)
  BY <1>2, ArrivalPosition DEF AtReveal
<1>3. CASE Progress(r)
  <2>1. RevealReadsAuction(r)
    BY <1>3, ProgressPosition
  <2>2. /\ requests'[r].item = requests[r].item
        /\ requests'[r].hash = requests[r].hash
    BY <1>3, <2>1, ProgressPosition DEF AtReveal, RevealFindsProof,
                                        RevealReadsAuction
  <2>3. ~ Respond(r)
    BY DEF Respond, Idle, TypeOK
  <2>4. QED
    BY <2>1, <2>2, <2>3 DEF RevealReadsAuction, tables
<1>4. CASE requests'[r] = Idle
  BY <1>4 DEF Idle
<1>5. QED
  BY <1>1, <1>2, <1>3, <1>4, HandlerSteps

LEMMA CreatesStayApart ==
  ASSUME TypeOK, FreshCreates, CreatesApart, [Next]_vars
  PROVE  CreatesApart'
<1>1. DOMAIN auctions \subseteq issued /\ issued \subseteq issued'
  BY IssuedGrows DEF TypeOK
<1>2. ASSUME NEW r \in Requests, Arrival(r), NEW k \in Requests, k # r
      PROVE  requests'[k] = requests[k] /\ auctions' = auctions
  BY <1>2, OthersWait, ArrivalFrame DEF tables
<1>3. ASSUME NEW r \in Requests, NEW k \in Requests, r # k,
             requests'[r].at \in AtCreate, requests'[k].at \in AtCreate
      PROVE  requests'[r].item # requests'[k].item
  <2>1. CASE Arrival(r) /\ requests'[r].item \notin issued
    BY <1>2, <1>3, <2>1 DEF FreshCreates
  <2>2. CASE Arrival(k) /\ requests'[k].item \notin issued
    BY <1>2, <1>3, <2>2 DEF FreshCreates
  <2>3. QED
    BY <1>3, <2>1, <2>2, CreatePosition DEF CreatesApart
<1>4. ASSUME NEW r \in Requests, requests'[r].at \in AtCreate
      PROVE  requests'[r].item \notin DOMAIN auctions'
  <2>1. CASE Arrival(r) /\ requests'[r].item \notin issued
    BY <1>1, <2>1, ArrivalFrame DEF tables
  <2>2. CASE requests[r].at \in AtCreate /\ requests'[r].item = requests[r].item
    <3>1. \/ requests[r].item \notin DOMAIN auctions'
          \/ requests[r].item \in DOMAIN auctions
          \/ \E k \in Requests : /\ CreateInserts(k)
                                 /\ requests[k].item = requests[r].item
      BY BidColumns
    <3>2. ASSUME NEW k \in Requests, CreateInserts(k) PROVE requests[k].at \in AtCreate
      BY <3>2 DEF CreateInserts, AtCreate
    <3>3. ~ CreateInserts(r)
      BY <1>4 DEF CreateInserts, Respond, Idle, AtCreate, TypeOK
    <3>4. QED
      BY <2>2, <3>1, <3>2, <3>3 DEF CreatesApart
  <2>3. QED
    BY <1>4, <2>1, <2>2, CreatePosition
<1>5. ASSUME NEW r \in Requests, NEW k \in Requests,
             requests'[r].at \in AtCreate, requests'[k].at = "reveal:write"
      PROVE  requests'[r].item # requests'[k].item
  <2>1. r # k
    BY <1>5 DEF AtCreate
  <2>2. CASE Arrival(r) /\ requests'[r].item \notin issued
    BY <1>2, <1>5, <2>1, <2>2 DEF CreatesApart
  <2>3. CASE requests[r].at \in AtCreate /\ requests'[r].item = requests[r].item
    BY <1>5, <2>3, WritePosition DEF CreatesApart
  <2>4. QED
    BY <1>5, <2>2, <2>3, CreatePosition
<1>6. ASSUME NEW k \in Requests, requests'[k].at = "reveal:write"
      PROVE  requests'[k].item \in issued'
  BY <1>1, <1>6, WritePosition DEF CreatesApart
<1>7. QED
  BY <1>3, <1>4, <1>5, <1>6 DEF CreatesApart

\* What is compared with is never below the starting price.
LEMMA PriceFromStart ==
  ASSUME TypeOK, RecordIsOneReveal, NEW i \in DOMAIN auctions
  PROVE  Price(auctions[i]) >= auctions[i].starting_price
<1>1. auctions[i] \in AuctionRow
  BY DEF TypeOK
<1>2. auctions[i].starting_price \in Nat
  BY <1>1, BackendAmounts DEF AuctionRow
<1>3. CASE auctions[i].highest_bidder_address = None
  BY <1>2, <1>3 DEF RecordIsOneReveal, Price
<1>4. CASE auctions[i].current_highest_bid > auctions[i].starting_price
  BY <1>1, <1>2, <1>4, NullAssumption DEF AuctionRow, Price
<1>5. QED
  BY <1>3, <1>4 DEF RecordIsOneReveal

LEMMA WritesStillBeat ==
  ASSUME TypeOK, CreatesApart, WritesBeat, RecordIsOneReveal, [Next]_vars
  PROVE  WritesBeat'
<1> SUFFICES ASSUME NEW r \in Requests, requests'[r].at = "reveal:write",
                    requests'[r].item \in DOMAIN auctions'
             PROVE  Rounded(requests'[r].hash.amount)
                        > auctions'[requests'[r].item].starting_price
  BY DEF WritesBeat
<1>1. CASE requests'[r] = requests[r]
  <2>1. ASSUME NEW k \in Requests, CreateInserts(k)
        PROVE  requests[k].item # requests[r].item
    BY <1>1, <2>1 DEF CreateInserts, AtCreate, CreatesApart
  <2>2. /\ requests[r].item \in DOMAIN auctions
        /\ auctions'[requests[r].item].starting_price =
               auctions[requests[r].item].starting_price
    BY <1>1, <2>1, BidColumns
  <2>3. QED
    BY <1>1, <2>2 DEF WritesBeat
<1>2. CASE /\ auctions' = auctions
           /\ requests'[r].item \in DOMAIN auctions
           /\ Rounded(requests'[r].hash.amount)
                  > Price(auctions[requests'[r].item])
  <2> DEFINE bid == Rounded(requests'[r].hash.amount)
             row == auctions[requests'[r].item]
  <2>1. bid \in Nat
    <3>1. PICK q : q = requests'[r]
      OBVIOUS
    <3>2. q \in Request /\ q.at \in AtReveal
      BY <3>1, RequestsTyped DEF AtReveal
    <3>3. QED
      BY <3>1, <3>2, RequestShape, BackendAmounts
         DEF RevealRequest, Commitment
  <2>2. /\ row \in AuctionRow
        /\ row.starting_price \in Nat
        /\ Price(row) \in Nat
        /\ Price(row) >= row.starting_price
    BY <1>2, PriceFromStart, BackendAmounts DEF TypeOK, AuctionRow, Price
  <2>3. bid > Price(row)
    BY <1>2
  <2> HIDE DEF bid, row
  <2>4. bid > row.starting_price
    BY <2>1, <2>2, <2>3
  <2>5. QED
    BY <1>2, <2>4 DEF bid, row
<1>3. QED
  BY <1>1, <1>2, WritePosition

RecordInv ==
    TypeInv /\ CreatesApart /\ WritesBeat /\ RecordIsOneReveal

\* However reveals overwrite each other, on both database engines, the
\* highest bid on record is one reveal's, acknowledged to its bidder and
\* above the starting price of its auction (auctionController.js:336).
THEOREM BackendRecordIsOneReveal == Spec => []RecordIsOneReveal
<1>1. Init => RecordInv
  <2>1. Init => CreatesApart /\ WritesBeat /\ RecordIsOneReveal
    BY DEF Init, Idle, AtCreate, CreatesApart, WritesBeat, RecordIsOneReveal,
           NoRows
  <2>2. QED
    BY <2>1, TypeInvInit DEF RecordInv
<1>2. RecordInv /\ [Next]_vars => RecordInv'
  <2> SUFFICES ASSUME TypeInv, TypeOK, FreshCreates, CreatesApart, WritesBeat,
                      RecordIsOneReveal, [Next]_vars
               PROVE  RecordInv'
    BY DEF RecordInv, TypeInv
  <2>1. TypeInv' /\ CreatesApart' /\ WritesBeat'
    BY TypeInvKept, CreatesStayApart, WritesStillBeat
  <2>2. answers \subseteq answers'
    BY AnswersKeepType
  <2>3. ASSUME NEW i \in DOMAIN auctions',
               auctions'[i].highest_bidder_address = None
        PROVE  auctions'[i].current_highest_bid = None
    <3>1. ASSUME NEW r \in Requests, requests[r].at \in AtReveal
          PROVE  requests[r].wallet # None
      BY <3>1, RequestShape, NullAssumption DEF TypeOK, RevealRequest
    <3>2. QED
      BY <2>3, <3>1, BidColumns DEF RecordIsOneReveal
  <2>4. ASSUME NEW i \in DOMAIN auctions',
               auctions'[i].highest_bidder_address # None
        PROVE  /\ auctions'[i].current_highest_bid > auctions'[i].starting_price
               /\ \E a \in answers' :
                      /\ a.kind = "revealed"
                      /\ a.wallet = auctions'[i].highest_bidder_address
                      /\ a.item = i
                      /\ Rounded(a.amount) = auctions'[i].current_highest_bid
    <3>1. CASE /\ i \in DOMAIN auctions
               /\ auctions'[i].highest_bidder_address =
                      auctions[i].highest_bidder_address
               /\ auctions'[i].current_highest_bid =
                      auctions[i].current_highest_bid
               /\ auctions'[i].starting_price = auctions[i].starting_price
      BY <2>2, <2>4, <3>1 DEF RecordIsOneReveal
    <3>2. CASE \E r \in Requests :
                   /\ requests[r].at = "reveal:write"
                   /\ requests[r].item = i
                   /\ i \in DOMAIN auctions
                   /\ auctions'[i].highest_bidder_address = requests[r].wallet
                   /\ auctions'[i].current_highest_bid =
                          Rounded(requests[r].hash.amount)
                   /\ auctions'[i].starting_price = auctions[i].starting_price
                   /\ Revealed(requests[r]) \in answers'
      BY <3>2 DEF WritesBeat, Revealed
    <3>3. QED
      BY <2>4, <3>1, <3>2, BidColumns
  <2>5. RecordIsOneReveal'
    BY <2>3, <2>4 DEF RecordIsOneReveal
  <2>6. QED
    BY <2>1, <2>5 DEF RecordInv
<1>3. RecordInv => RecordIsOneReveal
  BY DEF RecordInv
<1>4. QED
  BY <1>1, <1>2, <1>3, PTL DEF Spec
=============================================================================
