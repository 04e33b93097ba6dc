# Verification of the sealed-bid auction

TLA+ modules, TLC runs and TLAPS proofs for the sealed-bid auction in this
repository: the CosmWasm contract that holds the money (`contracts/lelang`), the
Groth16 bid proof it accepts (`zkp-circuits`), the Express backend that keeps the
auctions' metadata, the commitments and the revealed bids (`apps/backend`), and the
two browser applications that buyers and the seller use (`apps/user`, `apps/admin`).

## The system and its parts

| Part | State | Operations | Hard behaviour |
|---|---|---|---|
| Contract `contracts/lelang/src` | `AUCTION`, `PESERTA`, `DAFTAR_PESERTA`; its ulct; the CW721 token sent to it | instantiate, DepositCollateral, SubmitBidCommitment, CloseAuction, RevealBid, DetermineWinner, RefundLosers | any account sends any message in any order; block time; all-or-nothing transactions with bank and CW721 sub-messages; repeated RefundLosers |
| Bid proof `zkp-circuits/circuit.circom`, `zkp_verifier.rs` | none | prove `bid > harga_dasar` for a commitment; verify against public inputs | what the public inputs tie down, and the decimal encodings they accept |
| Backend handlers `apps/backend/src/controllers` | tables users_profile, auctions_metadata, zkp_proof_backup, notifications | create, status, store-proof, verify-proof, reveal, claim, refund, notify | interleaving at every awaited SQL statement (Postgres), no transactions, rows deleted under a handler |
| Backend startup `index.js`, `db/auto-migrate.js`, `config/database.js` | the same tables | create tables, delete old rows, at every start | runs after `app.listen`; fails half way; process death |
| Authentication `middleware/auth.js` | none: JWTs are signed | signature or token to wallet | development bypass tokens, mock signatures, expiry, headers against body |
| Uploads, user profiles | files; users_profile columns | upload, upsert | the file is written before the answer that names it |
| Buyer application `apps/user` | `localStorage`, shared by all tabs: jwt_token, wallet_address, bid_history (with the salts), refunded_bids, claimed_bids; React state per page; key files on disk | log in, commit, reveal, claim, refund, browse, log out | several tabs over one store; answers that are lost, late or come to a page that is gone; lists that arrive under a form; `parseFloat` of amounts |
| Seller application `apps/admin` | `localStorage`: authToken, walletAddress; React state per page | log in, upload, create, watch, close, log out | overlapping uploads, timers that fire on another page, repeated clicks, reloads, expiring tokens |
| Chain module `x/lelang`, `app/`, `chain/` | module parameters | UpdateParams, genesis, export | scaffold; `chain/app` holds unresolved merge markers |
| Scripts, faucet, local networks, ZKP tooling | files | set-up | I/O |

The contract and the backend are two separate books of the same auction: the
applications talk to the backend only, and nothing in the code copies the outcome
of one to the other. So they are modelled by separate modules that share no state.
The applications reach the backend through HTTP calls whose token says who calls.
They are composed with `AuctionBook`, which says what the backend does when one call
runs at a time, and which the detailed backend is shown to implement.

What makes each part correct:

* contract: nothing is opened while anybody can still commit; what is opened is
  what was committed and proved above the base price; the winner is the earliest
  depositor among the highest opened bids and pays its own bid; the deposits are
  there until the winner is named; settlement happens entirely and once; with
  collateral that covers the bids it does happen;
* winner loop: it computes that winner for any number of participants;
* backend: rows refer to rows that exist; the highest bid is one its bidder
  committed to; no acknowledged reveal is lost; only bidders who revealed claim;
  every request is answered; on SQLite calls are atomic;
* buyer: the stored session is one wallet's; what is shown as revealed, refunded or
  claimed the backend acknowledged; every commitment it stored has a key file; saved
  bids are lost only at a logout or to an older list; amounts are shown with the
  auction they were bid on; no page waits for nothing;
* seller: the stored wallet is the one the backend sees; every auction's image was
  written; an auction shown as ended has ended; no button stays disabled.

## Modules

| Module | Models | Used by |
|---|---|---|
| `SealedBidAuction` | what the auction promises: collect sealed bids, close, open, decide, settle | refinement target |
| `LelangContract` | the contract, one action per `ExecuteMsg`, with bank, token and clock | `MCLelang` |
| `WinnerScan` | the contract with the loop of `execute_determine_winner` one participant per step | `MCScan` |
| `LelangContractProofs`, `WinnerScanProofs` | theorems about the three | |
| `SumProofs` | what the community modules' sum over a finite set computes | `LelangContractProofs`, `WinnerScanProofs` |
| `AuctionBook` | what the auction endpoints promise: every call is one step | refinement target; `BuyerSession`, `BuyerPages`, `SellerApp` |
| `AuctionBackend` | the writing handlers, one action per SQL statement, the startup cleanup, restarts | `MCBackend` |
| `AuctionBackendProofs`, `AuctionBookProofs` | theorems about it; those of the last need SQLite | |
| `Authentication` | the two middlewares, as functions of the request | `SellerApp` |
| `SellerAppProofs` | theorems about it | |
| `BuyerSession` | tabs of one browser: session, saved bids, login, submit, reveal, logout | `MCBuyer` |
| `BuyerSessionProofs` | theorems about it | |
| `BuyerPages` | the buyer's pages in one tab: bid form, history, auction, leaderboard, marketplace | `MCPages` |
| `BuyerPagesProofs` | theorems about it | |
| `SellerApp` | the seller's application in one tab, with its backend routes | `MCSeller` |

### LelangContract

`status`, `pemenang`, `highest_bid` and `commitment_hash_tertinggi` are the fields
of `AUCTION` that change; `peserta` is the map `PESERTA`, `daftar` the vector
`DAFTAR_PESERTA`. `kas` is the contract's ulct, `saldo` everybody's, `nft` the owner
of the auctioned token, `now` the block time. A message that returns `Err` leaves no
trace on the chain, so it is a stuttering step and has no action of its own; the
guard of an action is the conjunction of the handler's checks.
`DetermineWinner` requires that the contract holds the token when a CW721 address is
configured, and `RefundLosers` that the sum of its messages is covered by `kas`,
because a failing sub-message reverts the transaction.

A commitment is the decimal text of Poseidon(bid, salt). The hash is taken to be
collision free, so the record keeps what it commits to; the text adds its
`encoding`: `Fr::from_str` reads a number and the same number plus the field's prime
as one element, so both satisfy the verifier, but `compute_poseidon_hash` returns
only the reduced one, so a commitment written the other way is accepted and can
never be opened. A proof stands for the witness it was made from (Groth16 is taken
to be sound). `harga_dasar` of the witness may be the contract's or 0, which is the
case the comparison of public inputs must refuse.

Senders are any account, the seller included. `StrayFunds` is ulct that arrives
outside DepositCollateral. `EscrowNft` is the seller handing the token to the
contract, which the contract's own messages never do.

### WinnerScan

`pos`, `winner`, `highest` and `winner_commitment` are the loop's locals. While
`pos # 0` nothing else happens: a transaction runs alone.

### AuctionBackend

`users`, `auctions`, `proofs` and `notifications` are the tables; `requests` the
handler invocations in progress, each at the await it is suspended at with its
locals; `answers` the positive answers to store-proof and reveal that clients hold;
`cleanup` the position of `runMigrationAndCleanup`. An action executes one SQL
statement and the synchronous code up to the next await or the response.

With `DbType = "postgres"` statements of different requests, and of the cleanup,
interleave freely. With `"sqlite"`, `query()` has its result before it returns, the
awaits of a handler are resolved in the microtask queue, and no other request starts
in between (`MayBegin`). `Restart` ends the process between any two statements and
starts it again with the tables as they are.

On SQLite the startup code never reaches its `DELETE` statements: `query()` sends
`PRAGMA table_info` to `run()`, whose result has no `rows`, and reading
`.rows.map` throws (`MigrateSchema`). On Postgres it always does (`CleanProofs`,
`CleanNotifications`, `CleanAuctions`), and the last one fails, logged only, if a
proof was stored between them.

Abstractions: titles, categories and pictures are dropped; amounts are integers in
the smallest unit, `Rounded` is what `parseFloat` does to them; keccak256 does not
collide; letter case of hex strings is dropped; notifications that differ only in
their id are one row; `createNotification` writes type "other". Prices are positive
(the backend also takes negative ones, which no page sends), and `auction_status` is
"active" or "ended", the two values the applications use.

### AuctionBook

`auctions` are the rows as the endpoints read them, `sealed` the bids on record,
`answers` and `settled` what callers were told. `AuctionBackend` maps to it:
`SealedBids` and `Settlements` are its proof and notification rows without their
keys, and an action of the book happens at the statement after which the handler can
no longer fail. Claim and Refund look at the auction, and insert the notification,
in two statements; on SQLite nothing comes between them.

### BuyerSession

`tabs` gives each tab its page, the bid list that page read when it was opened, and
whether it is busy; `calls` the calls under way, each with the values its handler
closed over, whether its page is still shown (`here`), and the tab its continuation
runs in. `App` removes the credentials when the document is loaded, after the first
render (`Load`); the login page removes them when it is opened (`Goes`). `Answer` is
the backend's action and the tab's continuation in one step; it covers a call that
is answered, refused, lost on the way, and one whose answer is lost. A closed tab's
calls still reach the backend. A token stands for the wallet it was issued to;
expiry is in `SellerApp`, since here an expired token is one more refusal.

### BuyerPages

One tab, logged in. `page` is the state of the page shown; what a page has asked for
is part of it (`asked`, `stage`, `todo`), because effects of a page that is left
change nothing. Refunds and claims are in `calls`: their continuations write
localStorage after the page is left too. `listing` is the order the backend lists
auctions in, cut at `ListLimit`. A bid's `timestamp` is text that ends with the
second, so two bids may share one; the marks are kept by it. `missed` of the
marketplace, the auctions whose call failed, is a history variable.

### Authentication and SellerApp

`AuthMiddleware` is the chain of POST /auth/verify, `RequireAuth` that of the routes
that write. `VerifySignature` accepts every non-empty signature, as the code does.
`SellerApp` sends every call with the token stored at that moment and asks
`RequireAuth` who it comes from. Its calls have a place `at`: the page that made
them, the tab once that page is left, or gone once the document is loaded again.
Timers (`enter`, `fallback`, `open`, `shown`) are slots of `calls` too.

## Runs

Passing:

| Run | Question | Bounds |
|---|---|---|
| `contract_safety` | all orders of messages and times: sealing, opening, winner, token, settlement, what a short deposit does to it, refinement of `SealedBidAuction` | seller and 2 bidders; deposits 1, 3; bids 1 to 3 over base 1; both encodings; times 0 to 3 around a window 1 to 2; CW721 configured |
| `contract_liveness` | an openable bid leads to settlement when deposits cover bids; the outcome stays | deposit 3, bids 2, 3 |
| `winner_scan` | the loop finds the first of the highest, refuses only if there is none; deposits stay covered with stray ulct | 4 participants, bids 1 to 3 |
| `backend_races` | two competing bidders on Postgres: types, references among tables, whose bid is highest and that it is one acknowledged reveal, who claims | 2 wallets, 2 requests, starting prices 2 and 3, amounts 3 and 4, 2 commitments, 1 restart |
| `backend_sqlite` | no acknowledged reveal is lost; refinement of `AuctionBook` | all endpoints but verify, 3 amounts of which two round to one double, 2 commitments, 1 restart |
| `backend_answers` | every request is answered while the cleanup deletes rows | 1 wallet, 2 requests, all endpoints |
| `buyer` | two tabs that log in, bid, reveal, reload and log out: one session, no false reveal, which bids are lost, repeated reveals | 2 tabs, 1 Keplr account and the bypass, 1 item, 2 amounts of which one rounds to another number, 3 calls, 2 under way |
| `views` | pages, lists and rows in any order: key files, marks, amounts, one failure, spinners | 3 auctions of which 2 are listed, 3 starting histories, 2 presses, 2 calls, 1 step of the rival or the seller |
| `seller` | overlapping uploads, timers, reloads, expiry: session, image, ended auctions, busy buttons | 1 Keplr account and the bypass, 2 items, 2 images, 2 calls or timers |

Finding a disagreement (TLC violates the one property):

| Run | Property | What the code does |
|---|---|---|
| `refund_locked` | `LosersRefunded` | no check ties the bid to the deposit; with bid > deposit RefundLosers always reverts |
| `backend_lost_bid` | `PriceIsBestReveal` | on Postgres two reveals overwrite each other |
| `backend_claim_and_refund` | `ClaimOrRefund` | refund before the reveal, claim after it |

Two more things the model follows and no run denies: on Postgres every start deletes
auctions and commitments, acknowledged or not (`CleanProofs` to `CleanAuctions`),
and on SQLite the migration throws before its first DELETE, so nothing is ever
cleaned. And two of the applications: a bid that was saved in a second tab is lost
when a page opened before it gets its reveal answered (the third disjunct of
`OnlyNewerBidsAreOverwritten`), and a bid the backend never stored is saved and
shown like any other.

Bounds. Two bidders and the seller, who may bid too, are the least that have a
winner, a loser and a tie; three bid values over the base price give losing,
winning and tying bids, and a value at the base price the proof must refuse.
Deposits 1 and 3 lie below and above the bids. Times 0 to 3 lie before, at both
ends of, and after the window. The loop run has four participants because a stale
local needs two changes of the leader. In the backend two requests are enough for
every race between two statements, two commitments for every competition of bids,
and one restart for every effect of a restart on the rows of the run before.
In the browser two tabs are the least that share a store, and three calls let one
bid be saved, another be saved elsewhere, and the first be revealed over it; two
calls under way give every order of two answers. The third auction of `views` is one
the list leaves out once the rival has created it; the starting histories are the
ones that differ for the pages: an unopened bid, two in one second on one auction and
on two. `MaxTime`, `MaxProofs`, `MaxRestarts`, `Items`, `Requests`,
`Calls`, `MaxSends`, `MaxCalls`, `MaxPresses`, `MaxFiles`, `MaxOthers` and `Files`
are the only bounds on behaviour; `Modal` bounds what can be deposited. The contract
runs turn deadlock checking off: a settled auction has no next message. Alice and bob
are interchangeable, as are wallets and requests in the safety runs, tabs in `buyer`,
items and files in `seller`; the liveness runs use no symmetry.

Fairness. Contract: time passes; the seller escrows the token, closes and determines
the winner, each bidder opens its own bid when it can, and somebody sends
RefundLosers. These are the participants' own interests, not promises of the code:
the liveness result says the contract does not stand in their way, and the hazards
list says what happens without them (a seller who never acts, a bid nobody opens).
Backend: the database answers each statement and the event loop goes on (`Progress`,
`Cleanup`). Clients need not call and the process need not restart. The browser
modules state no fairness: that a page is not left waiting is the safety property
that some call or timer is still due to release it (`WaitsOnlyForAnswers`,
`BusyHasACall`).

What still holds where a run finds a disagreement is checked as well.
`ShortfallFreezesRefunds` says what `refund_locked` runs into: the refunds ask for
the deposits plus what the winner's deposit is short of, and without stray ulct a
shortfall keeps every deposit in the contract, the losers' included.
`RecordIsOneReveal` says what is left of the price on Postgres: reveals overwrite
each other whole, so the record is always one acknowledged reveal above the starting
price, if not the best. One starting price equals the lower amount, so that
a reveal compared with nothing but the highest bid shows.

SettledOnce is stated for a contract without stray ulct. With it, RefundLosers,
which records nothing, can be sent again and pays out again as long as the balance
lasts; the deposits are already settled by then.

## Proofs

All for every value of the constants that satisfies the named assumptions.

* `LelangContractProofs`: `TypeInv` strengthens `TypeOK` with the roster (each record
  holder once in `daftar`) and with "a named winner has a record", which
  `RefundLosers` needs to compute natural amounts and `DetermineWinner` to name an
  account. `SealInv` adds the order of events a bid goes through (a bid is opened only
  after the close, and it hashes to a commitment that was proved above the base
  price); from both follow `SealedWhileBidding` and `OpenedIsSealed`. `WinnerInv` says
  the winner on record is the one `HighestAt` describes, which no later step can
  change because reveals need status Closed; `WinnerUndominated` follows.
  `TokenFollowsOutcome`, `BooksAreAppendOnly` and `OutcomeIsFinal` are proved from the
  actions and `TypeInv`.
  `Refinement` shows that the contract implements `SealedBidAuction`: a commitment
  seals, a close ends the bidding, a reveal opens, `DetermineWinner` awards, and
  every other message is a stutter.

  The money part assumes that there are finitely many accounts (`AkunAssumption`),
  without which a sum over them means nothing. `EscrowCoversDeposits` is inductive:
  a deposit adds the same amount to `kas` and to the total put in (`DepositAddsUp`),
  and nothing is paid before the winner is named. `SettledOnce` needs `SettleInv`:
  the contract holds exactly the deposits (`AllHeld`), or the winner is named, its
  deposit covers its bid and everybody has been paid (`AllPaid`); the bank then lets
  no second RefundLosers through (`NoSecondRefund`). `TotalDueIs` computes what the refunds take: all deposits, with
  the winner's replaced by its change, plus the price; `ShortfallFreezesRefunds`
  follows. `CoveredWinnerCanSettle` is the safety half of `CollateralLeavesEscrow`:
  when a winner whose deposit covers its bid is named, `kas` suffices for all refunds.
* `SumProofs`: `SumFunctionOnSet` is a fold, a recursive function on the subsets of
  the set. The lemmas show that the recursion has exactly one solution, that an
  element may be taken out in any order, and from that how a sum changes with one
  value. Induction over the set is replaced by a smallest counterexample: the strict
  inclusion of subsets of a finite set is well founded.
* `WinnerScanProofs`: the loop invariant `ScanInvariant` is inductive together with
  the type invariant; from it, the commit step is `DetermineWinner`, and an abort
  happens only when nobody qualifies.
* `AuctionBackendProofs`: for both engines. `TypeInv` adds to `TypeOK`
  that the item a `createAuction` inserts under has been issued. `RowsReferToRows`
  needs to know that the wallet of a reveal past its proof lookup has a profile:
  inserts are guarded by the foreign keys, but `highest_bidder_address` has none.
  `HighestWasCommitted` needs that every proof row, and every reveal that has found
  one, stems from a "stored" answer: the row itself may be deleted while the reveal
  runs. `ClaimantsRevealed` needs the same of highest bidders, and of claims between
  their SELECT and their INSERT, and "revealed" answers.
  `RecordIsOneReveal` needs two things more: the items that `createAuction` calls
  have drawn are distinct and have no auction yet (`CreatesApart`), so no row is
  replaced by a new one; and a reveal past its comparison has a value above the
  starting price of the row it will write (`WritesBeat`), which stays true because no
  statement changes that column, however the highest bid changes under it.
* `AuctionBookProofs`, from the assumption `DbType = "sqlite"`. First
  `PriceIsBestReveal`: the invariant says that handlers and the startup code run one
  at a time (`OneAtATime`), that the item of a `createAuction` in progress has no
  auction, that auctions with acknowledged reveals are there, and that a reveal about
  to write raises the price of the row as it is now. The last part is what Postgres
  breaks: run `backend_lost_bid`. Then `AuctionBackend` implements `AuctionBook`. The
  invariant is strengthened by `Decided`: what a handler read before its last
  statement (the auction a status call may change, the bidder a claim or a refund was
  decided on, the price a reveal beats) is still so when it writes. Every statement
  is then a step of the book or a stutter, a restart at any point included.
* `BuyerSessionProofs`: for any number of tabs, wallets, items and calls. `TypeInv`
  types calls and pages by their kind. `AckInv` says of every copy of bid_history, the
  stored one, those of open pages and those closed over by calls under way, that a
  revealed bid in it was acknowledged, and `answers` and `sealed` only grow, so it
  does not matter which copy is written back. `PriceInv` (the highest bid of an
  auction is the best of its acknowledged reveals) gives
  `RepeatedRevealChangesNothing`. `OnlyNewerBidsAreOverwritten` is proved from the
  actions and `TypeInv`.

* `BuyerPagesProofs`: for any number of auctions, saved bids and calls. `TypeInv` says
  of every call whose page is still shown that it finds a page of its own kind, and on
  the auction page of its own auction. `OpeningInv` adds that a form whose button is
  released has written the key file of exactly what it will send, which the salt and
  the auction changing under the form must not break. `MarkInv` says of every copy of
  the marks, stored, shown or closed over by a call, that the backend acknowledged
  them. `Covered` splits the marketplace's auctions into those still to ask for, those
  missed and those whose commits are collected. `AmountsAreOfTheRowsAuction` follows
  the hash of a row back to the first of the saved bids on that row's auction, which
  exists because the least position of a nonempty set of positions is one of them
  (`MinIsMember`); neither the wallet nor the saved bids change while the leaderboard
  is shown, so it does not matter which selection is answered last.

* `SellerAppProofs`: for any number of accounts, auctions, images and calls.
  `TypeInv` says that a call finds a page of its kind as long as that page is shown.
  `SessionInv` lists the three sessions there can be: nobody, the bypass with its
  wallet, a wallet with a token issued to it; that a login's answer makes no fourth
  is shown from `AuthMiddleware`, under the assumption that the names of tokens and
  signatures are distinct. `ImageInv` follows the image from the upload through the
  form and the call to the row, `EndedInv` the status from the row through the timer
  to the page. `BusyHasACall` is inductive as it stands.

The four parts around the backend fit together by theorems of one form. Buyer
(`BuyerKeepsToTheBook`), pages (`PagesKeepToTheBook`) and seller
(`SellerKeepsToTheBook`) change the backend's state only by steps of `AuctionBook`,
whatever calls are lost or answered late, and the detailed backend with SQLite
implements the same book (`SqliteImplementsBook`). So what the applications rely on is
no more than what the backend delivers there. Each proof maps every action to one
call of the book or to a stutter; what has to be shown is that the arguments a page
sends are ones the book takes (a known caller, an amount, an issued item). The seller
starts from the book's initial state, so its theorem is the whole of `Book!Spec`; the
buyer starts from an auction that exists, so the other two are about the steps. On
Postgres there is no such theorem: `backend_lost_bid` is the counterexample.

Only model-checked: `CollateralLeavesEscrow` and `RequestsAnswered`. Both are liveness
properties under fairness, and what fairness makes happen is stated with ENABLED.

## Not modelled

* `pages/NetworkMonitoring.jsx` and `pages/SecurityReport.jsx` show fixed text and what
  a node's RPC answers, polled by timers; they change nothing.
* In the buyer application: the wallet's balance, which only limits the amounts
  offered, the time left that pages count down, the search text, `utils/zkp.js`, which
  nothing imports.
* In the backend: the columns createOrUpdateUserProfile writes, markNotificationAsRead,
  generateZKPProofFallback, the checks of an upload's type and size, `db/migrate.js`,
  which creates the tables once before the server runs.
* Proof points and pairings, and the arithmetic of Poseidon and keccak256: proofs are
  sound and hashes collision free by assumption.
* `x/lelang`, `app/`, `chain/`: the scaffold's modules and wiring. The only message sets
  an empty parameter list, and the auction runs in the contract; `chain/app` has
  unresolved merge markers and does not compile.
* `zkp-circuits/*.js`, `scripts/`, `faucet.sh`: offline tools and set-up, and generated
  Go and witness code.

What could come next: two processes of the backend on one Postgres database, and the
zero-height export of `app/export.go`, once the chain carries the auctions.
