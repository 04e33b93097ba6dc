--------------------------- MODULE LelangContract ---------------------------
(***************************************************************************)
(* The CosmWasm sealed-bid auction contract, contracts/lelang/src, with    *)
(* the bank balances it holds and the block clock it reads.  One action    *)
(* per ExecuteMsg.  A transaction that returns Err is rolled back by the   *)
(* chain, so it is a stuttering step and has no action; a transaction that *)
(* returns Ok runs to completion, its bank and CW721 sub-messages          *)
(* included, before the next one starts.                                   *)
(*                                                                         *)
(* A commitment is the decimal text of Poseidon(bid, salt).  The hash is   *)
(* taken to be collision free, so the value it commits to is kept in the   *)
(* record; what the text adds is its encoding (see ParseFr).               *)
(***************************************************************************)
EXTENDS Integers, Sequences, FiniteSets, Functions

CONSTANTS
    Akun,          \* chain accounts; any of them may send any message
    Penjual,       \* the account that instantiated the contract
    Kontrak,       \* the contract's own address, as an owner of the token
    HargaDasar,    \* harga_dasar
    WaktuMulai,    \* waktu_mulai
    WaktuBerakhir, \* waktu_berakhir
    PakaiCw721,    \* whether cw721_address is configured
    Deposits,      \* the amounts a bidder may attach to DepositCollateral
    StrayAmounts,  \* ulct that may reach the contract by any other way
    Bids,          \* nominal bids
    Salts,         \* salts
    Encodings,     \* how a bidder may write the commitment as a decimal
    Modal,         \* ulct each account holds at instantiation
    MaxTime,       \* bound: the block clock stops here
    None           \* Option::None and the empty bid_commitment

(***************************************************************************)
(* instantiate refuses waktu_berakhir <= waktu_mulai.  Coins of amount     *)
(* zero do not exist in info.funds.  An address is a text of bounded       *)
(* length, so there are finitely many.                                     *)
(***************************************************************************)
ASSUME AkunAssumption ==
    /\ Penjual \in Akun /\ Kontrak \notin Akun
    /\ IsFiniteSet(Akun)
ASSUME TimeAssumption ==
    /\ WaktuMulai \in Nat /\ WaktuBerakhir \in Nat /\ MaxTime \in Nat
    /\ WaktuMulai < WaktuBerakhir
ASSUME AmountAssumption ==
    /\ HargaDasar \in Nat /\ Modal \in Nat
    /\ Bids \subseteq Nat
    /\ Deposits \subseteq Nat \ {0}
    /\ StrayAmounts \subseteq Nat \ {0}
ASSUME FlagAssumption ==
    /\ PakaiCw721 \in BOOLEAN
    /\ Encodings \subseteq {"canonical", "unreduced"}

VARIABLES
    status,                    \* Auction.status
    pemenang,                  \* Auction.pemenang
    highest_bid,               \* Auction.highest_bid
    commitment_hash_tertinggi, \* Auction.commitment_hash_tertinggi
    peserta,                   \* PESERTA: address -> record
    daftar,                    \* DAFTAR_PESERTA: addresses, in order of deposit
    now,                       \* env.block.time, in seconds
    kas,                       \* ulct held by the contract
    saldo,                     \* ulct held by each account
    nft                        \* owner of the auctioned CW721 token

auctionVars == <<status, pemenang, highest_bid, commitment_hash_tertinggi>>
bankVars == <<kas, saldo>>
vars == <<auctionVars, peserta, daftar, now, bankVars, nft>>

AuctionStatus == {"Active", "Closed", "WinnerDetermined"}

Commitment == [bid : Bids, salt : Salts,
               encoding : {"canonical", "unreduced"}]

Peserta == [bid_commitment  : Commitment \cup {None},
            is_verified     : BOOLEAN,
            deposit_amount  : Nat \ {0},
            revealed_bid    : Bids \cup {None},
            revealed_salt   : Salts \cup {None}]

ASSUME NoneAssumption == None \notin Commitment \cup Bids \cup Salts \cup Akun

-----------------------------------------------------------------------------
(***************************************************************************)
(* Hashes and proofs.                                                      *)
(***************************************************************************)

\* compute_poseidon_hash: the text is the reduced field element's.
PoseidonHash(bid, salt) ==
    [bid |-> bid, salt |-> salt, encoding |-> "canonical"]

\* Fr::from_str on a commitment text: texts congruent modulo the field's
\* prime parse to the same element.
ParseFr(text) == [text EXCEPT !.encoding = "canonical"]

\* The public signals circuit.circom forces on a witness.
CircuitSignals(witness) ==
    [is_valid        |-> witness.bid > witness.harga_dasar,
     commitment_hash |-> PoseidonHash(witness.bid, witness.salt),
     harga_dasar     |-> witness.harga_dasar]

\* A Groth16 proof stands for the witness it was generated from.
Proof == [bid : Bids, salt : Salts, harga_dasar : {0, HargaDasar}]

\* Variant: the statement's first public input is_valid is not compared.
VerifyProof_AnyValidity(text, proof) ==
    /\ CircuitSignals(proof).commitment_hash = ParseFr(text)
    /\ CircuitSignals(proof).harga_dasar = HargaDasar

\* verify_proof with the public inputs ["1", bid_commitment, harga_dasar].
VerifyProof(text, proof) ==
    CircuitSignals(proof) = [is_valid        |-> TRUE,
                             commitment_hash |-> ParseFr(text),
                             harga_dasar     |-> HargaDasar]

-----------------------------------------------------------------------------
Init ==
    /\ status = "Active"
    /\ pemenang = None
    /\ highest_bid = None
    /\ commitment_hash_tertinggi = None
    /\ peserta = [a \in {} |-> None]
    /\ daftar = << >>
    /\ now = 0
    /\ kas = 0
    /\ saldo = [a \in Akun |-> Modal]
    /\ nft = Penjual

Deposited(a) == a \in DOMAIN peserta

BiddingOpen ==
    /\ status = "Active"
    /\ WaktuMulai <= now
    /\ now <= WaktuBerakhir

\* What DepositCollateral does to the records and the balances.
RecordDeposit(sender, amount, recorded) ==
    /\ peserta' = [a \in DOMAIN peserta \cup {sender} |->
                     IF a = sender
                       THEN [bid_commitment |-> None, is_verified |-> FALSE,
                             deposit_amount |-> recorded,
                             revealed_bid |-> None, revealed_salt |-> None]
                       ELSE peserta[a]]
    /\ daftar' = Append(daftar, sender)
    /\ saldo' = [saldo EXCEPT ![sender] = @ - amount]
    /\ kas' = kas + amount
    /\ UNCHANGED <<auctionVars, now, nft>>

\* Variant: PESERTA is not asked whether the sender is already in it.
DepositCollateral_Twice(sender, amount) ==
    /\ BiddingOpen
    /\ amount >= HargaDasar
    /\ saldo[sender] >= amount
    /\ RecordDeposit(sender, amount, amount)

\* Variant: a coin of another denomination is counted with the ulct.
DepositCollateral_AnyDenom(sender, amount) ==
    /\ BiddingOpen
    /\ amount >= HargaDasar
    /\ ~ Deposited(sender)
    /\ saldo[sender] >= amount
    /\ RecordDeposit(sender, amount, amount + 1)

\* Variant: the record holds what exceeds the base price.
DepositCollateral_NetOfBase(sender, amount) ==
    /\ BiddingOpen
    /\ amount >= HargaDasar
    /\ ~ Deposited(sender)
    /\ saldo[sender] >= amount
    /\ RecordDeposit(sender, amount, amount - HargaDasar)

\* execute_deposit_collateral; the chain moves the attached coin first.
DepositCollateral(sender, amount) ==
    /\ BiddingOpen
    /\ amount >= HargaDasar
    /\ ~ Deposited(sender)
    /\ saldo[sender] >= amount
    /\ RecordDeposit(sender, amount, amount)

\* Variant: a second commitment replaces the first.
SubmitBidCommitment_Again(sender, text, proof) ==
    /\ BiddingOpen
    /\ Deposited(sender)
    /\ VerifyProof(text, proof)
    /\ peserta' = [peserta EXCEPT ![sender].bid_commitment = text,
                                  ![sender].is_verified = TRUE]
    /\ UNCHANGED <<auctionVars, daftar, now, bankVars, nft>>

\* execute_submit_bid_commitment.
SubmitBidCommitment(sender, text, proof) ==
    /\ BiddingOpen
    /\ Deposited(sender)
    /\ peserta[sender].bid_commitment = None
    /\ VerifyProof(text, proof)
    /\ peserta' = [peserta EXCEPT ![sender].bid_commitment = text,
                                  ![sender].is_verified = TRUE]
    /\ UNCHANGED <<auctionVars, daftar, now, bankVars, nft>>

\* Variant: the status is not looked at.
CloseAuction_AnyStatus(sender) ==
    /\ sender = Penjual \/ now > WaktuBerakhir
    /\ status' = "Closed"
    /\ UNCHANGED <<pemenang, highest_bid, commitment_hash_tertinggi,
                   peserta, daftar, now, bankVars, nft>>

\* execute_close_auction: the seller at any time, anyone after the end.
CloseAuction(sender) ==
    /\ status = "Active"
    /\ sender = Penjual \/ now > WaktuBerakhir
    /\ status' = "Closed"
    /\ UNCHANGED <<pemenang, highest_bid, commitment_hash_tertinggi,
                   peserta, daftar, now, bankVars, nft>>

\* Variant: revealing is allowed while the auction is still active.
RevealBid_WhileActive(sender, bid, salt) ==
    /\ status # "WinnerDetermined"
    /\ Deposited(sender)
    /\ peserta[sender].revealed_bid = None
    /\ PoseidonHash(bid, salt) = peserta[sender].bid_commitment
    /\ peserta' = [peserta EXCEPT ![sender].revealed_bid = bid,
                                  ![sender].revealed_salt = salt]
    /\ UNCHANGED <<auctionVars, daftar, now, bankVars, nft>>

\* Variant: the hash is computed and not compared.
RevealBid_Unchecked(sender, bid, salt) ==
    /\ status = "Closed"
    /\ Deposited(sender)
    /\ peserta[sender].revealed_bid = None
    /\ peserta' = [peserta EXCEPT ![sender].revealed_bid = bid,
                                  ![sender].revealed_salt = salt]
    /\ UNCHANGED <<auctionVars, daftar, now, bankVars, nft>>

\* execute_reveal_bid: the texts are compared, not the field elements.
RevealBid(sender, bid, salt) ==
    /\ status = "Closed"
    /\ Deposited(sender)
    /\ peserta[sender].revealed_bid = None
    /\ PoseidonHash(bid, salt) = peserta[sender].bid_commitment
    /\ peserta' = [peserta EXCEPT ![sender].revealed_bid = bid,
                                  ![sender].revealed_salt = salt]
    /\ UNCHANGED <<auctionVars, daftar, now, bankVars, nft>>

-----------------------------------------------------------------------------
(***************************************************************************)
(* execute_determine_winner scans DAFTAR_PESERTA with a strict comparison  *)
(* from zero; WinnerLoop shows that the scan ends at the position          *)
(* HighestAt describes, and at none when there is no such position.        *)
(***************************************************************************)
Qualified(i) ==
    /\ peserta[daftar[i]].is_verified
    /\ peserta[daftar[i]].revealed_bid # None
    /\ peserta[daftar[i]].revealed_bid > 0

BidAt(i) == peserta[daftar[i]].revealed_bid

\* Variant: the comparison is not strict, so the last of equals wins.
HighestAt_LastOfEquals(i) ==
    /\ i \in DOMAIN daftar
    /\ Qualified(i)
    /\ \A j \in DOMAIN daftar :
         Qualified(j) => /\ BidAt(j) <= BidAt(i)
                         /\ j > i => BidAt(j) < BidAt(i)

HighestAt(i) ==
    /\ i \in DOMAIN daftar
    /\ Qualified(i)
    /\ \A j \in DOMAIN daftar :
         Qualified(j) => /\ BidAt(j) <= BidAt(i)
                         /\ j < i => BidAt(j) < BidAt(i)

\* Variant: the TransferNft message is built and not added to the response.
DetermineWinner_NoTransfer(sender) ==
    /\ status = "Closed"
    /\ sender = Penjual
    /\ \E i \in DOMAIN daftar :
         /\ HighestAt(i)
         /\ pemenang' = daftar[i]
         /\ highest_bid' = BidAt(i)
         /\ commitment_hash_tertinggi' = peserta[daftar[i]].bid_commitment
    /\ status' = "WinnerDetermined"
    /\ UNCHANGED <<peserta, daftar, now, bankVars, nft>>

\* The TransferNft sub-message fails, and with it the transaction, unless
\* the contract holds the token.
DetermineWinner(sender) ==
    /\ status = "Closed"
    /\ sender = Penjual
    /\ PakaiCw721 => nft = Kontrak
    /\ \E i \in DOMAIN daftar :
         /\ HighestAt(i)
         /\ pemenang' = daftar[i]
         /\ highest_bid' = BidAt(i)
         /\ commitment_hash_tertinggi' = peserta[daftar[i]].bid_commitment
         /\ nft' = IF PakaiCw721 THEN daftar[i] ELSE nft
    /\ status' = "WinnerDetermined"
    /\ UNCHANGED <<peserta, daftar, now, bankVars>>

\* Variant: Uint128::abs_diff.
SaturatingSub_AbsDiff(a, b) == IF a >= b THEN a - b ELSE b - a

\* Uint128::saturating_sub.
SaturatingSub(a, b) == IF a >= b THEN a - b ELSE 0

\* Variant: the winner's change is forgotten.
DueAsPeserta_NoChange(a) ==
    IF ~ Deposited(a) \/ a = pemenang THEN 0 ELSE peserta[a].deposit_amount

\* Variant: the winner is refunded like a loser.
DueAsPeserta_FullRefund(a) ==
    IF ~ Deposited(a) THEN 0 ELSE peserta[a].deposit_amount

\* What the BankMsg::Send messages of execute_refund_losers give account a.
DueAsPeserta(a) ==
    IF ~ Deposited(a) THEN 0
    ELSE IF a = pemenang
           THEN SaturatingSub(peserta[a].deposit_amount, highest_bid)
           ELSE peserta[a].deposit_amount

DueTo(a) == DueAsPeserta(a) + (IF a = Penjual THEN highest_bid ELSE 0)

TotalDue == SumFunction([a \in Akun |-> DueTo(a)])

\* execute_refund_losers, by anyone; it leaves the contract's storage as it
\* is.  The bank refuses to send more than the contract holds, which
\* reverts all of the messages.
RefundLosers ==
    /\ status = "WinnerDetermined"
    /\ TotalDue \in 0 .. kas
    /\ kas' = kas - TotalDue
    /\ saldo' = [a \in Akun |-> saldo[a] + DueTo(a)]
    /\ UNCHANGED <<auctionVars, peserta, daftar, now, nft>>

-----------------------------------------------------------------------------
(***************************************************************************)
(* The environment.                                                        *)
(***************************************************************************)

\* ulct that arrives without a deposit record: a bank transfer, or coins
\* attached to a message whose handler does not look at info.funds.
StrayFunds(sender, amount) ==
    /\ saldo[sender] >= amount
    /\ saldo' = [saldo EXCEPT ![sender] = @ - amount]
    /\ kas' = kas + amount
    /\ UNCHANGED <<auctionVars, peserta, daftar, now, nft>>

\* The seller hands the token to the contract (or approves it).
EscrowNft ==
    /\ PakaiCw721
    /\ nft = Penjual
    /\ status # "WinnerDetermined"
    /\ nft' = Kontrak
    /\ UNCHANGED <<auctionVars, peserta, daftar, now, bankVars>>

Tick ==
    /\ now < MaxTime
    /\ now' = now + 1
    /\ UNCHANGED <<auctionVars, peserta, daftar, bankVars, nft>>

Next ==
    \/ \E a \in Akun, d \in Deposits : DepositCollateral(a, d)
    \/ \E a \in Akun, b \in Bids, s \in Salts, e \in Encodings, p \in Proof :
         SubmitBidCommitment(a, [bid |-> b, salt |-> s, encoding |-> e], p)
    \/ \E a \in Akun : CloseAuction(a)
    \/ \E a \in Akun, b \in Bids, s \in Salts : RevealBid(a, b, s)
    \/ \E a \in Akun : DetermineWinner(a)
    \/ RefundLosers
    \/ \E a \in Akun, n \in StrayAmounts : StrayFunds(a, n)
    \/ EscrowNft
    \/ Tick

Spec == Init /\ [][Next]_vars

-----------------------------------------------------------------------------
(***************************************************************************)
(* Fairness.  Blocks keep coming; a message that stays executable is sent  *)
(* in the end, because its sender has an interest in it: bidders and       *)
(* observers close an expired auction and ask for the refunds, a bidder    *)
(* opens its own bid, the seller escrows the token and names the winner.   *)
(* Nothing is assumed of deposits and commitments: nobody has to bid.      *)
(***************************************************************************)
OpenOwnBid(a) == \E b \in Bids, s \in Salts : RevealBid(a, b, s)

Fairness ==
    /\ WF_vars(Tick)
    /\ WF_vars(EscrowNft)
    /\ WF_vars(\E a \in Akun : CloseAuction(a))
    /\ \A a \in Akun : WF_vars(OpenOwnBid(a))
    /\ WF_vars(DetermineWinner(Penjual))
    /\ WF_vars(RefundLosers)

FairSpec == Spec /\ Fairness

-----------------------------------------------------------------------------
(***************************************************************************)
(* Safety.                                                                 *)
(***************************************************************************)

\* Every variable has its type.
TypeOK ==
    /\ status \in AuctionStatus
    /\ pemenang \in Akun \cup {None}
    /\ highest_bid \in Bids \cup {None}
    /\ commitment_hash_tertinggi \in Commitment \cup {None}
    /\ DOMAIN peserta \subseteq Akun
    /\ peserta \in [DOMAIN peserta -> Peserta]
    /\ daftar \in Seq(Akun)
    /\ now \in Nat
    /\ kas \in Nat
    /\ saldo \in [Akun -> Nat]
    /\ nft \in Akun \cup {Kontrak}

\* DAFTAR_PESERTA, which the winner scan and the refunds walk, names every
\* holder of a PESERTA record exactly once: nobody is scanned or paid twice
\* and nobody is forgotten.
RosterMatchesRecords ==
    /\ \A i, j \in DOMAIN daftar : daftar[i] = daftar[j] => i = j
    /\ {daftar[i] : i \in DOMAIN daftar} = DOMAIN peserta

\* What account a has put in, and what all of them have.
PutIn(a) == IF Deposited(a) THEN peserta[a].deposit_amount ELSE 0
TotalPutIn == SumFunction([a \in Akun |-> PutIn(a)])

\* Until the winner is named the contract can give every deposit back.
EscrowCoversDeposits ==
    status # "WinnerDetermined" => kas >= TotalPutIn

\* As long as somebody may still commit, no bid is open: no commitment can
\* be chosen in the knowledge of another bidder's number.
SealedWhileBidding ==
    status = "Active" =>
      \A a \in DOMAIN peserta : peserta[a].revealed_bid = None

\* An opened bid is the one the bidder sealed and the proof was about: it
\* hashes to the commitment and exceeds the base price.
OpenedIsSealed ==
    \A a \in DOMAIN peserta :
      LET p == peserta[a] IN
      p.revealed_bid # None =>
        /\ p.bid_commitment = PoseidonHash(p.revealed_bid, p.revealed_salt)
        /\ p.is_verified
        /\ p.revealed_bid > HargaDasar

\* The winner on record opened the highest bid, the earliest depositor among
\* equals; the recorded price and commitment are that bidder's own; the bid
\* exceeds the base price; and this stays so after the fact.
WinnerUndominated ==
    status = "WinnerDetermined" =>
      \E i \in DOMAIN daftar :
        /\ daftar[i] = pemenang
        /\ highest_bid = BidAt(i)
        /\ highest_bid > HargaDasar
        /\ commitment_hash_tertinggi = peserta[pemenang].bid_commitment
        /\ \A j \in DOMAIN daftar \ {i} :
             BidAt(j) # None =>
               \/ BidAt(j) < highest_bid
               \/ BidAt(j) = highest_bid /\ i < j

\* The token changes hands in the very transaction that names the winner:
\* never earlier, never to another bidder, and never not at all.
TokenFollowsOutcome ==
    PakaiCw721 =>
      IF status = "WinnerDetermined" THEN nft = pemenang
                                     ELSE nft \in {Penjual, Kontrak}

\* What account a gains when everything is paid out.
Price(a) == (IF a = Penjual THEN highest_bid ELSE 0)
            - (IF a = pemenang THEN highest_bid ELSE 0)

\* With no stray ulct in the contract, settlement is all or nothing and
\* happens once: every deposit is still held, or the contract is empty, the
\* winner has paid its own bid to the seller, and everyone else has exactly
\* what it had before.  RefundLosers writes no flag, so that it cannot pay
\* twice rests on the balance alone.
SettledOnce ==
    StrayAmounts = {} =>
      \/ /\ kas = TotalPutIn
         /\ \A a \in Akun : saldo[a] = Modal - PutIn(a)
      \/ /\ status = "WinnerDetermined"
         /\ kas = 0
         /\ \A a \in Akun : saldo[a] = Modal + Price(a)

\* What the winner's deposit lacks to the price.
Shortfall ==
    IF PutIn(pemenang) < highest_bid THEN highest_bid - PutIn(pemenang) ELSE 0

\* The refunds together take the deposits and whatever the winner's deposit
\* is short of.  With no stray ulct the contract never holds more than the
\* deposits, so a winner whose deposit is short freezes everybody's: nothing
\* leaves the contract any more (contract.rs:337 saturates, and the seller's
\* payment after it is not capped).
ShortfallFreezesRefunds ==
    status = "WinnerDetermined" =>
        /\ TotalDue = TotalPutIn + Shortfall
        /\ StrayAmounts = {} /\ Shortfall > 0 => kas = TotalPutIn

-----------------------------------------------------------------------------
(***************************************************************************)
(* Action properties.                                                      *)
(***************************************************************************)

\* A deposit, a commitment and an opened bid, once recorded, never change,
\* and nobody enters or commits after the auction is closed.
BooksAreAppendOnly ==
    [][/\ DOMAIN peserta \subseteq DOMAIN peserta'
       /\ \A a \in DOMAIN peserta :
            LET old == peserta[a]  new == peserta'[a] IN
            /\ new.deposit_amount = old.deposit_amount
            /\ old.bid_commitment # None => new.bid_commitment = old.bid_commitment
            /\ old.revealed_bid # None => new.revealed_bid = old.revealed_bid
            /\ status # "Active" => new.bid_commitment = old.bid_commitment
       /\ status # "Active" => DOMAIN peserta' = DOMAIN peserta]_vars

\* The status only moves forward, one stage at a time, and a named winner is
\* never replaced.
OutcomeIsFinal ==
    [][/\ status = "Active" => status' # "WinnerDetermined"
       /\ status = "Closed" => status' # "Active"
       /\ status = "WinnerDetermined" => UNCHANGED <<auctionVars, peserta>>]_vars

-----------------------------------------------------------------------------
(***************************************************************************)
(* Liveness.                                                               *)
(***************************************************************************)

\* The commitment can be opened: its text is the one PoseidonHash gives.
Openable(a) ==
    /\ Deposited(a)
    /\ peserta[a].bid_commitment # None
    /\ peserta[a].bid_commitment.encoding = "canonical"

\* If anybody made an openable bid, the auction is settled in the end: no
\* collateral stays in the contract.
CollateralLeavesEscrow ==
    (\E a \in Akun : Openable(a)) ~> (status = "WinnerDetermined" /\ kas = 0)

\* A bidder who lost gets its whole deposit back.
LosersRefunded ==
    \A a \in Akun \ {Penjual} :
      (status = "WinnerDetermined" /\ Deposited(a) /\ a # pemenang)
        ~> (saldo[a] = Modal)

-----------------------------------------------------------------------------
(***************************************************************************)
(* The contract as a sealed-bid auction: the commitments are the sealed    *)
(* bids, the reveals the opened ones.                                      *)
(***************************************************************************)
Phase == CASE status = "Active" -> "bidding"
           [] status = "Closed" -> "opening"
           [] OTHER -> "awarded"

SealedBids == [a \in {b \in DOMAIN peserta : peserta[b].bid_commitment # None}
                 |-> peserta[a].bid_commitment.bid]

OpenedBids == {a \in DOMAIN peserta : peserta[a].revealed_bid # None}

AwardOnRecord == IF status = "WinnerDetermined"
                   THEN [winner |-> pemenang, price |-> highest_bid]
                   ELSE None

Auction == INSTANCE SealedBidAuction
             WITH Bidders <- Akun, Reserve <- HargaDasar, Amounts <- Bids,
                  NoAward <- None, phase <- Phase, sealed <- SealedBids,
                  opened <- OpenedBids, award <- AwardOnRecord

\* The contract keeps the promises of SealedBidAuction.
ImplementsSealedBidAuction == Auction!Spec

=============================================================================
