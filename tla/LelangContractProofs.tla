------------------------ MODULE LelangContractProofs ------------------------
(***************************************************************************)
(* Proofs about LelangContract, for every set of accounts, amounts and     *)
(* times the assumptions allow.                                            *)
(***************************************************************************)
EXTENDS LelangContract, SumProofs

-----------------------------------------------------------------------------
(***************************************************************************)
(* Typing.  The winner is read through DAFTAR_PESERTA, and the refunds are *)
(* computed from the winner's bid, so the types are inductive only with    *)
(* the roster and with the fact that a named winner is a participant.      *)
(***************************************************************************)
WinnerOnRecord ==
    status = "WinnerDetermined" =>
      /\ pemenang \in DOMAIN peserta
      /\ highest_bid \in Bids

TypeInv == TypeOK /\ RosterMatchesRecords /\ WinnerOnRecord

\* What a commitment accepted by verify_proof commits to exceeds the base
\* price, whichever way its text is written.
LEMMA VerifiedAboveBase ==
  ASSUME NEW b \in Bids, NEW s \in Salts, NEW e \in Encodings, NEW p \in Proof,
         VerifyProof([bid |-> b, salt |-> s, encoding |-> e], p)
  PROVE  b > HargaDasar
<1>1. /\ (p.bid > p.harga_dasar) = TRUE
      /\ PoseidonHash(p.bid, p.salt) = ParseFr([bid |-> b, salt |-> s, encoding |-> e])
      /\ p.harga_dasar = HargaDasar
  BY DEF VerifyProof, CircuitSignals
<1>2. p.bid = b
  BY <1>1 DEF PoseidonHash, ParseFr
<1>3. QED
  BY <1>1, <1>2

\* A deposit record holds what DepositCollateral wrote; its owner joins the
\* roster once.
LEMMA DepositPreservesTypeInv ==
  ASSUME TypeInv, NEW a \in Akun, NEW d \in Deposits, DepositCollateral(a, d)
  PROVE  TypeInv'
<1> USE DEF TypeInv, TypeOK
<1> DEFINE rec == [bid_commitment |-> None, is_verified |-> FALSE,
                   deposit_amount |-> d,
                   revealed_bid |-> None, revealed_salt |-> None]
<1>1. rec \in Peserta
  BY AmountAssumption DEF Peserta
<1>2. peserta' = [x \in DOMAIN peserta \cup {a} |->
                    IF x = a THEN rec ELSE peserta[x]]
  BY DEF DepositCollateral, RecordDeposit
<1>3. /\ DOMAIN peserta' = DOMAIN peserta \cup {a}
      /\ peserta' \in [DOMAIN peserta' -> Peserta]
      /\ DOMAIN peserta' \subseteq Akun
  <2> HIDE DEF rec
  <2> QED
    BY <1>1, <1>2
<1>4. daftar' = Append(daftar, a) /\ a \notin DOMAIN peserta
  BY DEF DepositCollateral, RecordDeposit, Deposited
<1>5. daftar \in Seq(Akun) /\ daftar' \in Seq(Akun)
  BY <1>4
<1>6. saldo' \in [Akun -> Nat] /\ kas' \in Nat
  <2>1. d \in Nat /\ saldo[a] - d \in Nat
    BY AmountAssumption DEF DepositCollateral, RecordDeposit
  <2>2. saldo' = [saldo EXCEPT ![a] = saldo[a] - d] /\ kas' = kas + d
    BY DEF DepositCollateral, RecordDeposit
  <2>3. QED
    BY <2>1, <2>2
<1>7. UNCHANGED <<auctionVars, now, nft>>
  BY DEF DepositCollateral, RecordDeposit
<1>8. TypeOK'
  BY <1>3, <1>5, <1>6, <1>7 DEF auctionVars
<1>9. RosterMatchesRecords'
  <2>1. /\ Len(daftar') = Len(daftar) + 1
        /\ DOMAIN daftar = 1 .. Len(daftar)
        /\ DOMAIN daftar' = 1 .. Len(daftar) + 1
        /\ \A i \in 1 .. Len(daftar) : daftar'[i] = daftar[i]
        /\ daftar'[Len(daftar) + 1] = a
        /\ Len(daftar) \in Nat
    BY <1>4, <1>5
  <2>2. /\ \A i, j \in DOMAIN daftar : daftar[i] = daftar[j] => i = j
        /\ {daftar[i] : i \in DOMAIN daftar} = DOMAIN peserta
    BY DEF RosterMatchesRecords
  <2>3. \A i \in 1 .. Len(daftar) : daftar[i] # a
    BY <1>4, <2>1, <2>2
  <2>4. \A i, j \in DOMAIN daftar' : daftar'[i] = daftar'[j] => i = j
    <3> SUFFICES ASSUME NEW i \in 1 .. Len(daftar) + 1,
                        NEW j \in 1 .. Len(daftar) + 1,
                        daftar'[i] = daftar'[j]
                 PROVE  i = j
      BY <2>1
    <3>1. CASE i = Len(daftar) + 1
      BY <3>1, <2>1, <2>3
    <3>2. CASE j = Len(daftar) + 1
      BY <3>2, <2>1, <2>3
    <3>3. CASE i \in 1 .. Len(daftar) /\ j \in 1 .. Len(daftar)
      BY <3>3, <2>1, <2>2
    <3>4. QED
      BY <3>1, <3>2, <3>3, <2>1
  <2>5. {daftar'[i] : i \in DOMAIN daftar'} = DOMAIN peserta'
    <3>1. \A i \in DOMAIN daftar' : daftar'[i] \in DOMAIN peserta'
      BY <2>1, <2>2, <1>3
    <3>2. ASSUME NEW x \in DOMAIN peserta'
          PROVE  \E i \in DOMAIN daftar' : x = daftar'[i]
      <4>1. CASE x = a
        BY <4>1, <2>1
      <4>2. CASE x \in DOMAIN peserta
        <5>1. PICK i \in DOMAIN daftar : x = daftar[i]
          BY <4>2, <2>2
        <5>2. QED
          BY <5>1, <2>1
      <4>3. QED
        BY <4>1, <4>2, <1>3
    <3>3. QED
      BY <3>1, <3>2
  <2>6. QED
    BY <2>4, <2>5 DEF RosterMatchesRecords
<1>10. WinnerOnRecord'
  BY <1>3, <1>7 DEF WinnerOnRecord, auctionVars
<1>11. QED
  BY <1>8, <1>9, <1>10

LEMMA SubmitPreservesTypeInv ==
  ASSUME TypeInv, NEW a \in Akun, NEW b \in Bids, NEW s \in Salts,
         NEW e \in Encodings, NEW p \in Proof,
         SubmitBidCommitment(a, [bid |-> b, salt |-> s, encoding |-> e], p)
  PROVE  TypeInv'
<1> USE DEF TypeInv, TypeOK
<1> DEFINE text == [bid |-> b, salt |-> s, encoding |-> e]
           rec == [peserta[a] EXCEPT !.bid_commitment = text,
                                     !.is_verified = TRUE]
<1>1. text \in Commitment
  BY FlagAssumption DEF Commitment
<1>2. a \in DOMAIN peserta /\ peserta[a] \in Peserta
  BY DEF SubmitBidCommitment, Deposited
<1>3. rec \in Peserta
  <2> HIDE DEF text
  <2> QED
    BY <1>1, <1>2 DEF Peserta
<1>4. peserta' = [peserta EXCEPT ![a] = rec]
  BY <1>2 DEF SubmitBidCommitment
<1> HIDE DEF rec
<1>5. /\ peserta' \in [DOMAIN peserta -> Peserta]
      /\ DOMAIN peserta' = DOMAIN peserta
  BY <1>2, <1>3, <1>4
<1>6. UNCHANGED <<auctionVars, daftar, now, bankVars, nft>>
  BY DEF SubmitBidCommitment
<1>7. QED
  BY <1>5, <1>6 DEF auctionVars, bankVars, RosterMatchesRecords, WinnerOnRecord

LEMMA RevealPreservesTypeInv ==
  ASSUME TypeInv, NEW a \in Akun, NEW b \in Bids, NEW s \in Salts,
         RevealBid(a, b, s)
  PROVE  TypeInv'
<1> USE DEF TypeInv, TypeOK
<1> DEFINE rec == [peserta[a] EXCEPT !.revealed_bid = b, !.revealed_salt = s]
<1>1. a \in DOMAIN peserta /\ peserta[a] \in Peserta
  BY DEF RevealBid, Deposited
<1>2. rec \in Peserta
  BY <1>1 DEF Peserta
<1>3. peserta' = [peserta EXCEPT ![a] = rec]
  BY <1>1 DEF RevealBid
<1> HIDE DEF rec
<1>4. /\ peserta' \in [DOMAIN peserta -> Peserta]
      /\ DOMAIN peserta' = DOMAIN peserta
  BY <1>1, <1>2, <1>3
<1>5. UNCHANGED <<auctionVars, daftar, now, bankVars, nft>>
  BY DEF RevealBid
<1>6. QED
  BY <1>4, <1>5 DEF auctionVars, bankVars, RosterMatchesRecords, WinnerOnRecord

\* Whoever HighestAt points at has a record and an opened bid.
LEMMA HighestIsParticipant ==
  ASSUME TypeInv, NEW i \in DOMAIN daftar, HighestAt(i)
  PROVE  /\ daftar[i] \in DOMAIN peserta
         /\ daftar[i] \in Akun
         /\ peserta[daftar[i]] \in Peserta
         /\ BidAt(i) \in Bids
<1>1. daftar[i] \in DOMAIN peserta
  BY DEF TypeInv, RosterMatchesRecords
<1>2. peserta[daftar[i]] \in Peserta /\ daftar[i] \in Akun
  BY <1>1 DEF TypeInv, TypeOK
<1>3. BidAt(i) \in Bids
  BY <1>2 DEF HighestAt, Qualified, BidAt, Peserta
<1>4. QED
  BY <1>1, <1>2, <1>3

LEMMA DeterminePreservesTypeInv ==
  ASSUME TypeInv, NEW a \in Akun, DetermineWinner(a)
  PROVE  TypeInv'
<1>1. PICK i \in DOMAIN daftar :
        /\ HighestAt(i)
        /\ pemenang' = daftar[i]
        /\ highest_bid' = BidAt(i)
        /\ commitment_hash_tertinggi' = peserta[daftar[i]].bid_commitment
        /\ nft' = IF PakaiCw721 THEN daftar[i] ELSE nft
  BY DEF DetermineWinner
<1>2. /\ daftar[i] \in DOMAIN peserta
      /\ daftar[i] \in Akun
      /\ peserta[daftar[i]] \in Peserta
      /\ BidAt(i) \in Bids
  BY <1>1, HighestIsParticipant
<1>3. commitment_hash_tertinggi' \in Commitment \cup {None}
  BY <1>1, <1>2 DEF Peserta
<1>4. UNCHANGED <<peserta, daftar, now, kas, saldo>> /\ status' = "WinnerDetermined"
  BY DEF DetermineWinner, bankVars
<1>5. QED
  <2>1. TypeOK'
    BY <1>1, <1>2, <1>3, <1>4 DEF TypeInv, TypeOK, AuctionStatus
  <2>2. RosterMatchesRecords'
    BY <1>4 DEF TypeInv, RosterMatchesRecords
  <2>3. WinnerOnRecord'
    BY <1>1, <1>2, <1>4 DEF WinnerOnRecord
  <2>4. QED
    BY <2>1, <2>2, <2>3 DEF TypeInv

\* What RefundLosers owes an account is a natural number: saturating_sub
\* keeps the winner's change from going below zero.
LEMMA DueIsNatural ==
  ASSUME TypeInv, status = "WinnerDetermined", NEW a \in Akun
  PROVE  DueTo(a) \in Nat
<1>1. highest_bid \in Nat
  BY AmountAssumption DEF TypeInv, WinnerOnRecord
<1>2. ASSUME a \in DOMAIN peserta
      PROVE  peserta[a].deposit_amount \in Nat
  BY <1>2 DEF TypeInv, TypeOK, Peserta
<1>3. QED
  BY <1>1, <1>2 DEF DueTo, DueAsPeserta, Deposited, SaturatingSub

LEMMA RefundPreservesTypeInv ==
  ASSUME TypeInv, RefundLosers
  PROVE  TypeInv'
<1>1. kas' \in Nat
  <2>1. TotalDue \in 0 .. kas /\ kas' = kas - TotalDue /\ kas \in Nat
    BY DEF RefundLosers, TypeInv, TypeOK
  <2>2. QED
    BY <2>1
<1>2. saldo' \in [Akun -> Nat]
  <2>1. \A a \in Akun : DueTo(a) \in Nat
    BY DueIsNatural DEF RefundLosers
  <2>2. saldo' = [a \in Akun |-> saldo[a] + DueTo(a)] /\ saldo \in [Akun -> Nat]
    BY DEF RefundLosers, TypeInv, TypeOK
  <2>3. QED
    BY <2>1, <2>2
<1>3. UNCHANGED <<auctionVars, peserta, daftar, now, nft>>
  BY DEF RefundLosers
<1>4. QED
  BY <1>1, <1>2, <1>3
     DEF auctionVars, TypeInv, TypeOK, RosterMatchesRecords, WinnerOnRecord

\* Every message and every step of the environment preserves TypeInv.
LEMMA TypeInvStep ==
  ASSUME TypeInv, [Next]_vars
  PROVE  TypeInv'
<1> USE DEF TypeInv, TypeOK
<1>1. ASSUME NEW a \in Akun, NEW d \in Deposits, DepositCollateral(a, d)
      PROVE  TypeInv'
  BY <1>1, DepositPreservesTypeInv
<1>2. ASSUME NEW a \in Akun, NEW b \in Bids, NEW s \in Salts,
             NEW e \in Encodings, NEW p \in Proof,
             SubmitBidCommitment(a, [bid |-> b, salt |-> s, encoding |-> e], p)
      PROVE  TypeInv'
  BY <1>2, SubmitPreservesTypeInv
<1>3. ASSUME NEW a \in Akun, CloseAuction(a)
      PROVE  TypeInv'
  BY <1>3 DEF CloseAuction, AuctionStatus, bankVars, RosterMatchesRecords,
              WinnerOnRecord
<1>4. ASSUME NEW a \in Akun, NEW b \in Bids, NEW s \in Salts, RevealBid(a, b, s)
      PROVE  TypeInv'
  BY <1>4, RevealPreservesTypeInv
<1>5. ASSUME NEW a \in Akun, DetermineWinner(a)
      PROVE  TypeInv'
  BY <1>5, DeterminePreservesTypeInv
<1>6. CASE RefundLosers
  BY <1>6, RefundPreservesTypeInv
<1>7. ASSUME NEW a \in Akun, NEW n \in StrayAmounts, StrayFunds(a, n)
      PROVE  TypeInv'
  <2>1. n \in Nat /\ saldo[a] - n \in Nat
    BY <1>7, AmountAssumption DEF StrayFunds
  <2>2. saldo' = [saldo EXCEPT ![a] = saldo[a] - n] /\ kas' = kas + n
    BY <1>7 DEF StrayFunds
  <2>3. saldo' \in [Akun -> Nat] /\ kas' \in Nat
    BY <2>1, <2>2
  <2>4. UNCHANGED <<auctionVars, peserta, daftar, now, nft>>
    BY <1>7 DEF StrayFunds
  <2>5. QED
    BY <2>3, <2>4 DEF auctionVars, RosterMatchesRecords, WinnerOnRecord
<1>8. CASE EscrowNft
  BY <1>8 DEF EscrowNft, auctionVars, bankVars, RosterMatchesRecords, WinnerOnRecord
<1>9. CASE Tick
  BY <1>9 DEF Tick, auctionVars, bankVars, RosterMatchesRecords, WinnerOnRecord
<1>10. CASE UNCHANGED vars
  BY <1>10 DEF vars, auctionVars, bankVars, RosterMatchesRecords, WinnerOnRecord
<1>11. QED
  <2> HIDE DEF TypeInv, TypeOK
  <2> QED
    BY <1>1, <1>2, <1>3, <1>4, <1>5, <1>6, <1>7, <1>8, <1>9, <1>10 DEF Next

\* The inductive invariant behind TypeOK.
THEOREM TypeInvariant == Spec => []TypeInv
<1>1. Init => TypeInv
  BY AkunAssumption, AmountAssumption
     DEF Init, TypeInv, TypeOK, AuctionStatus, RosterMatchesRecords, WinnerOnRecord
<1>2. TypeInv /\ [Next]_vars => TypeInv'
  BY TypeInvStep
<1>3. QED
  BY <1>1, <1>2, PTL DEF Spec

\* The contract's storage, the balances, the clock and the token's owner
\* keep their types; in particular no balance goes below zero.
THEOREM TypeCorrect == Spec => []TypeOK
<1>1. TypeInv => TypeOK
  BY DEF TypeInv
<1>2. QED
  BY <1>1, TypeInvariant, PTL

\* DAFTAR_PESERTA lists every holder of a PESERTA record exactly once.
THEOREM RosterCorrect == Spec => []RosterMatchesRecords
<1>1. TypeInv => RosterMatchesRecords
  BY DEF TypeInv
<1>2. QED
  BY <1>1, TypeInvariant, PTL

-----------------------------------------------------------------------------
(***************************************************************************)
(* What is sealed and what is opened.                                      *)
(***************************************************************************)

\* Every commitment on record was proved to exceed the base price, and every
\* opened bid was opened after the close and hashes to its commitment.
SealInv ==
    \A a \in DOMAIN peserta :
      LET p == peserta[a] IN
      /\ p.bid_commitment # None =>
           p.is_verified /\ p.bid_commitment.bid > HargaDasar
      /\ p.revealed_bid # None =>
           /\ status # "Active"
           /\ p.bid_commitment # None
           /\ p.bid_commitment = PoseidonHash(p.revealed_bid, p.revealed_salt)

LEMMA DepositPreservesSealInv ==
  ASSUME TypeInv, SealInv, NEW a \in Akun, NEW d \in Deposits,
         DepositCollateral(a, d)
  PROVE  SealInv'
<1>1. status' = status
  BY DEF DepositCollateral, RecordDeposit, auctionVars
<1>2. ASSUME NEW x \in DOMAIN peserta'
      PROVE  \/ /\ x \in DOMAIN peserta
                /\ peserta'[x] = peserta[x]
             \/ peserta'[x].bid_commitment = None /\ peserta'[x].revealed_bid = None
  BY <1>2 DEF DepositCollateral, RecordDeposit
<1>3. QED
  BY <1>1, <1>2 DEF SealInv

LEMMA SubmitPreservesSealInv ==
  ASSUME TypeInv, SealInv, NEW a \in Akun, NEW b \in Bids, NEW s \in Salts,
         NEW e \in Encodings, NEW p \in Proof,
         SubmitBidCommitment(a, [bid |-> b, salt |-> s, encoding |-> e], p)
  PROVE  SealInv'
<1> DEFINE text == [bid |-> b, salt |-> s, encoding |-> e]
<1>1. b > HargaDasar
  BY VerifiedAboveBase DEF SubmitBidCommitment
<1>2. /\ status' = status
      /\ status = "Active"
      /\ a \in DOMAIN peserta
      /\ peserta[a] \in Peserta
  BY DEF SubmitBidCommitment, BiddingOpen, Deposited, auctionVars, TypeInv, TypeOK
<1>3. peserta[a].revealed_bid = None
  BY <1>2 DEF SealInv
<1>4. /\ DOMAIN peserta' = DOMAIN peserta
      /\ \A x \in DOMAIN peserta \ {a} : peserta'[x] = peserta[x]
      /\ peserta'[a] = [peserta[a] EXCEPT !.bid_commitment = text,
                                          !.is_verified = TRUE]
  BY <1>2 DEF SubmitBidCommitment, TypeInv, TypeOK
<1>5. /\ peserta'[a].bid_commitment = text
      /\ peserta'[a].is_verified
      /\ peserta'[a].revealed_bid = None
  BY <1>2, <1>3, <1>4 DEF Peserta
<1>6. text.bid = b
  OBVIOUS
<1> HIDE DEF text
<1>7. QED
  BY <1>1, <1>2, <1>4, <1>5, <1>6 DEF SealInv

LEMMA RevealPreservesSealInv ==
  ASSUME TypeInv, SealInv, NEW a \in Akun, NEW b \in Bids, NEW s \in Salts,
         RevealBid(a, b, s)
  PROVE  SealInv'
<1>1. /\ status' = status
      /\ status = "Closed"
      /\ a \in DOMAIN peserta
      /\ peserta[a] \in Peserta
      /\ PoseidonHash(b, s) = peserta[a].bid_commitment
  BY DEF RevealBid, Deposited, auctionVars, TypeInv, TypeOK
<1>2. peserta[a].bid_commitment # None
  <2>1. PoseidonHash(b, s) \in Commitment
    BY DEF PoseidonHash, Commitment
  <2>2. QED
    BY <2>1, <1>1, NoneAssumption
<1>3. /\ DOMAIN peserta' = DOMAIN peserta
      /\ \A x \in DOMAIN peserta \ {a} : peserta'[x] = peserta[x]
      /\ peserta'[a] = [peserta[a] EXCEPT !.revealed_bid = b, !.revealed_salt = s]
  BY <1>1 DEF RevealBid, TypeInv, TypeOK
<1>4. /\ peserta'[a].revealed_bid = b
      /\ peserta'[a].revealed_salt = s
      /\ peserta'[a].bid_commitment = peserta[a].bid_commitment
      /\ peserta'[a].is_verified = peserta[a].is_verified
  BY <1>1, <1>3 DEF Peserta
<1>5. /\ peserta[a].is_verified
      /\ peserta[a].bid_commitment.bid > HargaDasar
  BY <1>1, <1>2 DEF SealInv
<1>6. /\ peserta'[a].is_verified
      /\ peserta'[a].bid_commitment.bid > HargaDasar
      /\ peserta'[a].bid_commitment # None
      /\ peserta'[a].bid_commitment =
           PoseidonHash(peserta'[a].revealed_bid, peserta'[a].revealed_salt)
  <2>1. peserta'[a].bid_commitment = PoseidonHash(b, s)
    BY <1>1, <1>4
  <2>2. QED
    BY <1>2, <1>4, <1>5, <2>1
<1>7. status' # "Active"
  BY <1>1
<1>8. ASSUME NEW x \in DOMAIN peserta', x # a
      PROVE  x \in DOMAIN peserta /\ peserta'[x] = peserta[x]
  BY <1>3, <1>8
<1>9. QED
  <2> SUFFICES ASSUME NEW x \in DOMAIN peserta'
               PROVE  LET p == peserta'[x] IN
                      /\ p.bid_commitment # None =>
                           p.is_verified /\ p.bid_commitment.bid > HargaDasar
                      /\ p.revealed_bid # None =>
                           /\ status' # "Active"
                           /\ p.bid_commitment # None
                           /\ p.bid_commitment =
                                PoseidonHash(p.revealed_bid, p.revealed_salt)
    BY DEF SealInv, PoseidonHash
  <2>1. CASE x = a
    BY <2>1, <1>6, <1>7 DEF PoseidonHash
  <2>2. CASE x # a
    BY <2>2, <1>7, <1>8 DEF SealInv, PoseidonHash
  <2>3. QED
    BY <2>1, <2>2

\* A step that leaves the records alone and does not reopen the auction.
LEMMA FramePreservesSealInv ==
  ASSUME SealInv, peserta' = peserta, status = status' \/ status' # "Active"
  PROVE  SealInv'
BY DEF SealInv

THEOREM SealInvariant == Spec => []SealInv
<1>1. Init => SealInv
  BY DEF Init, SealInv
<1>2. TypeInv /\ SealInv /\ [Next]_vars => SealInv'
  <2> SUFFICES ASSUME TypeInv, SealInv, [Next]_vars
               PROVE  SealInv'
    OBVIOUS
  <2>1. ASSUME NEW a \in Akun, NEW d \in Deposits, DepositCollateral(a, d)
        PROVE  SealInv'
    BY <2>1, DepositPreservesSealInv
  <2>2. ASSUME NEW a \in Akun, NEW b \in Bids, NEW s \in Salts,
               NEW e \in Encodings, NEW p \in Proof,
               SubmitBidCommitment(a, [bid |-> b, salt |-> s, encoding |-> e], p)
        PROVE  SealInv'
    BY <2>2, SubmitPreservesSealInv
  <2>3. ASSUME NEW a \in Akun, CloseAuction(a)
        PROVE  SealInv'
    BY <2>3, FramePreservesSealInv DEF CloseAuction
  <2>4. ASSUME NEW a \in Akun, NEW b \in Bids, NEW s \in Salts, RevealBid(a, b, s)
        PROVE  SealInv'
    BY <2>4, RevealPreservesSealInv
  <2>5. ASSUME NEW a \in Akun, DetermineWinner(a)
        PROVE  SealInv'
    BY <2>5, FramePreservesSealInv DEF DetermineWinner
  <2>6. CASE RefundLosers
    BY <2>6, FramePreservesSealInv DEF RefundLosers, auctionVars
  <2>7. ASSUME NEW a \in Akun, NEW n \in StrayAmounts, StrayFunds(a, n)
        PROVE  SealInv'
    BY <2>7, FramePreservesSealInv DEF StrayFunds, auctionVars
  <2>8. CASE EscrowNft
    BY <2>8, FramePreservesSealInv DEF EscrowNft, auctionVars
  <2>9. CASE Tick
    BY <2>9, FramePreservesSealInv DEF Tick, auctionVars
  <2>10. CASE UNCHANGED vars
    BY <2>10, FramePreservesSealInv DEF vars, auctionVars
  <2>11. QED
    BY <2>1, <2>2, <2>3, <2>4, <2>5, <2>6, <2>7, <2>8, <2>9, <2>10 DEF Next
<1>3. QED
  BY <1>1, <1>2, TypeInvariant, PTL DEF Spec

\* While somebody may still commit, no bid is open.
THEOREM BidsSealedWhileBidding == Spec => []SealedWhileBidding
<1>1. SealInv => SealedWhileBidding
  BY DEF SealInv, SealedWhileBidding
<1>2. QED
  BY <1>1, SealInvariant, PTL

\* An opened bid is the one that was sealed, and it exceeds the base price.
THEOREM OpenedBidsAreSealedBids == Spec => []OpenedIsSealed
<1>1. SealInv => OpenedIsSealed
  BY DEF SealInv, OpenedIsSealed, PoseidonHash
<1>2. QED
  BY <1>1, SealInvariant, PTL

-----------------------------------------------------------------------------
(***************************************************************************)
(* The winner.                                                             *)
(***************************************************************************)

\* The recorded outcome is the one HighestAt describes.
WinnerInv ==
    status = "WinnerDetermined" =>
      \E i \in DOMAIN daftar :
        /\ HighestAt(i)
        /\ pemenang = daftar[i]
        /\ highest_bid = BidAt(i)
        /\ commitment_hash_tertinggi = peserta[daftar[i]].bid_commitment

\* Once a winner is named, no message changes the contract's storage.
LEMMA StorageFrozen ==
  ASSUME [Next]_vars, status = "WinnerDetermined"
  PROVE  UNCHANGED <<auctionVars, peserta, daftar>>
BY DEF Next, vars, DepositCollateral, RecordDeposit, SubmitBidCommitment, BiddingOpen,
       CloseAuction, RevealBid, DetermineWinner, RefundLosers, StrayFunds,
       EscrowNft, Tick

\* Only DetermineWinner names one.
LEMMA OnlyDetermineWinner ==
  ASSUME [Next]_vars, status # "WinnerDetermined", status' = "WinnerDetermined"
  PROVE  \E a \in Akun : DetermineWinner(a)
BY DEF Next, vars, auctionVars, DepositCollateral, RecordDeposit, SubmitBidCommitment,
       CloseAuction, RevealBid, RefundLosers, StrayFunds, EscrowNft, Tick

THEOREM WinnerInvariant == Spec => []WinnerInv
<1>1. Init => WinnerInv
  BY DEF Init, WinnerInv
<1>2. WinnerInv /\ [Next]_vars => WinnerInv'
  <2> SUFFICES ASSUME WinnerInv, [Next]_vars, status' = "WinnerDetermined"
               PROVE  WinnerInv'
    BY DEF WinnerInv
  <2>1. CASE status = "WinnerDetermined"
    <3>1. UNCHANGED <<auctionVars, peserta, daftar>>
      BY <2>1, StorageFrozen
    <3>2. QED
      BY <2>1, <3>1 DEF WinnerInv, auctionVars, HighestAt, Qualified, BidAt
  <2>2. CASE status # "WinnerDetermined"
    <3>1. PICK a \in Akun : DetermineWinner(a)
      BY <2>2, OnlyDetermineWinner
    <3>2. peserta' = peserta /\ daftar' = daftar
      BY <3>1 DEF DetermineWinner
    <3>3. QED
      BY <3>1, <3>2 DEF DetermineWinner, WinnerInv, HighestAt, Qualified, BidAt
  <2>3. QED
    BY <2>1, <2>2
<1>3. QED
  BY <1>1, <1>2, PTL DEF Spec

\* The winner on record is the earliest depositor among the highest opened
\* bids, pays its own bid, and that bid exceeds the base price.
THEOREM WinnerCorrect == Spec => []WinnerUndominated
<1>1. TypeInv /\ SealInv /\ WinnerInv => WinnerUndominated
  <2> SUFFICES ASSUME TypeInv, SealInv, WinnerInv, status = "WinnerDetermined"
               PROVE  WinnerUndominated
    BY DEF WinnerUndominated
  <2>1. PICK i \in DOMAIN daftar :
          /\ HighestAt(i)
          /\ pemenang = daftar[i]
          /\ highest_bid = BidAt(i)
          /\ commitment_hash_tertinggi = peserta[daftar[i]].bid_commitment
    BY DEF WinnerInv
  <2>2. \A j \in DOMAIN daftar :
          /\ daftar[j] \in DOMAIN peserta
          /\ peserta[daftar[j]] \in Peserta
    BY DEF TypeInv, TypeOK, RosterMatchesRecords
  <2>3. ASSUME NEW j \in DOMAIN daftar, BidAt(j) # None
        PROVE  /\ BidAt(j) \in Nat
               /\ BidAt(j) > HargaDasar
               /\ Qualified(j)
    <3>1. BidAt(j) \in Nat
      BY <2>2, <2>3, AmountAssumption DEF BidAt, Peserta
    <3>2. BidAt(j) > HargaDasar /\ peserta[daftar[j]].is_verified
      <4> DEFINE p == peserta[daftar[j]]
      <4>1. /\ p.bid_commitment = PoseidonHash(p.revealed_bid, p.revealed_salt)
            /\ p.is_verified /\ p.bid_commitment.bid > HargaDasar
        BY <2>2, <2>3 DEF SealInv, BidAt
      <4>2. p.bid_commitment.bid = BidAt(j)
        BY <4>1 DEF PoseidonHash, BidAt
      <4>3. QED
        BY <4>1, <4>2
    <3>3. QED
      BY <2>3, <3>1, <3>2, AmountAssumption DEF Qualified, BidAt
  <2>4. BidAt(i) # None
    BY <2>1 DEF HighestAt, Qualified, BidAt
  <2>5. ASSUME NEW j \in DOMAIN daftar \ {i}, BidAt(j) # None
        PROVE  \/ BidAt(j) < BidAt(i)
               \/ BidAt(j) = BidAt(i) /\ i < j
    <3>1. BidAt(j) <= BidAt(i) /\ (j < i => BidAt(j) < BidAt(i))
      BY <2>1, <2>3, <2>5 DEF HighestAt
    <3>2. i \in Nat /\ j \in Nat /\ i # j
      BY DEF TypeInv, TypeOK
    <3>3. BidAt(i) \in Nat /\ BidAt(j) \in Nat
      BY <2>3, <2>4, <2>5
    <3>4. QED
      BY <3>1, <3>2, <3>3
  <2>6. QED
    BY <2>1, <2>3, <2>4, <2>5 DEF WinnerUndominated
<1>2. QED
  BY <1>1, TypeInvariant, SealInvariant, WinnerInvariant, PTL

\* The token changes hands exactly when the winner is named.
THEOREM TokenSafe == Spec => []TokenFollowsOutcome
<1>1. Init => TokenFollowsOutcome
  BY DEF Init, TokenFollowsOutcome
<1>2. TokenFollowsOutcome /\ [Next]_vars => TokenFollowsOutcome'
  BY DEF TokenFollowsOutcome, Next, vars, auctionVars, DepositCollateral, RecordDeposit,
         SubmitBidCommitment, BiddingOpen, CloseAuction, RevealBid,
         DetermineWinner, RefundLosers, StrayFunds, EscrowNft, Tick
<1>3. QED
  BY <1>1, <1>2, PTL DEF Spec

-----------------------------------------------------------------------------
(***************************************************************************)
(* Money.  Everything is stated with sums over all accounts, so that a     *)
(* message changes one entry of a sum (SumOneChange) or none.              *)
(***************************************************************************)

\* Adding up deposits: each is a natural number, and so is their total.
LEMMA PutInIsNatural ==
  ASSUME TypeInv
  PROVE  /\ \A a \in Akun : PutIn(a) \in Nat
         /\ TotalPutIn \in Nat
         /\ \A a \in Akun : PutIn(a) <= TotalPutIn
<1> DEFINE f == [a \in Akun |-> PutIn(a)]
<1>1. \A a \in Akun : PutIn(a) \in Nat
  BY DEF PutIn, Deposited, TypeInv, TypeOK, Peserta
<1>2. IsFiniteSet(Akun) /\ DOMAIN f = Akun /\ TotalPutIn = SumFunction(f)
  BY AkunAssumption DEF TotalPutIn
<1>3. \A a \in Akun : f[a] \in Nat /\ f[a] = PutIn(a)
  BY <1>1
<1> HIDE DEF f
<1>4. SumFunctionOnSet(f, Akun) \in Nat
  BY <1>2, <1>3, SumType
<1>5. \A a \in Akun : f[a] <= SumFunctionOnSet(f, Akun)
  BY <1>2, <1>3, SumAtLeastEach
<1>6. QED
  BY <1>1, <1>2, <1>3, <1>4, <1>5 DEF SumFunction

\* A deposit adds its amount to the total, and nothing else.
LEMMA DepositAddsUp ==
  ASSUME TypeInv, NEW a \in Akun, NEW d \in Deposits, DepositCollateral(a, d)
  PROVE  /\ TotalPutIn' = TotalPutIn + d
         /\ \A b \in Akun : PutIn(b)' = IF b = a THEN d ELSE PutIn(b)
         /\ PutIn(a) = 0
<1> DEFINE f == [b \in Akun |-> PutIn(b)]
           g == [b \in Akun |-> PutIn(b)']
<1>1. d \in Nat /\ \A b \in Akun : PutIn(b) \in Nat
  BY PutInIsNatural, AmountAssumption
<1>2. \A b \in Akun : PutIn(b)' = IF b = a THEN d ELSE PutIn(b)
  BY DEF DepositCollateral, RecordDeposit, PutIn, Deposited
<1>3. PutIn(a) = 0
  BY DEF DepositCollateral, PutIn
<1>4. /\ \A b \in Akun : f[b] \in Int /\ g[b] \in Int
      /\ \A b \in Akun \ {a} : f[b] = g[b]
      /\ f[a] = 0 /\ g[a] = d
  BY <1>1, <1>2, <1>3
<1>5. /\ IsFiniteSet(Akun)
      /\ TotalPutIn = SumFunctionOnSet(f, Akun)
      /\ TotalPutIn' = SumFunctionOnSet(g, Akun)
  BY AkunAssumption DEF TotalPutIn, SumFunction
<1>6. TotalPutIn \in Nat
  BY PutInIsNatural
<1> HIDE DEF f, g
<1>7. SumFunctionOnSet(g, Akun) = SumFunctionOnSet(f, Akun) - f[a] + g[a]
  <2>1. PICK u, v : u = f /\ v = g
    OBVIOUS
  <2>2. /\ \A b \in Akun : u[b] \in Int /\ v[b] \in Int
        /\ \A b \in Akun \ {a} : u[b] = v[b]
    BY <1>4, <2>1
  <2>3. SumFunctionOnSet(v, Akun) = SumFunctionOnSet(u, Akun) - u[a] + v[a]
    BY <1>5, <2>2, SumOneChange
  <2>4. QED
    BY <2>1, <2>3
<1>8. QED
  BY <1>1, <1>2, <1>3, <1>4, <1>5, <1>6, <1>7

\* Which messages touch the balances or the deposits.
LEMMA MoneySteps ==
  ASSUME TypeInv, [Next]_vars
  PROVE  \/ \E a \in Akun, d \in Deposits : DepositCollateral(a, d)
         \/ RefundLosers
         \/ \E a \in Akun, n \in StrayAmounts : StrayFunds(a, n)
         \/ /\ UNCHANGED bankVars
            /\ \A a \in Akun : PutIn(a)' = PutIn(a)
<1>1. ASSUME NEW a \in Akun, NEW b \in Bids, NEW s \in Salts,
             NEW e \in Encodings, NEW p \in Proof,
             SubmitBidCommitment(a, [bid |-> b, salt |-> s, encoding |-> e], p)
      PROVE  UNCHANGED bankVars /\ \A x \in Akun : PutIn(x)' = PutIn(x)
  <2> DEFINE rec == [peserta[a] EXCEPT
                       !.bid_commitment = [bid |-> b, salt |-> s, encoding |-> e],
                       !.is_verified = TRUE]
  <2>1. a \in DOMAIN peserta /\ peserta[a] \in Peserta
    BY <1>1 DEF SubmitBidCommitment, Deposited, TypeInv, TypeOK
  <2>2. peserta' = [peserta EXCEPT ![a] = rec] /\ UNCHANGED bankVars
    BY <1>1, <2>1 DEF SubmitBidCommitment, bankVars
  <2>3. rec.deposit_amount = peserta[a].deposit_amount
    BY <2>1 DEF Peserta
  <2> HIDE DEF rec
  <2>4. QED
    BY <2>1, <2>2, <2>3 DEF PutIn, Deposited
<1>2. ASSUME NEW a \in Akun, NEW b \in Bids, NEW s \in Salts, RevealBid(a, b, s)
      PROVE  UNCHANGED bankVars /\ \A x \in Akun : PutIn(x)' = PutIn(x)
  BY <1>2 DEF RevealBid, PutIn, Deposited, bankVars, TypeInv, TypeOK, Peserta
<1>3. ASSUME UNCHANGED <<peserta, bankVars>>
      PROVE  UNCHANGED bankVars /\ \A x \in Akun : PutIn(x)' = PutIn(x)
  BY <1>3 DEF PutIn, Deposited
<1>4. ASSUME NEW a \in Akun, CloseAuction(a) \/ DetermineWinner(a)
      PROVE  UNCHANGED <<peserta, bankVars>>
  BY <1>4 DEF CloseAuction, DetermineWinner
<1>5. EscrowNft \/ Tick \/ UNCHANGED vars => UNCHANGED <<peserta, bankVars>>
  BY DEF EscrowNft, Tick, vars
<1>6. QED
  BY <1>1, <1>2, <1>3, <1>4, <1>5 DEF Next

\* As long as no deposit changes, nor does their total.
LEMMA TotalKept ==
  ASSUME \A a \in Akun : PutIn(a)' = PutIn(a)
  PROVE  TotalPutIn' = TotalPutIn
<1>1. [a \in Akun |-> PutIn(a)'] = [a \in Akun |-> PutIn(a)]
  OBVIOUS
<1>2. QED
  BY <1>1 DEF TotalPutIn

\* Until the winner is named every deposit can be given back: the deposit
\* check counts what is credited and nothing is paid out before.
THEOREM EscrowCovers == Spec => []EscrowCoversDeposits
<1>1. Init => EscrowCoversDeposits
  <2> SUFFICES ASSUME Init PROVE TotalPutIn = 0 /\ kas = 0
    BY DEF EscrowCoversDeposits
  <2> DEFINE f == [a \in Akun |-> PutIn(a)]
  <2>1. \A a \in Akun : f[a] = 0
    BY DEF Init, PutIn, Deposited
  <2>2. IsFiniteSet(Akun) /\ TotalPutIn = SumFunctionOnSet(f, Akun)
    BY AkunAssumption DEF TotalPutIn, SumFunction
  <2> HIDE DEF f
  <2>3. QED
    BY <2>1, <2>2, SumZero DEF Init
<1>2. TypeInv /\ EscrowCoversDeposits /\ [Next]_vars => EscrowCoversDeposits'
  <2> SUFFICES ASSUME TypeInv, EscrowCoversDeposits, [Next]_vars,
                      status' # "WinnerDetermined"
               PROVE  kas' >= TotalPutIn'
    BY DEF EscrowCoversDeposits
  <2>1. status # "WinnerDetermined"
    BY StorageFrozen DEF auctionVars
  <2>2. kas >= TotalPutIn /\ kas \in Nat /\ TotalPutIn \in Nat
    BY <2>1, PutInIsNatural DEF EscrowCoversDeposits, TypeInv, TypeOK
  <2>3. ASSUME NEW a \in Akun, NEW d \in Deposits, DepositCollateral(a, d)
        PROVE  kas' >= TotalPutIn'
    <3>1. kas' = kas + d /\ TotalPutIn' = TotalPutIn + d /\ d \in Nat
      BY <2>3, DepositAddsUp, AmountAssumption DEF DepositCollateral, RecordDeposit
    <3>2. QED
      BY <2>2, <3>1
  <2>4. ASSUME NEW a \in Akun, NEW n \in StrayAmounts, StrayFunds(a, n)
        PROVE  kas' >= TotalPutIn'
    <3>1. kas' = kas + n /\ n \in Nat
      BY <2>4, AmountAssumption DEF StrayFunds
    <3>2. TotalPutIn' = TotalPutIn
      BY <2>4, TotalKept DEF StrayFunds, PutIn, Deposited
    <3>3. QED
      BY <2>2, <3>1, <3>2
  <2>5. ASSUME UNCHANGED bankVars, \A a \in Akun : PutIn(a)' = PutIn(a)
        PROVE  kas' >= TotalPutIn'
    BY <2>2, <2>5, TotalKept DEF bankVars
  <2>6. ~ RefundLosers
    BY <2>1 DEF RefundLosers
  <2>7. QED
    BY <2>3, <2>4, <2>5, <2>6, MoneySteps
<1>3. QED
  BY <1>1, <1>2, TypeInvariant, PTL DEF Spec

\* What RefundLosers pays in all: every deposit, with the winner's replaced
\* by its change, and the price.
LEMMA TotalDueIs ==
  ASSUME TypeInv, status = "WinnerDetermined"
  PROVE  TotalDue = TotalPutIn - PutIn(pemenang)
                    + SaturatingSub(PutIn(pemenang), highest_bid) + highest_bid
<1> DEFINE f == [a \in Akun |-> PutIn(a)]
           g == [a \in Akun |-> DueAsPeserta(a)]
           h == [a \in Akun |-> DueTo(a)]
<1>1. /\ pemenang \in Akun /\ Deposited(pemenang)
      /\ highest_bid \in Nat
      /\ \A a \in Akun : PutIn(a) \in Nat
  BY PutInIsNatural, AmountAssumption
     DEF TypeInv, TypeOK, WinnerOnRecord, Deposited
<1>2. ASSUME NEW a \in Akun
      PROVE  /\ DueAsPeserta(a)
                  = IF a = pemenang THEN SaturatingSub(PutIn(a), highest_bid)
                                    ELSE PutIn(a)
             /\ DueAsPeserta(a) \in Nat
             /\ DueTo(a) = DueAsPeserta(a) + (IF a = Penjual THEN highest_bid ELSE 0)
             /\ DueTo(a) \in Nat
  BY <1>1 DEF DueAsPeserta, DueTo, PutIn, SaturatingSub
<1>3. /\ \A a \in Akun : f[a] \in Int /\ g[a] \in Int /\ h[a] \in Int
      /\ \A a \in Akun \ {pemenang} : f[a] = g[a]
      /\ \A a \in Akun \ {Penjual} : g[a] = h[a]
      /\ f[pemenang] = PutIn(pemenang)
      /\ g[pemenang] = SaturatingSub(PutIn(pemenang), highest_bid)
  BY <1>1, <1>2
<1>4. /\ Penjual \in Akun /\ g[Penjual] \in Int
      /\ h[Penjual] = g[Penjual] + highest_bid
  BY <1>2, AkunAssumption
<1>5. /\ IsFiniteSet(Akun)
      /\ TotalPutIn = SumFunctionOnSet(f, Akun)
      /\ TotalDue = SumFunctionOnSet(h, Akun)
  BY AkunAssumption DEF TotalPutIn, TotalDue, SumFunction
<1> HIDE DEF f, g, h
<1>6. SumFunctionOnSet(g, Akun)
        = SumFunctionOnSet(f, Akun) - f[pemenang] + g[pemenang]
  BY <1>1, <1>3, <1>5, SumOneChange
<1>7. SumFunctionOnSet(h, Akun)
        = SumFunctionOnSet(g, Akun) - g[Penjual] + h[Penjual]
  BY <1>3, <1>4, <1>5, SumOneChange
<1>8. SumFunctionOnSet(g, Akun) \in Int
  BY <1>3, <1>5, SumType
<1>9. SumFunctionOnSet(h, Akun) = SumFunctionOnSet(g, Akun) + highest_bid
  BY <1>1, <1>4, <1>7, <1>8
<1>10. QED
  BY <1>3, <1>5, <1>6, <1>9

\* The two outcomes of SettledOnce.
AllHeld ==
    /\ kas = TotalPutIn
    /\ \A a \in Akun : saldo[a] = Modal - PutIn(a)

AllPaid ==
    /\ status = "WinnerDetermined"
    /\ kas = 0
    /\ \A a \in Akun : saldo[a] = Modal + Price(a)

\* That the payout went through shows that the winner's deposit sufficed.
SettleInv ==
    StrayAmounts = {} => AllHeld \/ (AllPaid /\ PutIn(pemenang) >= highest_bid)

\* The first RefundLosers: the bank lets it through only when the winner's
\* deposit covers the winning bid, and then it empties the contract.
LEMMA RefundPaysAll ==
  ASSUME TypeInv, AllHeld, RefundLosers
  PROVE  AllPaid' /\ (PutIn(pemenang) >= highest_bid)'
<1> DEFINE D == PutIn(pemenang)
           c == SaturatingSub(D, highest_bid)
<1>1. /\ status = "WinnerDetermined" /\ Deposited(pemenang)
      /\ pemenang \in Akun /\ highest_bid \in Nat
      /\ D \in Nat /\ TotalPutIn \in Nat
      /\ \A a \in Akun : PutIn(a) \in Nat
  BY PutInIsNatural, AmountAssumption
     DEF RefundLosers, TypeInv, TypeOK, WinnerOnRecord, Deposited
<1>2. TotalDue = TotalPutIn - D + c + highest_bid
  BY <1>1, TotalDueIs
<1>3. TotalDue <= kas /\ kas = TotalPutIn /\ kas' = kas - TotalDue
  BY <1>1, <1>2 DEF RefundLosers, AllHeld, SaturatingSub
<1>4. c = IF D >= highest_bid THEN D - highest_bid ELSE 0
  BY DEF SaturatingSub
<1> HIDE DEF D, c
<1>5. D >= highest_bid /\ kas' = 0
  BY <1>1, <1>2, <1>3, <1>4
<1>6. ASSUME NEW a \in Akun
      PROVE  saldo'[a] = Modal + Price(a)'
  <2>1. saldo'[a] = Modal - PutIn(a) + DueTo(a)
    BY DEF RefundLosers, AllHeld
  <2>2. PutIn(a) \in Nat /\ Modal \in Nat
    BY <1>1, AmountAssumption
  <2>3. DueTo(a) = PutIn(a) - (IF a = pemenang THEN highest_bid ELSE 0)
                   + (IF a = Penjual THEN highest_bid ELSE 0)
    BY <1>1, <1>5, <2>2 DEF D, DueTo, DueAsPeserta, PutIn, SaturatingSub
  <2>4. Price(a)' = Price(a)
    BY DEF RefundLosers, auctionVars, Price
  <2>5. QED
    BY <1>1, <2>1, <2>2, <2>3, <2>4 DEF Price
<1>7. status' = "WinnerDetermined"
  BY <1>1 DEF RefundLosers, auctionVars
<1>8. (PutIn(pemenang) >= highest_bid)'
  BY <1>5 DEF D, RefundLosers, auctionVars, PutIn, Deposited
<1>9. QED
  BY <1>5, <1>6, <1>7, <1>8 DEF AllPaid

\* There is no second one: the price alone is more than nothing.
LEMMA NoSecondRefund ==
  ASSUME TypeInv, WinnerUndominated, AllPaid
  PROVE  ~ RefundLosers
<1> DEFINE D == PutIn(pemenang)
           c == SaturatingSub(D, highest_bid)
<1>1. /\ pemenang \in Akun /\ highest_bid \in Nat
      /\ D \in Nat /\ TotalPutIn \in Nat /\ D <= TotalPutIn
  BY PutInIsNatural, AmountAssumption
     DEF AllPaid, TypeInv, TypeOK, WinnerOnRecord
<1>2. TotalDue = TotalPutIn - D + c + highest_bid
  BY TotalDueIs DEF AllPaid
<1>3. c \in Nat
  BY <1>1 DEF SaturatingSub
<1>4. highest_bid > HargaDasar /\ HargaDasar \in Nat /\ kas = 0
  BY AmountAssumption DEF AllPaid, WinnerUndominated
<1> HIDE DEF D, c
<1>5. TotalDue > 0
  BY <1>1, <1>2, <1>3, <1>4
<1>6. QED
  BY <1>1, <1>2, <1>3, <1>4, <1>5 DEF RefundLosers

THEOREM SettleInvariant == Spec => []SettleInv
<1>1. Init => SettleInv
  <2> SUFFICES ASSUME Init PROVE AllHeld
    BY DEF SettleInv
  <2> DEFINE f == [a \in Akun |-> PutIn(a)]
  <2>1. \A a \in Akun : PutIn(a) = 0 /\ f[a] = 0
    BY DEF Init, PutIn, Deposited
  <2>2. IsFiniteSet(Akun) /\ TotalPutIn = SumFunctionOnSet(f, Akun)
    BY AkunAssumption DEF TotalPutIn, SumFunction
  <2>3. TotalPutIn = 0
    <3> HIDE DEF f
    <3> QED
      BY <2>1, <2>2, SumZero
  <2>4. QED
    BY <2>1, <2>3, AmountAssumption DEF Init, AllHeld
<1>2. TypeInv /\ WinnerUndominated /\ SettleInv /\ [Next]_vars => SettleInv'
  <2> DEFINE Covered == PutIn(pemenang) >= highest_bid
  <2> SUFFICES ASSUME TypeInv, WinnerUndominated,
                      AllHeld \/ (AllPaid /\ Covered),
                      [Next]_vars, StrayAmounts = {}
               PROVE  AllHeld' \/ (AllPaid' /\ Covered')
    BY DEF SettleInv
  <2>1. CASE AllHeld
    <3>1. ASSUME NEW a \in Akun, NEW d \in Deposits, DepositCollateral(a, d)
          PROVE  AllHeld'
      <4>1. /\ TotalPutIn' = TotalPutIn + d
            /\ \A b \in Akun : PutIn(b)' = IF b = a THEN d ELSE PutIn(b)
            /\ PutIn(a) = 0
        BY <3>1, DepositAddsUp
      <4>2. /\ saldo' = [saldo EXCEPT ![a] = saldo[a] - d]
            /\ kas' = kas + d
        BY <3>1 DEF DepositCollateral, RecordDeposit
      <4>3. saldo \in [Akun -> Nat] /\ Modal \in Nat /\ d \in Nat
        BY AmountAssumption DEF TypeInv, TypeOK
      <4>4. \A b \in Akun : saldo'[b] = Modal - PutIn(b)'
        BY <2>1, <4>1, <4>2, <4>3 DEF AllHeld
      <4>5. QED
        BY <2>1, <4>1, <4>2, <4>4 DEF AllHeld
    <3>2. CASE RefundLosers
      BY <2>1, <3>2, RefundPaysAll
    <3>3. ASSUME UNCHANGED bankVars, \A a \in Akun : PutIn(a)' = PutIn(a)
          PROVE  AllHeld'
      BY <2>1, <3>3, TotalKept DEF AllHeld, bankVars
    <3>4. QED
      BY <3>1, <3>2, <3>3, MoneySteps
  <2>2. CASE AllPaid /\ Covered
    <3>1. UNCHANGED <<auctionVars, peserta>>
      BY <2>2, StorageFrozen DEF AllPaid
    <3>2. ~ RefundLosers
      BY <2>2, NoSecondRefund
    <3>3. \A a \in Akun, d \in Deposits : ~ DepositCollateral(a, d)
      BY <2>2 DEF AllPaid, DepositCollateral, BiddingOpen
    <3>4. UNCHANGED bankVars
      BY <3>2, <3>3, MoneySteps
    <3>5. QED
      BY <2>2, <3>1, <3>4
         DEF AllPaid, Price, PutIn, Deposited, auctionVars, bankVars
  <2>3. QED
    BY <2>1, <2>2
<1>3. QED
  BY <1>1, <1>2, TypeInvariant, WinnerCorrect, PTL DEF Spec

\* With no stray ulct in the contract, everything is held or everything is
\* paid, exactly once.
THEOREM SettlementIsOnce == Spec => []SettledOnce
<1>1. SettleInv => SettledOnce
  BY DEF SettleInv, SettledOnce, AllHeld, AllPaid
<1>2. QED
  BY <1>1, SettleInvariant, PTL

\* What the refunds take in all, and that a winner whose deposit is short
\* freezes them.
THEOREM ShortfallFreezes == Spec => []ShortfallFreezesRefunds
<1>1. TypeInv /\ SettleInv => ShortfallFreezesRefunds
  <2> SUFFICES ASSUME TypeInv, SettleInv, status = "WinnerDetermined"
               PROVE  /\ TotalDue = TotalPutIn + Shortfall
                      /\ StrayAmounts = {} /\ Shortfall > 0 => kas = TotalPutIn
    BY DEF ShortfallFreezesRefunds
  <2>1. /\ PutIn(pemenang) \in Nat /\ TotalPutIn \in Nat /\ highest_bid \in Nat
    BY PutInIsNatural, AmountAssumption DEF TypeInv, TypeOK, WinnerOnRecord
  <2>2. TotalDue = TotalPutIn + Shortfall
    BY <2>1, TotalDueIs DEF SaturatingSub, Shortfall
  <2>3. ASSUME StrayAmounts = {}, Shortfall > 0 PROVE kas = TotalPutIn
    BY <2>1, <2>3 DEF SettleInv, AllHeld, Shortfall
  <2>4. QED
    BY <2>2, <2>3
<1>2. QED
  BY <1>1, TypeInvariant, SettleInvariant, PTL

\* The step that names a winner whose deposit covers its bid.
CoveredNamingCanSettle ==
    /\ status # "WinnerDetermined"
    /\ status' = "WinnerDetermined"
    /\ Shortfall' = 0
    => TotalDue' \in 0 .. kas'

\* A winner whose own deposit covers its bid is named only when the contract
\* can pay all of the refunds on the spot, whatever stray ulct has come in:
\* right after execute_determine_winner, execute_refund_losers is not refused
\* for want of funds.
THEOREM CoveredWinnerCanSettle == Spec => [][CoveredNamingCanSettle]_vars
<1>1. ASSUME TypeInv, TypeInv', EscrowCoversDeposits, ShortfallFreezesRefunds',
             [Next]_vars
      PROVE  CoveredNamingCanSettle
  <2> SUFFICES ASSUME status # "WinnerDetermined", status' = "WinnerDetermined",
                      Shortfall' = 0
               PROVE  TotalDue' \in 0 .. kas'
    BY DEF CoveredNamingCanSettle
  <2>1. PICK a \in Akun : DetermineWinner(a)
    BY <1>1, OnlyDetermineWinner
  <2>2. kas' = kas /\ peserta' = peserta
    BY <2>1 DEF DetermineWinner, bankVars
  <2>3. TotalPutIn' = TotalPutIn
    BY <2>2, TotalKept DEF PutIn, Deposited
  <2>4. TotalDue' = TotalPutIn' + Shortfall'
    BY <1>1 DEF ShortfallFreezesRefunds
  <2>5. kas >= TotalPutIn /\ kas \in Nat /\ TotalPutIn \in Nat
    BY <1>1, PutInIsNatural DEF EscrowCoversDeposits, TypeInv, TypeOK
  <2>6. QED
    BY <2>2, <2>3, <2>4, <2>5
<1>2. TypeInv /\ TypeInv' /\ EscrowCoversDeposits /\ ShortfallFreezesRefunds'
        /\ [Next]_vars => [CoveredNamingCanSettle]_vars
  BY <1>1
<1>3. QED
  BY <1>2, TypeInvariant, EscrowCovers, ShortfallFreezes, PTL DEF Spec

-----------------------------------------------------------------------------
(***************************************************************************)
(* What a step may never do.                                               *)
(***************************************************************************)

\* One step of BooksAreAppendOnly, for one record.
RecordKept(a) ==
    LET old == peserta[a]  new == peserta'[a] IN
    /\ new.deposit_amount = old.deposit_amount
    /\ old.bid_commitment # None => new.bid_commitment = old.bid_commitment
    /\ old.revealed_bid # None => new.revealed_bid = old.revealed_bid
    /\ status # "Active" => new.bid_commitment = old.bid_commitment

BooksKept ==
    /\ DOMAIN peserta \subseteq DOMAIN peserta'
    /\ \A a \in DOMAIN peserta : RecordKept(a)
    /\ status # "Active" => DOMAIN peserta' = DOMAIN peserta

LEMMA StepKeepsBooks ==
  ASSUME TypeInv, [Next]_vars
  PROVE  BooksKept
<1>1. ASSUME NEW a \in Akun, NEW d \in Deposits, DepositCollateral(a, d)
      PROVE  BooksKept
  <2>1. status = "Active" /\ a \notin DOMAIN peserta
    BY <1>1 DEF DepositCollateral, RecordDeposit, BiddingOpen, Deposited
  <2>2. /\ DOMAIN peserta' = DOMAIN peserta \cup {a}
        /\ \A x \in DOMAIN peserta : peserta'[x] = peserta[x]
    BY <1>1, <2>1 DEF DepositCollateral, RecordDeposit
  <2>3. QED
    BY <2>1, <2>2 DEF BooksKept, RecordKept
<1>2. ASSUME NEW a \in Akun, NEW b \in Bids, NEW s \in Salts,
             NEW e \in Encodings, NEW p \in Proof,
             SubmitBidCommitment(a, [bid |-> b, salt |-> s, encoding |-> e], p)
      PROVE  BooksKept
  <2>1. /\ status = "Active"
        /\ a \in DOMAIN peserta
        /\ peserta[a] \in Peserta
        /\ peserta[a].bid_commitment = None
    BY <1>2 DEF SubmitBidCommitment, BiddingOpen, Deposited, TypeInv, TypeOK
  <2>2. /\ DOMAIN peserta' = DOMAIN peserta
        /\ \A x \in DOMAIN peserta \ {a} : peserta'[x] = peserta[x]
        /\ peserta'[a].deposit_amount = peserta[a].deposit_amount
        /\ peserta'[a].revealed_bid = peserta[a].revealed_bid
    BY <1>2, <2>1 DEF SubmitBidCommitment, TypeInv, TypeOK, Peserta
  <2>3. QED
    BY <2>1, <2>2 DEF BooksKept, RecordKept
<1>3. ASSUME NEW a \in Akun, NEW b \in Bids, NEW s \in Salts, RevealBid(a, b, s)
      PROVE  BooksKept
  <2>1. /\ a \in DOMAIN peserta
        /\ peserta[a] \in Peserta
        /\ peserta[a].revealed_bid = None
    BY <1>3 DEF RevealBid, Deposited, TypeInv, TypeOK
  <2>2. /\ DOMAIN peserta' = DOMAIN peserta
        /\ \A x \in DOMAIN peserta \ {a} : peserta'[x] = peserta[x]
        /\ peserta'[a].deposit_amount = peserta[a].deposit_amount
        /\ peserta'[a].bid_commitment = peserta[a].bid_commitment
    BY <1>3, <2>1 DEF RevealBid, TypeInv, TypeOK, Peserta
  <2>3. QED
    BY <2>1, <2>2 DEF BooksKept, RecordKept
<1>4. CASE peserta' = peserta
  BY <1>4 DEF BooksKept, RecordKept
<1>5. QED
  BY <1>1, <1>2, <1>3, <1>4
     DEF Next, vars, CloseAuction, DetermineWinner, RefundLosers, StrayFunds,
         EscrowNft, Tick

\* Deposits, commitments and opened bids never change once recorded, and
\* after the close nobody enters or commits.
THEOREM BooksCorrect == Spec => BooksAreAppendOnly
<1>1. TypeInv /\ [Next]_vars =>
        [/\ DOMAIN peserta \subseteq DOMAIN peserta'
         /\ \A a \in DOMAIN peserta :
              LET old == peserta[a]  new == peserta'[a] IN
              /\ new.deposit_amount = old.deposit_amount
              /\ old.bid_commitment # None => new.bid_commitment = old.bid_commitment
              /\ old.revealed_bid # None => new.revealed_bid = old.revealed_bid
              /\ status # "Active" => new.bid_commitment = old.bid_commitment
         /\ status # "Active" => DOMAIN peserta' = DOMAIN peserta]_vars
  BY StepKeepsBooks DEF BooksKept, RecordKept
<1>2. QED
  BY <1>1, TypeInvariant, PTL DEF Spec, BooksAreAppendOnly

\* The status only moves forward and a named winner is never replaced.
THEOREM OutcomeFinal == Spec => OutcomeIsFinal
<1>1. [Next]_vars =>
        [/\ status = "Active" => status' # "WinnerDetermined"
         /\ status = "Closed" => status' # "Active"
         /\ status = "WinnerDetermined" => UNCHANGED <<auctionVars, peserta>>]_vars
  <2> SUFFICES ASSUME [Next]_vars
               PROVE  /\ status = "Active" => status' # "WinnerDetermined"
                      /\ status = "Closed" => status' # "Active"
                      /\ status = "WinnerDetermined" => UNCHANGED <<auctionVars, peserta>>
    OBVIOUS
  <2>1. status = "Active" => status' # "WinnerDetermined"
    BY OnlyDetermineWinner DEF DetermineWinner
  <2>2. status = "Closed" => status' # "Active"
    BY DEF Next, vars, auctionVars, DepositCollateral, RecordDeposit, SubmitBidCommitment,
           CloseAuction, RevealBid, DetermineWinner, RefundLosers, StrayFunds,
           EscrowNft, Tick
  <2>3. status = "WinnerDetermined" => UNCHANGED <<auctionVars, peserta>>
    BY StorageFrozen
  <2>4. QED
    BY <2>1, <2>2, <2>3
<1>2. QED
  BY <1>1, PTL DEF Spec, OutcomeIsFinal

-----------------------------------------------------------------------------
(***************************************************************************)
(* The contract implements SealedBidAuction: a commitment seals, a close   *)
(* ends the bidding, a reveal opens, DetermineWinner awards, and every     *)
(* other message or event is a stutter.                                    *)
(***************************************************************************)

\* The abstract state depends on the status, the outcome and the records.
LEMMA AbstractFrame ==
  ASSUME UNCHANGED <<auctionVars, peserta>>
  PROVE  UNCHANGED Auction!vars
BY DEF auctionVars, Auction!vars, Phase, SealedBids, OpenedBids, AwardOnRecord

\* A deposit record without a commitment seals nothing.
LEMMA DepositStutters ==
  ASSUME TypeInv, NEW a \in Akun, NEW d \in Deposits, DepositCollateral(a, d)
  PROVE  UNCHANGED Auction!vars
<1>1. /\ a \notin DOMAIN peserta
      /\ DOMAIN peserta' = DOMAIN peserta \cup {a}
      /\ \A x \in DOMAIN peserta : peserta'[x] = peserta[x]
      /\ peserta'[a].bid_commitment = None
      /\ peserta'[a].revealed_bid = None
  BY DEF DepositCollateral, RecordDeposit, Deposited
<1>2. UNCHANGED <<status, pemenang, highest_bid>>
  BY DEF DepositCollateral, RecordDeposit, auctionVars
<1>3. SealedBids' = SealedBids
  BY <1>1 DEF SealedBids
<1>4. OpenedBids' = OpenedBids
  BY <1>1 DEF OpenedBids
<1>5. QED
  BY <1>2, <1>3, <1>4 DEF Auction!vars, Phase, AwardOnRecord

LEMMA SubmitSeals ==
  ASSUME TypeInv, NEW a \in Akun, NEW b \in Bids, NEW s \in Salts,
         NEW e \in Encodings, NEW p \in Proof,
         SubmitBidCommitment(a, [bid |-> b, salt |-> s, encoding |-> e], p)
  PROVE  Auction!Seal(a, b)
<1> DEFINE text == [bid |-> b, salt |-> s, encoding |-> e]
<1>1. /\ status = "Active"
      /\ a \in DOMAIN peserta
      /\ peserta[a] \in Peserta
      /\ peserta[a].bid_commitment = None
      /\ UNCHANGED <<status, pemenang, highest_bid>>
  BY DEF SubmitBidCommitment, BiddingOpen, Deposited, TypeInv, TypeOK, auctionVars
<1>2. /\ DOMAIN peserta' = DOMAIN peserta
      /\ \A x \in DOMAIN peserta \ {a} : peserta'[x] = peserta[x]
      /\ peserta'[a].bid_commitment = text
      /\ peserta'[a].revealed_bid = peserta[a].revealed_bid
  BY <1>1 DEF SubmitBidCommitment, TypeInv, TypeOK, Peserta
<1>3. text # None /\ text.bid = b
  <2>1. text \in Commitment
    BY FlagAssumption DEF Commitment
  <2>2. QED
    BY <2>1, NoneAssumption
<1> HIDE DEF text
<1>4. OpenedBids' = OpenedBids
  BY <1>1, <1>2 DEF OpenedBids
<1>5. a \notin DOMAIN SealedBids
  BY <1>1 DEF SealedBids
<1>6. SealedBids' = [c \in DOMAIN SealedBids \cup {a} |->
                       IF c = a THEN b ELSE SealedBids[c]]
  <2> DEFINE D == {c \in DOMAIN peserta : peserta[c].bid_commitment # None}
  <2>1. D' = D \cup {a}
    BY <1>1, <1>2, <1>3
  <2>2. SealedBids = [c \in D |-> peserta[c].bid_commitment.bid]
    BY DEF SealedBids
  <2>3. SealedBids' = [c \in D' |-> peserta'[c].bid_commitment.bid]
    BY DEF SealedBids
  <2>4. \A c \in D' : peserta'[c].bid_commitment.bid =
                        IF c = a THEN b ELSE SealedBids[c]
    BY <1>2, <1>3, <2>1, <2>2
  <2>5. DOMAIN SealedBids = D
    BY <2>2
  <2> HIDE DEF D
  <2>6. QED
    BY <2>1, <2>3, <2>4, <2>5
<1>7. b > HargaDasar
  BY VerifiedAboveBase DEF SubmitBidCommitment
<1>8. QED
  BY <1>1, <1>4, <1>5, <1>6, <1>7 DEF Auction!Seal, Phase, AwardOnRecord

LEMMA CloseEndsBidding ==
  ASSUME NEW a \in Akun, CloseAuction(a)
  PROVE  Auction!EndBidding
BY DEF CloseAuction, Auction!EndBidding, Phase, SealedBids, OpenedBids, AwardOnRecord

LEMMA RevealOpens ==
  ASSUME TypeInv, SealInv, NEW a \in Akun, NEW b \in Bids, NEW s \in Salts,
         RevealBid(a, b, s)
  PROVE  Auction!Open(a)
<1>1. /\ status = "Closed"
      /\ a \in DOMAIN peserta
      /\ peserta[a] \in Peserta
      /\ peserta[a].revealed_bid = None
      /\ PoseidonHash(b, s) = peserta[a].bid_commitment
      /\ UNCHANGED <<status, pemenang, highest_bid>>
  BY DEF RevealBid, Deposited, TypeInv, TypeOK, auctionVars
<1>2. peserta[a].bid_commitment # None
  <2>1. PoseidonHash(b, s) \in Commitment
    BY DEF PoseidonHash, Commitment
  <2>2. QED
    BY <2>1, <1>1, NoneAssumption
<1>3. /\ DOMAIN peserta' = DOMAIN peserta
      /\ \A x \in DOMAIN peserta \ {a} : peserta'[x] = peserta[x]
      /\ peserta'[a].revealed_bid = b
      /\ peserta'[a].bid_commitment = peserta[a].bid_commitment
  BY <1>1 DEF RevealBid, TypeInv, TypeOK, Peserta
<1>4. b # None
  BY NoneAssumption
<1>5. a \in DOMAIN SealedBids \ OpenedBids
  BY <1>1, <1>2 DEF SealedBids, OpenedBids
<1>6. OpenedBids' = OpenedBids \cup {a}
  BY <1>1, <1>3, <1>4 DEF OpenedBids
<1>7. SealedBids' = SealedBids
  BY <1>1, <1>3 DEF SealedBids
<1>8. QED
  BY <1>1, <1>5, <1>6, <1>7 DEF Auction!Open, Phase, AwardOnRecord

LEMMA DetermineAwards ==
  ASSUME TypeInv, SealInv, NEW a \in Akun, DetermineWinner(a)
  PROVE  \E b \in Akun : Auction!Award(b)
<1>1. PICK i \in DOMAIN daftar :
        /\ HighestAt(i)
        /\ pemenang' = daftar[i]
        /\ highest_bid' = BidAt(i)
  BY DEF DetermineWinner
<1> DEFINE w == daftar[i]
<1>2. /\ status = "Closed"
      /\ status' = "WinnerDetermined"
      /\ peserta' = peserta
  BY DEF DetermineWinner
<1>3. /\ w \in DOMAIN peserta
      /\ w \in Akun
      /\ peserta[w].revealed_bid # None
  BY <1>1, HighestIsParticipant DEF HighestAt, Qualified
<1>4. \A c \in OpenedBids :
        /\ c \in DOMAIN peserta
        /\ peserta[c].is_verified
        /\ peserta[c].revealed_bid \in Nat
        /\ peserta[c].revealed_bid > HargaDasar
        /\ c \in DOMAIN SealedBids
        /\ SealedBids[c] = peserta[c].revealed_bid
  <2> SUFFICES ASSUME NEW c \in OpenedBids
               PROVE  /\ c \in DOMAIN peserta
                      /\ peserta[c].is_verified
                      /\ peserta[c].revealed_bid \in Nat
                      /\ peserta[c].revealed_bid > HargaDasar
                      /\ c \in DOMAIN SealedBids
                      /\ SealedBids[c] = peserta[c].revealed_bid
    OBVIOUS
  <2> DEFINE p == peserta[c]
  <2>1. c \in DOMAIN peserta /\ p.revealed_bid # None /\ p \in Peserta
    BY DEF OpenedBids, TypeInv, TypeOK
  <2>2. p.revealed_bid \in Nat
    BY <2>1, AmountAssumption DEF Peserta
  <2>3. /\ p.bid_commitment # None
        /\ p.is_verified
        /\ p.bid_commitment.bid > HargaDasar
        /\ p.bid_commitment = PoseidonHash(p.revealed_bid, p.revealed_salt)
    BY <2>1 DEF SealInv
  <2>4. p.bid_commitment.bid = p.revealed_bid
    BY <2>3 DEF PoseidonHash
  <2>5. QED
    BY <2>1, <2>2, <2>3, <2>4 DEF SealedBids
<1>5. w \in OpenedBids
  BY <1>3 DEF OpenedBids
<1>6. \A c \in OpenedBids : SealedBids[c] <= SealedBids[w]
  <2> SUFFICES ASSUME NEW c \in OpenedBids
               PROVE  SealedBids[c] <= SealedBids[w]
    OBVIOUS
  <2>1. PICK j \in DOMAIN daftar : daftar[j] = c
    BY <1>4 DEF TypeInv, RosterMatchesRecords
  <2>2. Qualified(j)
    BY <1>4, <2>1, AmountAssumption DEF Qualified, OpenedBids
  <2>3. BidAt(j) <= BidAt(i)
    BY <1>1, <2>2 DEF HighestAt
  <2>4. QED
    BY <1>4, <1>5, <2>1, <2>3 DEF BidAt
<1>7. AwardOnRecord' = [winner |-> w, price |-> SealedBids[w]]
  BY <1>1, <1>2, <1>4, <1>5 DEF AwardOnRecord, BidAt
<1>8. SealedBids' = SealedBids /\ OpenedBids' = OpenedBids
  BY <1>2 DEF SealedBids, OpenedBids
<1>9. Auction!Award(w)
  BY <1>2, <1>5, <1>6, <1>7, <1>8 DEF Auction!Award, Phase
<1>10. QED
  BY <1>3, <1>9

\* The contract implements the sealed-bid auction, step by step.
THEOREM Refinement == Spec => ImplementsSealedBidAuction
<1>1. Init => Auction!Init
  BY DEF Init, Auction!Init, Phase, SealedBids, OpenedBids, AwardOnRecord
<1>2. TypeInv /\ SealInv /\ [Next]_vars => [Auction!Next]_(Auction!vars)
  <2> SUFFICES ASSUME TypeInv, SealInv, [Next]_vars
               PROVE  [Auction!Next]_(Auction!vars)
    OBVIOUS
  <2>1. ASSUME NEW a \in Akun, NEW d \in Deposits, DepositCollateral(a, d)
        PROVE  UNCHANGED Auction!vars
    BY <2>1, DepositStutters
  <2>2. ASSUME NEW a \in Akun, NEW b \in Bids, NEW s \in Salts,
               NEW e \in Encodings, NEW p \in Proof,
               SubmitBidCommitment(a, [bid |-> b, salt |-> s, encoding |-> e], p)
        PROVE  Auction!Next
    BY <2>2, SubmitSeals DEF Auction!Next
  <2>3. ASSUME NEW a \in Akun, CloseAuction(a)
        PROVE  Auction!Next
    BY <2>3, CloseEndsBidding DEF Auction!Next
  <2>4. ASSUME NEW a \in Akun, NEW b \in Bids, NEW s \in Salts, RevealBid(a, b, s)
        PROVE  Auction!Next
    BY <2>4, RevealOpens DEF Auction!Next
  <2>5. ASSUME NEW a \in Akun, DetermineWinner(a)
        PROVE  Auction!Next
    BY <2>5, DetermineAwards DEF Auction!Next
  <2>6. CASE UNCHANGED <<auctionVars, peserta>>
    BY <2>6, AbstractFrame
  <2>7. QED
    BY <2>1, <2>2, <2>3, <2>4, <2>5, <2>6
       DEF Next, vars, RefundLosers, StrayFunds, EscrowNft, Tick
<1>3. QED
  BY <1>1, <1>2, TypeInvariant, SealInvariant, PTL
     DEF Spec, ImplementsSealedBidAuction, Auction!Spec
=============================================================================
