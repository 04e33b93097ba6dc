----------------------------- MODULE WinnerScan -----------------------------
(***************************************************************************)
(* LelangContract with execute_determine_winner spelled out: the for loop  *)
(* over DAFTAR_PESERTA, one participant per step.  A transaction runs      *)
(* alone, so nothing else happens while the loop does.  It implements      *)
(* LelangContract: the loop finds the position HighestAt describes, and    *)
(* returns NoValidBids exactly when there is none.                         *)
(***************************************************************************)
EXTENDS LelangContract

VARIABLES
    pos,       \* the loop's position in daftar; 0 outside the transaction
    winner,    \* the loop's local `winner`
    highest,   \* the loop's local `highest_bid`
    winner_commitment

localVars == <<pos, winner, highest, winner_commitment>>
scanVars == <<vars, localVars>>

Idle == pos = 0

ResetLocals ==
    /\ pos' = 0
    /\ winner' = None
    /\ highest' = 0
    /\ winner_commitment' = None

ScanInit ==
    /\ Init
    /\ pos = 0
    /\ winner = None
    /\ highest = 0
    /\ winner_commitment = None

\* Variant: the loop starts at the second participant.
ScanBegin_SkipFirst(sender) ==
    /\ Idle
    /\ status = "Closed"
    /\ sender = Penjual
    /\ pos' = 2
    /\ UNCHANGED <<vars, winner, highest, winner_commitment>>

\* The guards of execute_determine_winner, and its locals.
ScanBegin(sender) ==
    /\ Idle
    /\ status = "Closed"
    /\ sender = Penjual
    /\ pos' = 1
    /\ UNCHANGED <<vars, winner, highest, winner_commitment>>

\* Variant: the winner's commitment is not taken along.
ScanStep_StaleCommitment ==
    /\ pos \in DOMAIN daftar
    /\ LET p == peserta[daftar[pos]] IN
       IF p.is_verified /\ p.revealed_bid # None /\ p.revealed_bid > highest
         THEN winner' = daftar[pos] /\ highest' = p.revealed_bid
         ELSE UNCHANGED <<winner, highest>>
    /\ pos' = pos + 1
    /\ UNCHANGED <<vars, winner_commitment>>

\* Variant: an equal bid takes over.
ScanStep_EqualTakesOver ==
    /\ pos \in DOMAIN daftar
    /\ LET p == peserta[daftar[pos]] IN
       IF p.is_verified /\ p.revealed_bid # None /\ p.revealed_bid >= highest
         THEN /\ winner' = daftar[pos]
              /\ highest' = p.revealed_bid
              /\ winner_commitment' = p.bid_commitment
         ELSE UNCHANGED <<winner, highest, winner_commitment>>
    /\ pos' = pos + 1
    /\ UNCHANGED vars

\* One turn of the loop.
ScanStep ==
    /\ pos \in DOMAIN daftar
    /\ LET addr == daftar[pos]
           p == peserta[addr] IN
       IF /\ p.is_verified
          /\ p.revealed_bid # None
          /\ p.revealed_bid > highest
         THEN /\ winner' = addr
              /\ highest' = p.revealed_bid
              /\ winner_commitment' = p.bid_commitment
         ELSE UNCHANGED <<winner, highest, winner_commitment>>
    /\ pos' = pos + 1
    /\ UNCHANGED vars

\* The loop is over and a winner was found.
ScanCommit ==
    /\ pos > Len(daftar)
    /\ winner # None
    /\ PakaiCw721 => nft = Kontrak
    /\ pemenang' = winner
    /\ highest_bid' = highest
    /\ commitment_hash_tertinggi' = winner_commitment
    /\ status' = "WinnerDetermined"
    /\ nft' = IF PakaiCw721 THEN winner ELSE nft
    /\ ResetLocals
    /\ UNCHANGED <<peserta, daftar, now, bankVars>>

\* NoValidBids, or a failed TransferNft: the transaction is rolled back.
ScanAbort ==
    /\ pos > Len(daftar)
    /\ winner = None \/ (PakaiCw721 /\ nft # Kontrak)
    /\ ResetLocals
    /\ UNCHANGED vars

\* The other messages and the environment, between transactions.
Elsewhere ==
    /\ Idle
    /\ \/ \E a \in Akun, d \in Deposits : DepositCollateral(a, d)
       \/ \E a \in Akun, b \in Bids, s \in Salts, e \in Encodings, p \in Proof :
            SubmitBidCommitment(a, [bid |-> b, salt |-> s, encoding |-> e], p)
       \/ \E a \in Akun : CloseAuction(a)
       \/ \E a \in Akun, b \in Bids, s \in Salts : RevealBid(a, b, s)
       \/ RefundLosers
       \/ \E a \in Akun, n \in StrayAmounts : StrayFunds(a, n)
       \/ EscrowNft
       \/ Tick
    /\ UNCHANGED localVars

ScanNext ==
    \/ \E a \in Akun : ScanBegin(a)
    \/ Elsewhere
    \/ ScanStep
    \/ ScanCommit
    \/ ScanAbort

ScanSpec == ScanInit /\ [][ScanNext]_scanVars

-----------------------------------------------------------------------------
\* w is the first of the highest qualified bids among the first n places.
FirstHighestUpTo(w, n) ==
    /\ w \in 1 .. n
    /\ Qualified(w)
    /\ \A j \in 1 .. n :
         Qualified(j) => /\ BidAt(j) <= BidAt(w)
                         /\ j < w => BidAt(j) < BidAt(w)

\* What the loop's locals say of the first n places.
Describes(n, best, bid, commitment) ==
    IF best = None
      THEN bid = 0 /\ \A j \in 1 .. n : ~ Qualified(j)
      ELSE \E w \in 1 .. n :
             /\ FirstHighestUpTo(w, n)
             /\ best = daftar[w]
             /\ bid = BidAt(w)
             /\ commitment = peserta[daftar[w]].bid_commitment

\* The loop invariant: the locals describe the part already scanned.
ScanInvariant ==
    /\ pos \in 0 .. Len(daftar) + 1
    /\ pos > 0 => status = "Closed"
    /\ Describes(pos - 1, winner, highest, winner_commitment)

\* NoValidBids is returned only when no participant qualifies, so an opened
\* verified bid always leads to a winner.
NoValidBidsIsRight ==
    (pos > Len(daftar) /\ winner = None) =>
      \A a \in DOMAIN peserta :
        peserta[a].is_verified => peserta[a].revealed_bid \in {None, 0}

\* The transaction in one step: with the loop's locals hidden, a scan that
\* commits is LelangContract's DetermineWinner, and every other step of it
\* is a stutter.
ImplementsContract == Spec
=============================================================================
