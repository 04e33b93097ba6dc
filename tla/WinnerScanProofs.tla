-------------------------- MODULE WinnerScanProofs --------------------------
(***************************************************************************)
(* The loop of execute_determine_winner is correct for every number of     *)
(* participants, every set of bids and every order of deposits: its loop   *)
(* invariant, and that the contract with the loop spelled out implements   *)
(* the contract that picks the winner in one step.                         *)
(***************************************************************************)
EXTENDS WinnerScan, LelangContractProofs

\* The record a position of the roster leads to.
LEMMA PositionHasRecord ==
  ASSUME TypeInv, NEW j \in DOMAIN daftar
  PROVE  /\ daftar[j] \in DOMAIN peserta
         /\ daftar[j] \in Akun
         /\ daftar[j] # None
         /\ BidAt(j) # None => BidAt(j) \in Nat
<1>1. daftar[j] \in Akun /\ daftar[j] # None
  BY NoneAssumption DEF TypeInv, TypeOK
<1>2. daftar[j] \in DOMAIN peserta /\ peserta[daftar[j]] \in Peserta
  BY DEF TypeInv, TypeOK, RosterMatchesRecords
<1>3. BidAt(j) # None => BidAt(j) \in Nat
  BY <1>2, AmountAssumption DEF BidAt, Peserta
<1>4. QED
  BY <1>1, <1>2, <1>3

LEMMA QualifiedBid ==
  ASSUME TypeInv, NEW j \in DOMAIN daftar, Qualified(j)
  PROVE  BidAt(j) \in Nat /\ BidAt(j) > 0
BY PositionHasRecord DEF Qualified, BidAt

\* The locals stay right when the place n is no better than the best so far.
LEMMA KeepBest ==
  ASSUME TypeInv, NEW n \in DOMAIN daftar, NEW best, NEW bid, NEW commitment,
         Describes(n - 1, best, bid, commitment),
         ~ (peserta[daftar[n]].is_verified /\ BidAt(n) # None /\ BidAt(n) > bid)
  PROVE  Describes(n, best, bid, commitment)
<1>1. /\ n \in Nat /\ n >= 1 /\ Len(daftar) \in Nat /\ n <= Len(daftar)
      /\ DOMAIN daftar = 1 .. Len(daftar)
  BY DEF TypeInv, TypeOK
<1>2. /\ \A j \in 1 .. n : j \in 1 .. n - 1 \/ j = n
      /\ 1 .. n \subseteq DOMAIN daftar
  BY <1>1
<1>3. CASE best = None
  <2>1. bid = 0 /\ \A j \in 1 .. n - 1 : ~ Qualified(j)
    BY <1>3 DEF Describes
  <2>2. ~ Qualified(n)
    BY <2>1 DEF Qualified, BidAt
  <2>3. QED
    BY <1>2, <1>3, <2>1, <2>2 DEF Describes
<1>4. CASE best # None
  <2>1. PICK w \in 1 .. n - 1 :
          /\ FirstHighestUpTo(w, n - 1)
          /\ best = daftar[w]
          /\ bid = BidAt(w)
          /\ commitment = peserta[daftar[w]].bid_commitment
    BY <1>4 DEF Describes
  <2>2. w \in 1 .. n /\ Qualified(w) /\ w < n /\ w \in Nat
    BY <1>1, <2>1 DEF FirstHighestUpTo
  <2>3. BidAt(w) \in Nat
    BY <1>2, <2>2, QualifiedBid
  <2>4. Qualified(n) => BidAt(n) <= BidAt(w)
    BY <2>1, <2>3, QualifiedBid DEF Qualified, BidAt
  <2>5. ASSUME NEW j \in 1 .. n, Qualified(j)
        PROVE  BidAt(j) <= BidAt(w) /\ (j < w => BidAt(j) < BidAt(w))
    <3>1. CASE j \in 1 .. n - 1
      BY <2>1, <2>5, <3>1 DEF FirstHighestUpTo
    <3>2. CASE j = n
      BY <1>1, <2>2, <2>4, <2>5, <3>2
    <3>3. QED
      BY <1>2, <3>1, <3>2
  <2>6. FirstHighestUpTo(w, n)
    BY <2>2, <2>5 DEF FirstHighestUpTo
  <2>7. QED
    BY <1>4, <2>1, <2>2, <2>6 DEF Describes
<1>5. QED
  BY <1>3, <1>4

\* The place n becomes the best so far when its bid is strictly higher.
LEMMA TakeBest ==
  ASSUME TypeInv, NEW n \in DOMAIN daftar, NEW best, NEW bid, NEW commitment,
         Describes(n - 1, best, bid, commitment),
         peserta[daftar[n]].is_verified, BidAt(n) # None, BidAt(n) > bid
  PROVE  Describes(n, daftar[n], BidAt(n), peserta[daftar[n]].bid_commitment)
<1>1. /\ n \in Nat /\ n >= 1 /\ Len(daftar) \in Nat /\ n <= Len(daftar)
      /\ DOMAIN daftar = 1 .. Len(daftar)
  BY DEF TypeInv, TypeOK
<1>2. /\ \A j \in 1 .. n : j \in 1 .. n - 1 \/ j = n
      /\ 1 .. n \subseteq DOMAIN daftar
      /\ n \in 1 .. n
  BY <1>1
<1>3. BidAt(n) \in Nat /\ daftar[n] # None
  BY PositionHasRecord
<1>4. bid \in Nat /\ \A j \in 1 .. n - 1 : Qualified(j) => BidAt(j) <= bid
  <2>1. CASE best = None
    BY <2>1 DEF Describes
  <2>2. CASE best # None
    <3>1. PICK w \in 1 .. n - 1 : FirstHighestUpTo(w, n - 1) /\ bid = BidAt(w)
      BY <2>2 DEF Describes
    <3>2. w \in DOMAIN daftar /\ Qualified(w)
      BY <1>1, <3>1 DEF FirstHighestUpTo
    <3>3. QED
      BY <3>1, <3>2, QualifiedBid DEF FirstHighestUpTo
  <2>3. QED
    BY <2>1, <2>2
<1>5. Qualified(n)
  BY <1>3, <1>4 DEF Qualified, BidAt
<1>6. ASSUME NEW j \in 1 .. n, Qualified(j)
      PROVE  BidAt(j) <= BidAt(n) /\ (j < n => BidAt(j) < BidAt(n))
  <2>1. CASE j \in 1 .. n - 1
    <3>1. BidAt(j) <= bid /\ BidAt(j) \in Nat
      BY <1>2, <1>4, <1>6, <2>1, QualifiedBid
    <3>2. QED
      BY <1>3, <1>4, <3>1
  <2>2. CASE j = n
    BY <1>1, <1>3, <2>2
  <2>3. QED
    BY <1>2, <2>1, <2>2
<1>7. FirstHighestUpTo(n, n)
  BY <1>2, <1>5, <1>6 DEF FirstHighestUpTo
<1>8. QED
  BY <1>2, <1>3, <1>7 DEF Describes

\* One turn of the loop extends what the locals describe by one position.
LEMMA StepPreservesScanInvariant ==
  ASSUME TypeInv, ScanInvariant, ScanStep
  PROVE  ScanInvariant'
<1>1. /\ pos \in DOMAIN daftar
      /\ pos' = pos + 1
      /\ UNCHANGED <<peserta, daftar, status>>
      /\ DOMAIN daftar = 1 .. Len(daftar)
      /\ Len(daftar) \in Nat
  BY DEF ScanStep, vars, auctionVars, TypeInv, TypeOK
<1>2. /\ pos' \in 0 .. Len(daftar) + 1
      /\ pos' - 1 = pos
      /\ pos > 0
  BY <1>1
<1>3. Describes(pos, winner', highest', winner_commitment')
  <2> DEFINE Beats == /\ peserta[daftar[pos]].is_verified
                      /\ BidAt(pos) # None
                      /\ BidAt(pos) > highest
  <2>1. Describes(pos - 1, winner, highest, winner_commitment)
    BY DEF ScanInvariant
  <2>2. CASE Beats
    <3>1. /\ winner' = daftar[pos]
          /\ highest' = BidAt(pos)
          /\ winner_commitment' = peserta[daftar[pos]].bid_commitment
      BY <2>2 DEF ScanStep, BidAt
    <3>2. QED
      BY <1>1, <2>1, <2>2, <3>1, TakeBest
  <2>3. CASE ~ Beats
    <3>1. UNCHANGED <<winner, highest, winner_commitment>>
      BY <2>3 DEF ScanStep, BidAt
    <3>2. QED
      BY <1>1, <2>1, <2>3, <3>1, KeepBest
  <2>4. QED
    BY <2>2, <2>3
<1>4. QED
  BY <1>1, <1>2, <1>3
     DEF ScanInvariant, Describes, FirstHighestUpTo, Qualified, BidAt

\* Between transactions the locals are in their initial state.
LEMMA IdleLocals ==
  ASSUME ScanInvariant, pos = 0
  PROVE  winner = None /\ highest = 0
BY DEF ScanInvariant, Describes

LEMMA ResetEstablishesScanInvariant ==
  ASSUME TypeInv, daftar' = daftar, ResetLocals
  PROVE  ScanInvariant'
<1>1. Len(daftar) \in Nat
  BY DEF TypeInv, TypeOK
<1>2. QED
  BY <1>1 DEF ResetLocals, ScanInvariant, Describes

\* Messages other than DetermineWinner are steps of the contract.
LEMMA ElsewhereIsContractStep ==
  ASSUME Elsewhere
  PROVE  Next /\ pos = 0 /\ UNCHANGED localVars
BY DEF Elsewhere, Next, Idle

\* A scan that commits names the winner HighestAt describes.
LEMMA CommitDetermines ==
  ASSUME TypeInv, ScanInvariant, ScanCommit
  PROVE  DetermineWinner(Penjual)
<1>1. /\ pos \in 0 .. Len(daftar) + 1
      /\ pos > Len(daftar)
      /\ Len(daftar) \in Nat
      /\ DOMAIN daftar = 1 .. Len(daftar)
  BY DEF ScanCommit, ScanInvariant, TypeInv, TypeOK
<1>2. pos - 1 = Len(daftar) /\ pos > 0
  BY <1>1
<1>3. PICK w \in DOMAIN daftar :
        /\ FirstHighestUpTo(w, Len(daftar))
        /\ winner = daftar[w]
        /\ highest = BidAt(w)
        /\ winner_commitment = peserta[daftar[w]].bid_commitment
  BY <1>1, <1>2 DEF ScanCommit, ScanInvariant, Describes
<1>4. HighestAt(w)
  BY <1>1, <1>3 DEF FirstHighestUpTo, HighestAt
<1>5. status = "Closed"
  BY <1>2 DEF ScanInvariant
<1>6. QED
  BY <1>3, <1>4, <1>5 DEF ScanCommit, DetermineWinner

\* A step of the loop, seen from outside, is a step of the contract.
LEMMA ScanStepIsContractStep ==
  ASSUME TypeInv, ScanInvariant, [ScanNext]_scanVars
  PROVE  [Next]_vars
<1>1. CASE ScanCommit
  BY <1>1, CommitDetermines, AkunAssumption DEF Next
<1>2. CASE Elsewhere
  BY <1>2, ElsewhereIsContractStep
<1>3. ASSUME NEW a \in Akun, ScanBegin(a)
      PROVE  UNCHANGED vars
  BY <1>3 DEF ScanBegin
<1>4. CASE ScanStep \/ ScanAbort
  BY <1>4 DEF ScanStep, ScanAbort
<1>5. CASE UNCHANGED scanVars
  BY <1>5 DEF scanVars
<1>6. QED
  BY <1>1, <1>2, <1>3, <1>4, <1>5 DEF ScanNext

LEMMA ScanInvariantStep ==
  ASSUME TypeInv, ScanInvariant, [ScanNext]_scanVars
  PROVE  ScanInvariant'
<1>1. ASSUME NEW a \in Akun, ScanBegin(a)
      PROVE  ScanInvariant'
  <2>1. /\ pos' = 1
        /\ status' = "Closed"
        /\ daftar' = daftar
        /\ winner' = None
        /\ highest' = 0
    BY <1>1, IdleLocals DEF ScanBegin, Idle, vars, auctionVars
  <2>2. Len(daftar) \in Nat
    BY DEF TypeInv, TypeOK
  <2>3. QED
    BY <2>1, <2>2 DEF ScanInvariant, Describes
<1>2. CASE Elsewhere
  <2>1. TypeInv' /\ pos = 0 /\ UNCHANGED localVars
    BY <1>2, ElsewhereIsContractStep, TypeInvStep
  <2>2. Len(daftar') \in Nat
    BY <2>1 DEF TypeInv, TypeOK
  <2>3. pos' = 0 /\ winner' = None /\ highest' = 0
    BY <2>1, IdleLocals DEF localVars
  <2>4. QED
    BY <2>2, <2>3 DEF ScanInvariant, Describes
<1>3. CASE ScanStep
  BY <1>3, StepPreservesScanInvariant
<1>4. CASE ScanCommit
  BY <1>4, ResetEstablishesScanInvariant DEF ScanCommit
<1>5. CASE ScanAbort
  BY <1>5, ResetEstablishesScanInvariant DEF ScanAbort, vars
<1>6. CASE UNCHANGED scanVars
  BY <1>6 DEF scanVars, localVars, vars, auctionVars, ScanInvariant, Describes,
              FirstHighestUpTo, Qualified, BidAt
<1>7. QED
  BY <1>1, <1>2, <1>3, <1>4, <1>5, <1>6 DEF ScanNext

\* The two invariants hold together: the loop needs the records' types, and
\* the records' types survive the loop because it is a step of the contract.
THEOREM ScanInductive == ScanSpec => [](TypeInv /\ ScanInvariant)
<1>1. ScanInit => TypeInv /\ ScanInvariant
  <2> SUFFICES ASSUME ScanInit
               PROVE  TypeInv /\ ScanInvariant
    OBVIOUS
  <2>1. TypeInv
    BY AkunAssumption, AmountAssumption
       DEF ScanInit, Init, TypeInv, TypeOK, AuctionStatus, RosterMatchesRecords,
           WinnerOnRecord
  <2>2. ScanInvariant
    BY DEF ScanInit, Init, ScanInvariant, Describes
  <2>3. QED
    BY <2>1, <2>2
<1>2. TypeInv /\ ScanInvariant /\ [ScanNext]_scanVars =>
        (TypeInv /\ ScanInvariant)'
  BY ScanInvariantStep, ScanStepIsContractStep, TypeInvStep
<1>3. QED
  BY <1>1, <1>2, PTL DEF ScanSpec

\* The loop invariant of execute_determine_winner.
THEOREM ScanCorrect == ScanSpec => []ScanInvariant
BY ScanInductive, PTL

\* The contract with the loop implements the contract without it.
THEOREM ScanRefinement == ScanSpec => ImplementsContract
<1>1. ScanInit => Init
  BY DEF ScanInit
<1>2. TypeInv /\ ScanInvariant /\ [ScanNext]_scanVars => [Next]_vars
  BY ScanStepIsContractStep
<1>3. QED
  BY <1>1, <1>2, ScanInductive, PTL DEF ScanSpec, ImplementsContract, Spec

\* NoValidBids is returned only when nobody opened a verified bid above zero.
THEOREM NoValidBidsCorrect == ScanSpec => []NoValidBidsIsRight
<1>1. TypeInv /\ ScanInvariant => NoValidBidsIsRight
  <2> SUFFICES ASSUME TypeInv, ScanInvariant, pos > Len(daftar), winner = None,
                      NEW a \in DOMAIN peserta, peserta[a].is_verified
               PROVE  peserta[a].revealed_bid \in {None, 0}
    BY DEF NoValidBidsIsRight
  <2>1. Len(daftar) \in Nat /\ DOMAIN daftar = 1 .. Len(daftar)
    BY DEF TypeInv, TypeOK
  <2>2. pos - 1 = Len(daftar)
    BY <2>1 DEF ScanInvariant
  <2>3. PICK j \in DOMAIN daftar : daftar[j] = a
    BY DEF TypeInv, RosterMatchesRecords
  <2>4. ~ Qualified(j)
    BY <2>1, <2>2, <2>3 DEF ScanInvariant, Describes
  <2>5. BidAt(j) # None => BidAt(j) \in Nat
    BY PositionHasRecord
  <2>6. QED
    BY <2>3, <2>4, <2>5 DEF Qualified, BidAt
<1>2. QED
  BY <1>1, ScanInductive, PTL
=============================================================================
