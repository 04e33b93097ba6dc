------------------------------ MODULE MCBackend ------------------------------
(***************************************************************************)
(* AuctionBackend for TLC: two wallets, two requests at a time.            *)
(***************************************************************************)
EXTENDS AuctionBackend, TLC

CONSTANTS w1, w2, r1, r2

Symmetry == Permutations({w1, w2}) \cup Permutations({r1, r2})
=============================================================================
