------------------------------ MODULE MCLelang ------------------------------
(***************************************************************************)
(* LelangContract for TLC: a seller and two bidders, small amounts.        *)
(***************************************************************************)
EXTENDS LelangContract, TLC

CONSTANTS penjual, alice, bob

\* alice and bob are interchangeable; the seller is not.
Symmetry == Permutations({alice, bob})
=============================================================================
