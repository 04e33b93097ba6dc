------------------------------- MODULE MCScan -------------------------------
(***************************************************************************)
(* WinnerScan for TLC: three bidders besides the seller, one deposit size, *)
(* so that what varies is the order of DAFTAR_PESERTA, who opened what,    *)
(* and the ties.                                                           *)
(***************************************************************************)
EXTENDS WinnerScan, TLC

CONSTANTS penjual, alice, bob, carol

Symmetry == Permutations({alice, bob, carol})
=============================================================================
