------------------------------- MODULE MCBuyer -------------------------------
(***************************************************************************)
(* BuyerSession for TLC: two tabs, one Keplr account besides the bypass.   *)
(***************************************************************************)
EXTENDS BuyerSession, TLC

CONSTANTS t1, t2

Symmetry == Permutations({t1, t2})
=============================================================================
