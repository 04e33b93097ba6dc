------------------------------ MODULE MCSeller ------------------------------
(***************************************************************************)
(* SellerApp for TLC: one Keplr account and the bypass, two auctions, two  *)
(* images, a subcategory of each main category.  Items and file names are  *)
(* interchangeable.                                                        *)
(***************************************************************************)
EXTENDS SellerApp, TLC

MCSubs == [hardware |-> {"hw-a"}, software |-> {"sw-a"}]
MCFirstSub == [hardware |-> "hw-a", software |-> "sw-a"]

Symmetry == Permutations(Items) \cup Permutations(Files)
=============================================================================
