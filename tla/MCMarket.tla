------------------------------ MODULE MCMarket ------------------------------
(***************************************************************************)
(* Market for TLC: the clients are alike.                                  *)
(***************************************************************************)
EXTENDS Market, TLC

Symmetry == Permutations(Clients)
=============================================================================
