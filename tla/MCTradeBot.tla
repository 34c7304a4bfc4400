----------------------------- MODULE MCTradeBot -----------------------------
(***************************************************************************)
(* Small instances of TradeBot with two interchangeable tokens.            *)
(***************************************************************************)
EXTENDS TradeBot, TLC

Symmetry == Permutations(Tokens)
=============================================================================
