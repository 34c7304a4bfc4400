--------------------------- MODULE MCCreditsLedger ---------------------------
(***************************************************************************)
(* Three concurrent clients of one account with a negative floor.          *)
(***************************************************************************)
EXTENDS CreditsLedger, TLC

MCPrices == {1, 2}
MCAmounts == {1, 3}
MCFloor == -1
Symmetry == Permutations(Clients)
=============================================================================
