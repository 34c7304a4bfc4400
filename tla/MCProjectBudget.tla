--------------------------- MODULE MCProjectBudget ---------------------------
(***************************************************************************)
(* A small instance of ProjectBudget: a project being created, three paid  *)
(* requests of one price and a plan of another.                            *)
(***************************************************************************)
EXTENDS ProjectBudget, TLC

CONSTANTS pro1, pro2, pro3, plan
MCPrice == [r \in Paid |-> 2] @@ plan :> 1

Symmetry == Permutations({pro1, pro2, pro3})
==============================================================================
