------------------------------ MODULE MCOracle ------------------------------
(***************************************************************************)
(* A small instance of Oracle: the process of the agent, with a call of    *)
(* the entry gate and two manual ones, and a manual call of another        *)
(* process.                                                                *)
(***************************************************************************)
EXTENDS Oracle, TLC

CONSTANTS gate, manual1, manual2, other
MCWrapper == gate :> gate @@ manual1 :> gate @@ manual2 :> gate @@ other :> other

Symmetry == Permutations({manual1, manual2})
==============================================================================
