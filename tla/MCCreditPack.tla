---------------------------- MODULE MCCreditPack ----------------------------
(***************************************************************************)
(* A pack of three tokens and calls that ask for four: one of them must    *)
(* miss, and which one depends on the order they run in.                   *)
(***************************************************************************)
EXTENDS CreditPack, TLC

CONSTANTS cheap1, cheap2, dear1

MCCost == (cheap1 :> 1) @@ (cheap2 :> 1) @@ (dear1 :> 2)

Symmetry == Permutations(Buyers) \union Permutations({cheap1, cheap2})
=============================================================================
