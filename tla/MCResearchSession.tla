-------------------------- MODULE MCResearchSession --------------------------
(***************************************************************************)
(* Small instances of ResearchSession.  Retry requests and workers are     *)
(* interchangeable, so the safety runs may identify states that differ by  *)
(* a permutation of them; the liveness run may not.                        *)
(***************************************************************************)
EXTENDS ResearchSession, TLC

Symmetry == Permutations(Retries) \union Permutations(Workers)
=============================================================================
