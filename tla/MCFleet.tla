------------------------------- MODULE MCFleet -------------------------------
(***************************************************************************)
(* Small instances of Fleet: every agent belongs to one user, so that the  *)
(* cap binds, and agents and threads are interchangeable.                  *)
(***************************************************************************)
EXTENDS Fleet, TLC

CONSTANT user
MCOwners == {user}
MCOwner == [a \in Agents |-> user]

Symmetry == Permutations(Agents) \union Permutations(Handlers)
==============================================================================
