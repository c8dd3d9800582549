---------------------------- MODULE MCContainers ----------------------------
(***************************************************************************)
(* Ranks of the heap's items for TLC.                                      *)
(***************************************************************************)
EXTENDS Containers

ASSUME MCItemAssumption == Item \subseteq Nat

(* Some items rank alike. *)
MCRank == [x \in Item |-> x \div 2]
=============================================================================
