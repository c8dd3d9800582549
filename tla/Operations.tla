----------------------------- MODULE Operations -----------------------------
(***************************************************************************)
(* The library's pure functions together, for model checking: packing into *)
(* a buffer (LePack, extended here) and the numeric and bit operations.    *)
(* They share no state; a behaviour drives one of the two.                 *)
(***************************************************************************)
EXTENDS LePack, FiniteSetsExt

CONSTANT WordBytes     \* see NumericOps

VARIABLES
  driven,              \* "packing" or "numeric"
  word                 \* the argument of the numeric operations

Numeric == INSTANCE NumericOps

ASSUME WordAssumption == WordBytes \in 1 .. 2

(* Values of a type: the least, the largest, one with different bytes, and *)
(* the ones next to the sign.                                              *)
SampleValues(t) ==
  LET top   == Place(t.size)
      mixed == MapThenSumSet(LAMBDA k : ((k + 1) % ByteMod) * Place(k), 0 .. t.size - 1)
  IN  CASE t.read = "bool"     -> {0, 1}
        [] t.read = "raw"      -> {[k \in 0 .. t.size - 1 |-> 0],
                                   [k \in 0 .. t.size - 1 |-> (k + 1) % ByteMod]}
        [] t.read = "signed"   -> {0 - top \div 2, -1, mixed - top \div 2, top \div 2 - 1}
        [] t.read = "unsigned" -> {0, mixed, top \div 2, top - 1}

OperationsInit ==
  /\ driven \in {"packing", "numeric"}
  /\ Init
  /\ IF driven = "numeric" THEN Numeric!Init ELSE word = 0

OperationsNext ==
  /\ \/ driven = "packing" /\ Next /\ UNCHANGED word
     \/ driven = "numeric" /\ Numeric!Next /\ UNCHANGED <<data, packs, fields, last>>
  /\ UNCHANGED driven

OperationsSpec == OperationsInit /\ [][OperationsNext]_<<vars, driven, word>>

-----------------------------------------------------------------------------
(***************************************************************************)
(* The power-of-two test accepts the sizes whose mask is a remainder.      *)
(***************************************************************************)
PowerTestExact == Numeric!PowerTestExact

(***************************************************************************)
(* The folded sums count the bits that are set.                            *)
(***************************************************************************)
HammingWeightExact == Numeric!HammingWeightExact
=============================================================================
