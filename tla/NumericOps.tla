----------------------------- MODULE NumericOps -----------------------------
(***************************************************************************)
(* src/src/operations/numeric_ops.c and bit_ops.c: two bit tricks against  *)
(* the arithmetic they stand for, on a word of WordBytes bytes.  The code's *)
(* bit count is for four bytes; each of its constants is one byte repeated, *)
(* so that a narrower word is counted by the same steps.                   *)
(***************************************************************************)
EXTENDS Integers, FiniteSets, Bitwise

CONSTANT WordBytes   \* bytes of a word, size_t included

VARIABLE word        \* the argument

WordMod == 2 ^ (8 * WordBytes)

Init == word \in 0 .. WordMod - 1
Next == word' = (word + 1) % WordMod

(* The byte repeated over the word: Repeat(85) is 0x55...55. *)
Repeat(byte) == byte * ((WordMod - 1) \div 255)

PowerWithoutZeroTest(i) ==   \* faulty variant: 0 has no bit to lose
  (i & ((i + WordMod - 1) % WordMod)) = 0

(* i - 1 wraps for 0. *)
numeric_ops_is_power_2_sz(i) ==
  (i & ((i + WordMod - 1) % WordMod)) = 0 /\ i # 0

(* Faulty variant: the nibbles are summed before they are masked. *)
WeightMaskedLate(i) ==
  LET pairs == i - (shiftR(i, 1) & Repeat(85))
      quads == (pairs + shiftR(pairs, 2)) & Repeat(51)
      bytes == (quads + shiftR(quads, 4)) & Repeat(15)
  IN  ((bytes * Repeat(1)) % WordMod) \div 2 ^ (8 * (WordBytes - 1))

(* bit_ops_hamming_weight_u32: pairs, quads, bytes, then their sum in the  *)
(* highest byte of the product.                                            *)
bit_ops_hamming_weight(i) ==
  LET pairs == i - (shiftR(i, 1) & Repeat(85))
      quads == (pairs & Repeat(51)) + (shiftR(pairs, 2) & Repeat(51))
      bytes == (quads + shiftR(quads, 4)) & Repeat(15)
  IN  ((bytes * Repeat(1)) % WordMod) \div 2 ^ (8 * (WordBytes - 1))

-----------------------------------------------------------------------------
(***************************************************************************)
(* The test accepts the powers of two, 0 excluded, and for each of them    *)
(* "index & (size - 1)" is the remainder by the size, which is what the    *)
(* fast ring relies on.                                                    *)
(***************************************************************************)
PowerTestExact ==
  /\ numeric_ops_is_power_2_sz(word) <=> \E k \in 0 .. 8 * WordBytes - 1 : word = 2 ^ k
  /\ numeric_ops_is_power_2_sz(word) =>
       \A index \in 0 .. 2 * word - 1 : (index & (word - 1)) = index % word

(***************************************************************************)
(* The folded sums are the number of bits set, for every word: no partial  *)
(* sum runs over into its neighbour.                                       *)
(***************************************************************************)
HammingWeightExact ==
  bit_ops_hamming_weight(word) =
    Cardinality({k \in 0 .. 8 * WordBytes - 1 : (word \div 2 ^ k) % 2 = 1})
=============================================================================
