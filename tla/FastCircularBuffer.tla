------------------------- MODULE FastCircularBuffer -------------------------
(***************************************************************************)
(* src/src/collections/fast_circular_buffer.c: a byte ring of a power of   *)
(* two bytes.  The two indices are never reduced to the ring: they are     *)
(* size_t counters that run on and wrap at SizeMod = 2^(bits of size_t),   *)
(* and only their low bits address the array.  The flag of CircularBuffer  *)
(* is not needed, because the difference of the counters tells 0 from full.*)
(***************************************************************************)
EXTENDS Naturals, Sequences, ErrorCodes

CONSTANTS
  Byte,      \* the byte values pushed
  SizeMod,   \* number of values of size_t, a power of two
  MaxSize    \* bytes in the client's array; init may use any part of it

(* n is a power of two: it has no odd divisor but 1. *)
IsPowerOf2(n) == n >= 1 /\ \A d \in 2 .. n : n % d = 0 => d % 2 = 0

(* What the constants must satisfy; assumed where they get their values. *)
FastConstants ==
  /\ Byte # {}
  /\ SizeMod \in Nat /\ IsPowerOf2(SizeMod)
  /\ MaxSize \in 1 .. SizeMod - 1

VARIABLES
  buffer,        \* the client's array
  size_mask,     \* ring size - 1; 0 after deinit
  read_index,    \* free-running counters of size_t
  write_index,
  out,           \* the byte the client's last successful pop stored
  ret            \* the last code returned

vars == <<buffer, size_mask, read_index, write_index, out, ret>>

Slot == 0 .. MaxSize - 1

TypeOK ==
  /\ buffer \in [Slot -> Byte]
  /\ size_mask \in Slot
  /\ read_index \in 0 .. SizeMod - 1
  /\ write_index \in 0 .. SizeMod - 1
  /\ out \in Byte
  /\ ret \in ErrorCode

Init ==
  /\ \E b \in Byte : buffer = [s \in Slot |-> b] /\ out = b
  /\ size_mask = 0
  /\ read_index = 0
  /\ write_index = 0
  /\ ret = ERR_NONE

(***************************************************************************)
(* Arithmetic on size_t wraps.  a - b is written so that no intermediate   *)
(* value is negative.                                                      *)
(***************************************************************************)
AddWithoutWrap(a, b) == a + b   \* faulty variant: a counter wider than size_t

Add(a, b) == (a + b) % SizeMod
Sub(a, b) == (a + (SizeMod - b)) % SizeMod

(***************************************************************************)
(* index & size_mask.  size_mask + 1 is a power of two, so the low bits    *)
(* are the remainder.                                                      *)
(***************************************************************************)
Masked(index) == index % (size_mask + 1)

fast_circular_buffer_get_count == Sub(write_index, read_index)

(* fast_circular_buffer_validate_config, with numeric_ops_is_power_2_sz *)
ValidConfig(buffer_size) == buffer_size >= 2 /\ IsPowerOf2(buffer_size)

fast_circular_buffer_init(buffer_size) ==
  IF ValidConfig(buffer_size)
    THEN /\ size_mask' = buffer_size - 1
         /\ read_index' = 0
         /\ write_index' = 0
         /\ ret' = ERR_NONE
         /\ UNCHANGED <<buffer, out>>
    ELSE /\ ret' = ERR_INVALID_ARG
         /\ UNCHANGED <<buffer, size_mask, read_index, write_index, out>>

fast_circular_buffer_deinit ==
  /\ size_mask' = 0
  /\ read_index' = 0
  /\ write_index' = 0
  /\ UNCHANGED <<buffer, out, ret>>

(* Faulty variant: full is noticed one push too late. *)
OverwritesLate == fast_circular_buffer_get_count > size_mask + 1

(* The ring is full: the push below overwrites the oldest byte. *)
Overwrites == fast_circular_buffer_get_count > size_mask

(* Faulty variant: fullness is a comparison of the two counters, which the *)
(* wrap of the write counter makes false.                                  *)
PushComparingCounters(byte) ==
  IF size_mask = 0
    THEN /\ ret' = ERR_NO_MEM
         /\ UNCHANGED <<buffer, size_mask, read_index, write_index, out>>
    ELSE /\ buffer' = [buffer EXCEPT ![Masked(write_index)] = byte]
         /\ read_index' = IF write_index > read_index + size_mask
                            THEN Sub(write_index, size_mask)
                            ELSE read_index
         /\ write_index' = Add(write_index, 1)
         /\ ret' = ERR_NONE
         /\ UNCHANGED <<size_mask, out>>

fast_circular_buffer_push_byte(byte) ==
  IF size_mask = 0
    THEN /\ ret' = ERR_NO_MEM
         /\ UNCHANGED <<buffer, size_mask, read_index, write_index, out>>
    ELSE /\ buffer' = [buffer EXCEPT ![Masked(write_index)] = byte]
         /\ read_index' = IF Overwrites THEN Sub(write_index, size_mask)
                                        ELSE read_index
         /\ write_index' = Add(write_index, 1)
         /\ ret' = ERR_NONE
         /\ UNCHANGED <<size_mask, out>>

fast_circular_buffer_pop_byte ==
  IF fast_circular_buffer_get_count = 0
    THEN /\ ret' = ERR_EMPTY
         /\ UNCHANGED <<buffer, size_mask, read_index, write_index, out>>
    ELSE /\ out' = buffer[Masked(read_index)]
         /\ read_index' = Add(read_index, 1)
         /\ ret' = ERR_NONE
         /\ UNCHANGED <<buffer, size_mask, write_index>>

Next ==
  \/ \E n \in 0 .. MaxSize : fast_circular_buffer_init(n)
  \/ fast_circular_buffer_deinit
  \/ \E b \in Byte : fast_circular_buffer_push_byte(b)
  \/ fast_circular_buffer_pop_byte

Spec == Init /\ [][Next]_vars

-----------------------------------------------------------------------------
(***************************************************************************)
(* Whatever the two counters have wrapped to, their difference is at most  *)
(* the ring size, so get_count never reports more bytes than the array     *)
(* holds; a deinitialised ring has equal counters.                         *)
(***************************************************************************)
CountInv ==
  /\ fast_circular_buffer_get_count <= size_mask + 1
  /\ size_mask = 0 => read_index = write_index

(***************************************************************************)
(* Refinement mapping: the get_count bytes that follow the read counter.   *)
(***************************************************************************)
Contents ==
  [i \in 1 .. fast_circular_buffer_get_count |->
     buffer[Masked(Add(read_index, i - 1))]]

Fifo == INSTANCE OverwritingFifo
          WITH Offered <- 0 .. MaxSize,
               Accepted <- {n \in 2 .. MaxSize : IsPowerOf2(n)},
               capacity <- IF size_mask = 0 THEN 0 ELSE size_mask + 1,
               contents <- Contents

(***************************************************************************)
(* For every sequence of calls the ring behaves as the same overwriting    *)
(* FIFO as CircularBuffer, also while a counter wraps at the width of      *)
(* size_t in the middle of the bytes it holds, and init accepts exactly    *)
(* the powers of two from 2 on.                                            *)
(***************************************************************************)
FastImplementsFifo == Fifo!Spec
=============================================================================
