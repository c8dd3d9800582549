--------------------------- MODULE CircularBuffer ---------------------------
(***************************************************************************)
(* src/src/collections/circular_buffer.c: a byte ring addressed by a read  *)
(* and a write index that both stay below buffer_max_size, with a flag     *)
(* that tells an empty ring from a full one when the indices are equal.    *)
(*                                                                         *)
(* Here each call runs to completion before the next (one thread);         *)
(* CircularBufferISR interleaves a producer and a consumer.                *)
(***************************************************************************)
EXTENDS Naturals, Sequences, ErrorCodes

CONSTANTS
  Byte,      \* the byte values pushed
  MaxSize    \* bytes in the client's array; init may use any part of it

ASSUME ByteAssumption    == Byte # {}
ASSUME MaxSizeAssumption == MaxSize \in Nat \ {0}

VARIABLES
  buffer,            \* the client's array
  buffer_max_size,   \* 0 after deinit
  read_index,
  write_index,
  buffer_is_empty,
  out,               \* the byte the client's last successful pop stored
  ret                \* the last code returned

indices == <<read_index, write_index, buffer_is_empty>>
vars    == <<buffer, buffer_max_size, read_index, write_index,
             buffer_is_empty, out, ret>>

Slot == 0 .. MaxSize - 1

TypeOK ==
  /\ buffer \in [Slot -> Byte]
  /\ buffer_max_size \in 0 .. MaxSize
  /\ read_index \in Slot
  /\ write_index \in Slot
  /\ buffer_is_empty \in BOOLEAN
  /\ out \in Byte
  /\ ret \in ErrorCode

(***************************************************************************)
(* The state circular_buffer_deinit leaves; the array holds anything.      *)
(***************************************************************************)
Init ==
  /\ \E b \in Byte : buffer = [s \in Slot |-> b] /\ out = b
  /\ buffer_max_size = 0
  /\ read_index = 0
  /\ write_index = 0
  /\ buffer_is_empty = TRUE
  /\ ret = ERR_NONE

(* Faulty variant: the index runs past the end of the ring. *)
AdvanceWithoutWrap(index) == index + 1

(* The step of an index around the ring. *)
Advance(index) == (index + 1) % buffer_max_size

circular_buffer_get_count ==
  IF write_index > read_index
    THEN write_index - read_index
    ELSE IF write_index < read_index
      THEN buffer_max_size - read_index + write_index
      ELSE IF buffer_is_empty THEN 0 ELSE buffer_max_size

(* circular_buffer_validate_config *)
ValidConfig(buffer_size) == buffer_size # 0

circular_buffer_init(buffer_size) ==
  IF ValidConfig(buffer_size)
    THEN /\ read_index' = 0
         /\ write_index' = 0
         /\ buffer_is_empty' = TRUE
         /\ buffer_max_size' = buffer_size
         /\ ret' = ERR_NONE
         /\ UNCHANGED <<buffer, out>>
    ELSE /\ ret' = ERR_INVALID_ARG
         /\ UNCHANGED <<buffer, buffer_max_size, indices, out>>

circular_buffer_deinit ==
  /\ buffer_max_size' = 0
  /\ read_index' = 0
  /\ write_index' = 0
  /\ buffer_is_empty' = TRUE
  /\ UNCHANGED <<buffer, out, ret>>

(* Faulty variant: a full ring is taken for one with room. *)
NeverOverwrites == FALSE

(* The ring is full: the push below overwrites the oldest byte. *)
Overwrites == write_index = read_index /\ ~buffer_is_empty

circular_buffer_push_byte(byte) ==
  IF buffer_max_size = 0
    THEN /\ ret' = ERR_NO_MEM
         /\ UNCHANGED <<buffer, buffer_max_size, indices, out>>
    ELSE /\ buffer' = [buffer EXCEPT ![write_index] = byte]
         /\ read_index' = IF Overwrites THEN Advance(read_index)
                                        ELSE read_index
         /\ write_index' = Advance(write_index)
         /\ buffer_is_empty' = FALSE
         /\ ret' = ERR_NONE
         /\ UNCHANGED <<buffer_max_size, out>>

(* Faulty variant: the flag is computed before the read index moves. *)
PopWithStaleFlag ==
  IF circular_buffer_get_count = 0
    THEN /\ ret' = ERR_EMPTY
         /\ UNCHANGED <<buffer, buffer_max_size, indices, out>>
    ELSE /\ out' = buffer[read_index]
         /\ read_index' = Advance(read_index)
         /\ buffer_is_empty' = (read_index = write_index)
         /\ ret' = ERR_NONE
         /\ UNCHANGED <<buffer, buffer_max_size, write_index>>

circular_buffer_pop_byte ==
  IF circular_buffer_get_count = 0
    THEN /\ ret' = ERR_EMPTY
         /\ UNCHANGED <<buffer, buffer_max_size, indices, out>>
    ELSE /\ out' = buffer[read_index]
         /\ read_index' = Advance(read_index)
         /\ buffer_is_empty' = (read_index' = write_index)
         /\ ret' = ERR_NONE
         /\ UNCHANGED <<buffer, buffer_max_size, write_index>>

Next ==
  \/ \E n \in 0 .. MaxSize : circular_buffer_init(n)
  \/ circular_buffer_deinit
  \/ \E b \in Byte : circular_buffer_push_byte(b)
  \/ circular_buffer_pop_byte

Spec == Init /\ [][Next]_vars

-----------------------------------------------------------------------------
(***************************************************************************)
(* The indices always address a slot of the ring in use, and the flag can  *)
(* only say "empty" when they are equal: what every buffer[...] access and *)
(* every get_count subtraction of the code relies on.  After deinit all    *)
(* fields are those that make every call refuse.                           *)
(***************************************************************************)
IndexInv ==
  /\ buffer_max_size # 0 => /\ read_index < buffer_max_size
                            /\ write_index < buffer_max_size
  /\ buffer_max_size = 0 => /\ read_index = 0
                            /\ write_index = 0
                            /\ buffer_is_empty
  /\ buffer_is_empty => read_index = write_index

(***************************************************************************)
(* Refinement mapping: the ring holds the get_count bytes that follow the  *)
(* read index around the array.                                            *)
(***************************************************************************)
Contents ==
  [i \in 1 .. circular_buffer_get_count |->
     buffer[(read_index + (i - 1)) % buffer_max_size]]

Fifo == INSTANCE OverwritingFifo
          WITH Offered <- 0 .. MaxSize, Accepted <- 1 .. MaxSize,
               capacity <- buffer_max_size, contents <- Contents

(***************************************************************************)
(* For every sequence of calls, init with any size and deinit included,    *)
(* the ring returns the bytes and codes of a FIFO that drops its oldest    *)
(* byte when a push finds it full: nothing is lost, repeated or reordered  *)
(* by the wrap of either index or by the full/empty ambiguity.             *)
(***************************************************************************)
ImplementsFifo == Fifo!Spec
=============================================================================
