----------------------------- MODULE CopyQueue ------------------------------
(***************************************************************************)
(* src/src/collections/copy_queue.c: a queue that copies elements of       *)
(* element_size bytes into the client's buffer.  tail_idx and head_idx are *)
(* byte offsets that only ever grow; the model's memory goes on beyond the *)
(* buffer, so that what they reach there can be seen.  memory[o] is the    *)
(* element whose first byte is at o: live elements have the same size and  *)
(* offsets that are multiples of it, so they never overlap.                *)
(***************************************************************************)
EXTENDS Naturals, Sequences, ErrorCodes

CONSTANTS
  Element,
  SizeMod,          \* number of values of size_t
  QueueSize,        \* bytes of the client's buffer
  MaxCount,         \* the largest element_count configured
  MaxElementSize,   \* the largest element_size configured
  Laps              \* between two inits the client enqueues at most Laps
                    \* times the number of elements the queue can hold

VARIABLES
  count, max_size, element_size, tail_idx, head_idx,   \* the CopyQueue
  queue_size,       \* bytes handed over by the last accepted init
  memory,           \* the client's buffer and what follows it
  out, ret

(* What the constants must satisfy; assumed where they get their values. *)
QueueConstants ==
  /\ SizeMod \in Nat \ {0}
  /\ QueueSize \in Nat \ {0}
  /\ MaxCount \in Nat \ {0}
  /\ MaxElementSize \in Nat
  /\ Laps \in Nat \ {0}

vars == <<count, max_size, element_size, tail_idx, head_idx, queue_size,
          memory, out, ret>>

Offset == 0 .. Laps * MaxCount * MaxElementSize

TypeOK ==
  /\ count \in 0 .. max_size
  /\ max_size \in 0 .. MaxCount
  /\ element_size \in 0 .. MaxElementSize
  /\ tail_idx \in Offset
  /\ head_idx \in Offset
  /\ queue_size \in 0 .. QueueSize
  /\ memory \in [Offset -> Element]
  /\ out \in Element
  /\ ret \in ErrorCode

(* The state deinit leaves; the memory holds anything. *)
Init ==
  /\ count = 0 /\ max_size = 0 /\ element_size = 0
  /\ tail_idx = 0 /\ head_idx = 0
  /\ queue_size = 0
  /\ \E e \in Element : memory = [o \in Offset |-> e] /\ out = e
  /\ ret = ERR_NONE

-----------------------------------------------------------------------------
copy_queue_get_remaining == max_size - count
copy_queue_get_size      == count

(* Faulty variant: the size of an element is left out of the product. *)
ValidConfigByCount(bytes, n, size) ==
  size # 0 /\ bytes # 0 /\ n # 0 /\ n <= bytes

(* copy_queue_validate_config; the product is a size_t. *)
ValidConfig(bytes, n, size) ==
  /\ size # 0
  /\ bytes # 0
  /\ n # 0
  /\ (n * size) % SizeMod <= bytes

Refused(code) ==
  /\ ret' = code
  /\ UNCHANGED <<count, max_size, element_size, tail_idx, head_idx, queue_size,
                 memory, out>>

(* The client's numbers do not overflow a size_t. *)
copy_queue_init(bytes, n, size) ==
  /\ n * size < SizeMod
  /\ IF ValidConfig(bytes, n, size)
       THEN /\ element_size' = size
            /\ max_size' = n
            /\ count' = 0 /\ tail_idx' = 0 /\ head_idx' = 0
            /\ queue_size' = bytes
            /\ ret' = ERR_NONE
            /\ UNCHANGED <<memory, out>>
       ELSE Refused(ERR_INVALID_ARG)

copy_queue_deinit ==
  /\ element_size' = 0
  /\ max_size' = 0
  /\ count' = 0 /\ tail_idx' = 0 /\ head_idx' = 0
  /\ queue_size' = 0
  /\ UNCHANGED <<memory, out, ret>>

copy_queue_enqueue(element) ==
  IF copy_queue_get_remaining = 0
    THEN Refused(ERR_NO_MEM)
    ELSE /\ memory' = [memory EXCEPT ![tail_idx] = element]
         /\ tail_idx' = tail_idx + element_size
         /\ count' = count + 1
         /\ ret' = ERR_NONE
         /\ UNCHANGED <<max_size, element_size, head_idx, queue_size, out>>

(* Faulty variant: the head moves by one byte. *)
DequeueByByte ==
  IF copy_queue_get_size = 0
    THEN Refused(ERR_EMPTY)
    ELSE /\ out' = memory[head_idx]
         /\ head_idx' = head_idx + 1
         /\ count' = count - 1
         /\ ret' = ERR_NONE
         /\ UNCHANGED <<max_size, element_size, tail_idx, queue_size, memory>>

copy_queue_dequeue ==
  IF copy_queue_get_size = 0
    THEN Refused(ERR_EMPTY)
    ELSE /\ out' = memory[head_idx]
         /\ head_idx' = head_idx + element_size
         /\ count' = count - 1
         /\ ret' = ERR_NONE
         /\ UNCHANGED <<max_size, element_size, tail_idx, queue_size, memory>>

copy_queue_peek ==
  IF copy_queue_get_size = 0
    THEN Refused(ERR_EMPTY)
    ELSE /\ out' = memory[head_idx]
         /\ ret' = ERR_NONE
         /\ UNCHANGED <<count, max_size, element_size, tail_idx, head_idx,
                        queue_size, memory>>

(* The bound of the model on what the client enqueues. *)
WithinLaps ==
  copy_queue_get_remaining # 0 => tail_idx < Laps * max_size * element_size

Next ==
  \/ \E bytes \in {0, QueueSize - 1, QueueSize},
        n \in 0 .. MaxCount, size \in 0 .. MaxElementSize :
       copy_queue_init(bytes, n, size)
  \/ copy_queue_deinit
  \/ WithinLaps /\ \E e \in Element : copy_queue_enqueue(e)
  \/ copy_queue_dequeue
  \/ copy_queue_peek

Spec == Init /\ [][Next]_vars

-----------------------------------------------------------------------------
(***************************************************************************)
(* The bytes the queue copies to and from are those it was given: tail_idx *)
(* never passes the end of the buffer, and the head is count elements      *)
(* behind it.                                                              *)
(***************************************************************************)
StaysInBuffer ==
  /\ tail_idx <= queue_size
  /\ head_idx + count * element_size = tail_idx

(* The count elements from the head on. *)
Contents == [i \in 1 .. count |-> memory[head_idx + (i - 1) * element_size]]

Fifo == INSTANCE BoundedFifo
          WITH Byte <- Element, Offered <- 0 .. MaxCount,
               Accepted <- 1 .. MaxCount,
               capacity <- max_size, contents <- Contents

(***************************************************************************)
(* Elements come out in the order they went in, each once, peek takes none *)
(* out, and only a full queue refuses one.                                 *)
(***************************************************************************)
QueueImplementsFifo == Fifo!BoundedSpec
=============================================================================
