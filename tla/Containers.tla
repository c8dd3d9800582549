----------------------------- MODULE Containers -----------------------------
(***************************************************************************)
(* The library's containers side by side, for model checking: the ring     *)
(* (CircularBuffer, extended here), the fast ring, the copy queue, the     *)
(* heap and the pool.  They share no state, so a behaviour drives one of   *)
(* them, chosen at the start, through any sequence of calls; the others    *)
(* stay as they were initialised.                                          *)
(***************************************************************************)
EXTENDS CircularBuffer, FiniteSets

CONSTANTS
  Driven,                        \* the containers to choose from
  SizeMod,                       \* number of values of size_t
  FastMaxSize,                   \* fast ring: bytes of its array
  Element, QueueSize, MaxCount, MaxElementSize, Laps,       \* see CopyQueue
  Item, HeapRank, HeapSize, Counts,                         \* see BoundedHeap
  BufferSize, MaxObjects, MaxObjectSize, Handle, NULL, Foreign
                                 \* see StaticPool

VARIABLES
  driven,                        \* the container of this behaviour
  fast_buffer, size_mask, fast_read_index, fast_write_index, fast_out, fast_ret,
  count, max_size, element_size, tail_idx, head_idx, queue_size, memory,
  queue_out, queue_ret,
  heap_storage, items_in_heap, heap_max_size, loop, inside, skipped,
  heap_out, heap_ret,
  client, object_count, object_size, free_stack, handle, pool_ret

Fast == INSTANCE FastCircularBuffer
          WITH MaxSize <- FastMaxSize, buffer <- fast_buffer,
               read_index <- fast_read_index, write_index <- fast_write_index,
               out <- fast_out, ret <- fast_ret

Queue == INSTANCE CopyQueue
           WITH out <- queue_out, ret <- queue_ret

Heap == INSTANCE BoundedHeap
          WITH Rank <- HeapRank, MaxCount <- HeapSize,
               out <- heap_out, ret <- heap_ret

Pool == INSTANCE StaticPool WITH ret <- pool_ret

ASSUME ContainersAssumption ==
  /\ Driven \subseteq {"ring", "fast", "queue", "heap", "pool"}
  /\ Fast!FastConstants
  /\ \A n \in 0 .. 64 : Fast!IsPowerOf2(n) <=> \E k \in 0 .. 6 : n = 2^k
  /\ Heap!HeapConstants
  /\ Queue!QueueConstants
  /\ Pool!PoolConstants

fast  == <<fast_buffer, size_mask, fast_read_index, fast_write_index, fast_out,
           fast_ret>>
queue == <<count, max_size, element_size, tail_idx, head_idx, queue_size,
           memory, queue_out, queue_ret>>
heap  == <<heap_storage, items_in_heap, heap_max_size, loop, inside, skipped,
           heap_out, heap_ret>>
pool  == <<client, object_count, object_size, free_stack, handle, pool_ret>>
all   == <<driven, vars, fast, queue, heap, pool>>

(* What a container that is not driven starts with makes no difference. *)
AnyOf(S) == CHOOSE x \in S : TRUE

ContainersInit ==
  /\ driven \in Driven
  /\ Init
  /\ Fast!Init
  /\ Queue!Init
  /\ Heap!Init
  /\ Pool!Init
  /\ driven # "ring"  => out = AnyOf(Byte)
  /\ driven # "fast"  => fast_out = AnyOf(Byte)
  /\ driven # "queue" => queue_out = AnyOf(Element)
  /\ driven # "heap"  => heap_out = AnyOf(Item)
  /\ driven # "pool"  => client = "careful"

ContainersNext ==
  /\ \/ /\ driven = "ring" /\ Next
        /\ UNCHANGED <<fast, queue, heap, pool>>
     \/ /\ driven = "fast" /\ Fast!Next
        /\ UNCHANGED <<vars, queue, heap, pool>>
     \/ /\ driven = "queue" /\ Queue!Next
        /\ UNCHANGED <<vars, fast, heap, pool>>
     \/ /\ driven = "heap" /\ Heap!Next
        /\ UNCHANGED <<vars, fast, queue, pool>>
     \/ /\ driven = "pool" /\ Pool!Next
        /\ UNCHANGED <<vars, fast, queue, heap>>
  /\ UNCHANGED driven

ContainersSpec == ContainersInit /\ [][ContainersNext]_all

-----------------------------------------------------------------------------
(***************************************************************************)
(* The fields of the other containers keep their types, in particular the  *)
(* indices of the fast ring and the heap stay in their ranges.             *)
(***************************************************************************)
OthersTypeOK ==
  /\ driven \in Driven
  /\ Fast!TypeOK
  /\ Queue!TypeOK
  /\ Heap!TypeOK
  /\ Pool!TypeOK

(***************************************************************************)
(* The fast ring's counters differ by at most the ring size, whatever they *)
(* have wrapped to.                                                        *)
(***************************************************************************)
CountInv == Fast!CountInv

(***************************************************************************)
(* The fast ring is the same overwriting FIFO as the ring, also while its  *)
(* counters wrap at the width of size_t.                                   *)
(***************************************************************************)
FastImplementsFifo == Fast!FastImplementsFifo

(***************************************************************************)
(* The copy queue touches only the bytes it was given.                     *)
(***************************************************************************)
StaysInBuffer == Queue!StaysInBuffer

(***************************************************************************)
(* The copy queue is a bounded FIFO.                                       *)
(***************************************************************************)
QueueImplementsFifo == Queue!QueueImplementsFifo

(***************************************************************************)
(* The heap holds exactly the items pushed and not popped, each once.      *)
(***************************************************************************)
HeldOnce == Heap!HeldOnce

(***************************************************************************)
(* The heap is in order, but for the entry a loop is moving, until a       *)
(* sift-down skips its last comparison.                                    *)
(***************************************************************************)
Ordered == Heap!Ordered

(***************************************************************************)
(* Pops return the items in order of rank until a sift-down skips its last *)
(* comparison.                                                             *)
(***************************************************************************)
PopsGreatestUnlessSkipped == Heap!PopsGreatestUnlessSkipped

(***************************************************************************)
(* Pops return the items in order of rank, always.                         *)
(***************************************************************************)
PopsGreatest == Heap!PopsGreatest

(***************************************************************************)
(* An object of the pool has one owner and lies inside the buffer.         *)
(***************************************************************************)
OneOwner == Pool!OneOwner

(***************************************************************************)
(* The pool's available count is what a careful client does not hold.      *)
(***************************************************************************)
AvailableIsHonest == Pool!AvailableIsHonest

(***************************************************************************)
(* No sequence of frees makes the pool's stack outgrow its array.          *)
(***************************************************************************)
StackInBounds == Pool!StackInBounds
=============================================================================
