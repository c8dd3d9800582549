---------------------------- MODULE BoundedHeap -----------------------------
(***************************************************************************)
(* src/src/collections/bounded_heap.c: a binary heap of the client's       *)
(* pointers.  A push or pop is one step up to its loop and one step per    *)
(* iteration; the client's compare function, which the loops call, asks    *)
(* for a swap when the child ranks above the parent.  The client does not  *)
(* push an item that is in the heap.                                       *)
(*                                                                         *)
(* heap_storage is the part of the client's array that is in use: the      *)
(* entries from items_in_heap on are never read.                           *)
(***************************************************************************)
EXTENDS Integers, ErrorCodes

CONSTANTS
  Item,
  Rank,       \* the value the client compares the items by
  MaxCount,   \* entries of the client's storage
  Counts      \* the element_counts passed to init, at most MaxCount

VARIABLES
  heap_storage, items_in_heap, heap_max_size,   \* the BoundedHeap
  loop,       \* the loop in progress and its index
  inside,     \* the items pushed and not yet popped
  skipped,    \* a sift-down ended at a parent with only a left child that
              \* ranks above it
  out, ret

(* What the constants must satisfy; assumed where they get their values. *)
HeapConstants ==
  /\ Rank \in [Item -> Int]
  /\ MaxCount \in Nat \ {0}
  /\ Counts \subseteq 0 .. MaxCount

vars == <<heap_storage, items_in_heap, heap_max_size, loop, inside, skipped,
          out, ret>>

Index  == 0 .. MaxCount - 1
InHeap == 0 .. items_in_heap - 1
Idle   == [in |-> "idle", at |-> 0]
Empty  == [i \in {} |-> 0]

TypeOK ==
  /\ heap_storage \in [InHeap -> Item]
  /\ items_in_heap \in 0 .. heap_max_size
  /\ heap_max_size \in 0 .. MaxCount
  /\ loop \in [in : {"idle", "up", "down"}, at : Index]
  /\ inside \subseteq Item
  /\ skipped \in BOOLEAN
  /\ out \in Item
  /\ ret \in ErrorCode

Init ==
  /\ heap_storage = Empty
  /\ items_in_heap = 0
  /\ heap_max_size = 0
  /\ loop = Idle
  /\ inside = {}
  /\ skipped = FALSE
  /\ out \in Item
  /\ ret = ERR_NONE

-----------------------------------------------------------------------------
bounded_heap_get_index_of_parent(index)      == (index - 1) \div 2
bounded_heap_get_index_of_left_child(index)  == 2 * index + 1
bounded_heap_get_index_of_right_child(index) == 2 * index + 2
bounded_heap_get_size                        == items_in_heap
bounded_heap_get_remaining                   == heap_max_size - items_in_heap

(* Faulty variant: no temporary, so one value is lost. *)
SwappedWithoutTmp(a, b) == [heap_storage EXCEPT ![a] = heap_storage[b]]

(* bounded_heap_swap_values_at_index *)
Swapped(a, b) ==
  [heap_storage EXCEPT ![a] = heap_storage[b], ![b] = heap_storage[a]]

(* config.compare on the entries at two indices *)
compare(parent, child) == Rank[heap_storage[parent]] < Rank[heap_storage[child]]

Refused(code) ==
  /\ ret' = code
  /\ UNCHANGED <<heap_storage, items_in_heap, heap_max_size, loop, inside,
                 skipped, out>>

(* The loop goes on at index, or the call returns. *)
Continue(in, index) ==
  /\ loop' = [in |-> in, at |-> index]
  /\ UNCHANGED <<items_in_heap, heap_max_size, inside, skipped, out, ret>>

Return ==
  /\ loop' = Idle
  /\ ret' = ERR_NONE
  /\ UNCHANGED <<heap_storage, items_in_heap, heap_max_size, inside, out>>

-----------------------------------------------------------------------------
bounded_heap_init(element_count) ==
  /\ loop = Idle
  /\ IF element_count = 0        \* bounded_heap_validate_config
       THEN Refused(ERR_INVALID_ARG)
       ELSE /\ heap_max_size' = element_count
            /\ items_in_heap' = 0
            /\ heap_storage' = Empty
            /\ inside' = {}
            /\ skipped' = FALSE
            /\ ret' = ERR_NONE
            /\ UNCHANGED <<loop, out>>

bounded_heap_deinit ==
  /\ loop = Idle
  /\ items_in_heap' = 0
  /\ heap_max_size' = 0
  /\ heap_storage' = Empty
  /\ inside' = {}
  /\ skipped' = FALSE
  /\ UNCHANGED <<loop, out, ret>>

bounded_heap_peek ==
  /\ loop = Idle
  /\ IF bounded_heap_get_size = 0
       THEN Refused(ERR_EMPTY)
       ELSE /\ out' = heap_storage[0]
            /\ ret' = ERR_NONE
            /\ UNCHANGED <<heap_storage, items_in_heap, heap_max_size, loop,
                           inside, skipped>>

(* bounded_heap_pop up to its loop.  A heap of one item has no order left  *)
(* to have been broken.                                                    *)
bounded_heap_pop ==
  /\ loop = Idle
  /\ IF bounded_heap_get_size = 0
       THEN Refused(ERR_EMPTY)
       ELSE /\ out' = heap_storage[0]
            /\ items_in_heap' = items_in_heap - 1
            /\ heap_storage' = [i \in 0 .. items_in_heap - 2 |->
                                  Swapped(0, items_in_heap - 1)[i]]
            /\ loop' = [in |-> "down", at |-> 0]
            /\ inside' = inside \ {heap_storage[0]}
            /\ skipped' = (skipped /\ items_in_heap > 2)
            /\ UNCHANGED <<heap_max_size, ret>>

(* Faulty variant: the left child is preferred to a right one above it. *)
SiftDownLeftFirst ==
  LET parent == loop.at
      left   == bounded_heap_get_index_of_left_child(parent)
      right  == bounded_heap_get_index_of_right_child(parent)
  IN  /\ loop.in = "down"
      /\ IF left >= bounded_heap_get_size \/ right >= bounded_heap_get_size
           THEN /\ Return
                /\ skipped' = (skipped \/ (left < bounded_heap_get_size /\ compare(parent, left)))
           ELSE \/ /\ compare(parent, left)
                   /\ heap_storage' = Swapped(parent, left)
                   /\ Continue("down", left)
                \/ /\ compare(parent, right) /\ ~compare(parent, left)
                   /\ heap_storage' = Swapped(parent, right)
                   /\ Continue("down", right)
                \/ /\ ~compare(parent, left) /\ ~compare(parent, right)
                   /\ Return
                   /\ UNCHANGED skipped

(* An iteration of the loop of bounded_heap_pop.  It breaks when either    *)
(* child is missing, and only the right one may be.                        *)
SiftDown ==
  LET parent == loop.at
      left   == bounded_heap_get_index_of_left_child(parent)
      right  == bounded_heap_get_index_of_right_child(parent)
      left_child_swap  == compare(parent, left)
      right_child_swap == compare(parent, right)
      swap_with_right  == right_child_swap /\ (left_child_swap => compare(left, right))
  IN  /\ loop.in = "down"
      /\ IF left >= bounded_heap_get_size \/ right >= bounded_heap_get_size
           THEN /\ Return
                /\ skipped' = (skipped \/ (left < bounded_heap_get_size /\ left_child_swap))
           ELSE \/ /\ swap_with_right
                   /\ heap_storage' = Swapped(parent, right)
                   /\ Continue("down", right)
                \/ /\ left_child_swap /\ ~swap_with_right
                   /\ heap_storage' = Swapped(parent, left)
                   /\ Continue("down", left)
                \/ /\ ~left_child_swap /\ ~right_child_swap
                   /\ Return
                   /\ UNCHANGED skipped

(* bounded_heap_push up to its loop; the loop of a first item ends at once. *)
bounded_heap_push(heap_item) ==
  /\ loop = Idle
  /\ IF bounded_heap_get_remaining = 0
       THEN Refused(ERR_NO_MEM)
       ELSE /\ heap_storage' = [i \in 0 .. items_in_heap |->
                 IF i = items_in_heap THEN heap_item ELSE heap_storage[i]]
            /\ items_in_heap' = items_in_heap + 1
            /\ inside' = inside \cup {heap_item}
            /\ loop' = [in |-> "up", at |-> items_in_heap]
            /\ UNCHANGED <<heap_max_size, skipped, out, ret>>

(* An iteration of the loop of bounded_heap_push. *)
SiftUp ==
  LET child  == loop.at
      parent == bounded_heap_get_index_of_parent(child)
  IN  /\ loop.in = "up"
      /\ IF child # 0 /\ compare(parent, child)
           THEN /\ heap_storage' = Swapped(parent, child)
                /\ Continue("up", parent)
           ELSE /\ Return
                /\ UNCHANGED skipped

Next ==
  \/ \E n \in Counts : bounded_heap_init(n)
  \/ bounded_heap_deinit
  \/ bounded_heap_peek
  \/ bounded_heap_pop
  \/ SiftDown
  \/ \E x \in Item \ inside : bounded_heap_push(x)
  \/ SiftUp

Spec == Init /\ [][Next]_vars

-----------------------------------------------------------------------------
(***************************************************************************)
(* The heap holds exactly the items pushed and not popped, each once, at   *)
(* every step of the sift loops: no swap loses or doubles a pointer.       *)
(***************************************************************************)
HeldOnce ==
  /\ inside = {heap_storage[i] : i \in InHeap}
  /\ \A i, j \in InHeap : i # j => heap_storage[i] # heap_storage[j]

(* The entry at i ranks no higher than the one at p. *)
Below(i, p) == i \in InHeap => Rank[heap_storage[i]] <= Rank[heap_storage[p]]

(***************************************************************************)
(* Unless a sift-down has ended at a parent with only a left child, no     *)
(* entry ranks above its parent, but for the one a loop is moving: sifting *)
(* up, it may rank above its parent; sifting down, its children above it;  *)
(* in both cases its children rank no higher than its parent.              *)
(***************************************************************************)
Ordered ==
  ~skipped =>
    /\ \A i \in InHeap \ {0} :
         LET p == bounded_heap_get_index_of_parent(i)
         IN  \/ Below(i, p)
             \/ loop.in = "up" /\ loop.at = i
             \/ loop.in = "down" /\ loop.at = p
    /\ loop.in # "idle" /\ loop.at # 0 =>
         \A i \in {bounded_heap_get_index_of_left_child(loop.at),
                   bounded_heap_get_index_of_right_child(loop.at)} :
           Below(i, bounded_heap_get_index_of_parent(loop.at))

(* If this is the step of a pop, it takes an item that none ranks above. *)
PopTakesGreatest ==
  loop = Idle /\ loop'.in = "down" => \A x \in inside : Rank[x] <= Rank[out']

(***************************************************************************)
(* Pops return the items in order of rank until a sift-down skips its last *)
(* comparison.                                                             *)
(***************************************************************************)
PopsGreatestUnlessSkipped == [][~skipped => PopTakesGreatest]_vars

(***************************************************************************)
(* Pops return the items in order of rank, always.                         *)
(***************************************************************************)
PopsGreatest == [][PopTakesGreatest]_vars
=============================================================================
