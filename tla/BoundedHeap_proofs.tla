------------------------- MODULE BoundedHeap_proofs -------------------------
(***************************************************************************)
(* BoundedHeap for every set of items, every ranking, every capacity and   *)
(* every sequence of calls, at each iteration of the sift loops.           *)
(***************************************************************************)
EXTENDS BoundedHeap, WellFoundedInduction, TLAPS

(* A non-empty set of naturals has a least element. *)
LEMMA LeastNat ==
  ASSUME NEW T, T \subseteq Nat, T # {}
  PROVE  \E x \in T : \A y \in T : x <= y
<1> DEFINE R == OpToRel(<, Nat)
<1>1. IsWellFoundedOn(R, Nat)
  BY NatLessThanWellFounded
<1>2. \A x, y \in Nat : <<y, x>> \in R <=> y < x
  BY DEF OpToRel
<1> HIDE DEF R
<1>3. \E x \in T : \A y \in T : ~ (<<y, x>> \in R)
  BY <1>1, WFMin
<1>4. PICK x \in T : \A y \in T : ~ (<<y, x>> \in R)
  BY <1>3
<1>5. ASSUME NEW y \in T PROVE x <= y
  <2>1. ~(<<y, x>> \in R) /\ x \in Nat /\ y \in Nat
    BY <1>4, Zenon
  <2>2. ~(y < x)
    BY <1>2, <2>1, Zenon
  <2> QED
    BY <2>1, <2>2
<1> QED
  BY <1>5, Zenon

-----------------------------------------------------------------------------
Parent(i) == bounded_heap_get_index_of_parent(i)
Left(i)   == bounded_heap_get_index_of_left_child(i)
Right(i)  == bounded_heap_get_index_of_right_child(i)

(* The index arithmetic: the children of p are the indices with parent p. *)
LEMMA TreeShape ==
  /\ \A i \in Nat \ {0} : /\ Parent(i) \in Nat /\ Parent(i) < i
                          /\ i = Left(Parent(i)) \/ i = Right(Parent(i))
  /\ \A p \in Nat : /\ Left(p) \in Nat \ {0} /\ Right(p) \in Nat \ {0}
                    /\ Left(p) > p /\ Right(p) = Left(p) + 1
                    /\ Parent(Left(p)) = p /\ Parent(Right(p)) = p
<1> USE DEF Parent, Left, Right, bounded_heap_get_index_of_parent,
            bounded_heap_get_index_of_left_child,
            bounded_heap_get_index_of_right_child
<1>1. ASSUME NEW i \in Nat \ {0}
      PROVE  /\ Parent(i) \in Nat /\ Parent(i) < i
             /\ i = Left(Parent(i)) \/ i = Right(Parent(i))
  OBVIOUS
<1>2. ASSUME NEW p \in Nat
      PROVE  /\ Left(p) \in Nat \ {0} /\ Right(p) \in Nat \ {0}
             /\ Left(p) > p /\ Right(p) = Left(p) + 1
             /\ Parent(Left(p)) = p /\ Parent(Right(p)) = p
  OBVIOUS
<1> QED
  BY <1>1, <1>2

(* The ranks of the entries. *)
R == [i \in InHeap |-> Rank[heap_storage[i]]]

(* A loop is at an entry of the heap; the one that a pop starts on a heap  *)
(* it has emptied is at 0.                                                 *)
LoopInv ==
  /\ loop.in = "up" => loop.at \in InHeap
  /\ loop.in = "down" => loop.at \in InHeap \/ loop.at = 0

IInv == TypeOK /\ LoopInv /\ HeldOnce /\ Ordered

USE DEF ERR_NONE, ERR_NO_MEM, ERR_INVALID_ARG, ERR_EMPTY

(* The storage of a heap without items. *)
LEMMA EmptyStorage == \A S : S = {} => Empty \in [S -> Item]
  BY DEF Empty

(* The deinitialised heap satisfies it. *)
LEMMA InitIInv ==
  ASSUME HeapConstants
  PROVE  Init => IInv
<1> SUFFICES ASSUME Init PROVE IInv
  OBVIOUS
<1>1. InHeap = {} /\ loop.in = "idle" /\ loop.at = 0
  BY DEF Init, InHeap, Idle
<1>2. TypeOK
  <2>1. heap_storage \in [InHeap -> Item]
    BY <1>1, EmptyStorage DEF Init
  <2>2. loop \in [in : {"idle", "up", "down"}, at : Index]
    BY DEF HeapConstants, Init, Index, Idle
  <2>3. skipped \in BOOLEAN
    BY Zenon DEF Init
  <2> QED
    BY <2>1, <2>2, <2>3 DEF HeapConstants, Init, TypeOK, ErrorCode
<1>3. LoopInv /\ HeldOnce /\ Ordered
  BY <1>1 DEF Init, LoopInv, HeldOnce, Ordered
<1> QED
  BY <1>2, <1>3 DEF IInv

(* Two entries change places and the others stay. *)
LEMMA SwapFacts ==
  ASSUME TypeOK, HeldOnce, NEW a \in InHeap, NEW b \in InHeap,
         heap_storage' = Swapped(a, b), items_in_heap' = items_in_heap,
         inside' = inside
  PROVE  /\ heap_storage' \in [InHeap' -> Item]
         /\ InHeap' = InHeap
         /\ HeldOnce'
         /\ heap_storage'[a] = heap_storage[b] /\ heap_storage'[b] = heap_storage[a]
         /\ \A i \in InHeap \ {a, b} : heap_storage'[i] = heap_storage[i]
<1>1. InHeap' = InHeap
  BY DEF InHeap
<1>2. /\ heap_storage' \in [InHeap -> Item]
      /\ heap_storage'[a] = heap_storage[b] /\ heap_storage'[b] = heap_storage[a]
      /\ \A i \in InHeap \ {a, b} : heap_storage'[i] = heap_storage[i]
  BY DEF TypeOK, Swapped
<1>3. HeldOnce'
  <2>1. inside' = {heap_storage'[i] : i \in InHeap}
    <3>1. ASSUME NEW x \in inside PROVE \E i \in InHeap : heap_storage'[i] = x
      <4>1. PICK j \in InHeap : heap_storage[j] = x
        BY <3>1 DEF HeldOnce
      <4> QED
        BY <1>2, <4>1
    <3>2. ASSUME NEW i \in InHeap PROVE heap_storage'[i] \in inside
      BY <1>2 DEF HeldOnce
    <3> QED
      BY <3>1, <3>2
  <2>2. \A i, j \in InHeap : i # j => heap_storage'[i] # heap_storage'[j]
    BY <1>2 DEF HeldOnce
  <2> QED
    BY <1>1, <2>1, <2>2 DEF HeldOnce
<1> QED
  BY <1>1, <1>2, <1>3

-----------------------------------------------------------------------------
(* The two parts of Ordered over the parents of entries. *)
Exempt(i) ==
  \/ loop.in = "up" /\ loop.at = i
  \/ loop.in = "down" /\ loop.at = Parent(i)

InOrder ==
  /\ \A i \in InHeap \ {0} : ~Exempt(i) => R[i] <= R[Parent(i)]
  /\ loop.in # "idle" /\ loop.at # 0 =>
       \A i \in InHeap \ {0} : Parent(i) = loop.at => R[i] <= R[Parent(loop.at)]

(* The indices are naturals. *)
LEMMA HeapInNat ==
  ASSUME HeapConstants, TypeOK
  PROVE  items_in_heap \in Nat /\ InHeap \subseteq Nat /\ loop.at \in Nat
  BY DEF HeapConstants, TypeOK, InHeap, Index

(* They say what Ordered says. *)
LEMMA OrderedIsInOrder ==
  ASSUME HeapConstants
  PROVE  TypeOK => (Ordered <=> (~skipped => InOrder))
<1> SUFFICES ASSUME TypeOK PROVE Ordered <=> (~skipped => InOrder)
  OBVIOUS
<1>1. /\ InHeap \subseteq Nat /\ loop.at \in Nat
      /\ \A i \in InHeap \ {0} : Parent(i) \in InHeap
  BY HeapInNat, TreeShape DEF InHeap
<1>2. ASSUME NEW i \in InHeap \ {0}
      PROVE  (LET p == bounded_heap_get_index_of_parent(i)
              IN  \/ Below(i, p)
                  \/ loop.in = "up" /\ loop.at = i
                  \/ loop.in = "down" /\ loop.at = p)
             <=> (~Exempt(i) => R[i] <= R[Parent(i)])
  BY <1>1 DEF Below, Exempt, R, Parent
<1>3. loop.at # 0 =>
        ((\A i \in {bounded_heap_get_index_of_left_child(loop.at),
                    bounded_heap_get_index_of_right_child(loop.at)} :
            Below(i, bounded_heap_get_index_of_parent(loop.at)))
         <=> (\A i \in InHeap \ {0} : Parent(i) = loop.at => R[i] <= R[Parent(loop.at)]))
  <2>1. \A i \in InHeap \ {0} :
          Parent(i) = loop.at <=> i \in {Left(loop.at), Right(loop.at)}
    BY <1>1, TreeShape
  <2>2. Left(loop.at) # 0 /\ Right(loop.at) # 0
    BY <1>1, TreeShape
  <2>3. \A i \in InHeap \ {0} : Parent(i) = loop.at =>
          loop.at \in InHeap /\ (loop.at # 0 => Parent(loop.at) \in InHeap)
    BY <1>1
  <2> QED
    BY <2>1, <2>2, <2>3 DEF Below, R, Parent, Left, Right
<1> QED
  BY <1>2, <1>3 DEF Ordered, InOrder

(* Ranks are comparable. *)
LEMMA RankFacts ==
  ASSUME HeapConstants, TypeOK
  PROVE  \A i \in InHeap : R[i] \in Int
  BY DEF HeapConstants, TypeOK, R

(* Every step keeps the types, the loop inside the heap and the items. *)
LEMMA NextKeepsItems ==
  ASSUME HeapConstants, TypeOK, LoopInv, HeldOnce, Next
  PROVE  TypeOK' /\ LoopInv' /\ HeldOnce'
<1>0. /\ items_in_heap \in Nat /\ heap_max_size \in Nat
      /\ items_in_heap <= heap_max_size /\ heap_max_size <= MaxCount
      /\ MaxCount \in Nat \ {0} /\ InHeap \subseteq Index
      /\ loop.at \in Nat
  BY DEF HeapConstants, TypeOK, InHeap, Index
<1>1. ASSUME NEW n \in Counts, bounded_heap_init(n)
      PROVE  TypeOK' /\ LoopInv' /\ HeldOnce'
  <2>1. CASE n = 0
    BY <1>1, <2>1 DEF bounded_heap_init, Refused, TypeOK, LoopInv, HeldOnce,
                      InHeap, ErrorCode
  <2>2. CASE n # 0
    <3>1. InHeap' = {} /\ n \in 0 .. MaxCount
      BY <1>1, <2>2 DEF bounded_heap_init, InHeap, HeapConstants
    <3>2. TypeOK'
      <4>1. (heap_storage \in [InHeap -> Item])'
        BY <1>1, <2>2, <3>1, EmptyStorage DEF bounded_heap_init
      <4>2. skipped' \in BOOLEAN
        BY <1>1, <2>2, Zenon DEF bounded_heap_init
      <4> QED
        BY <1>1, <2>2, <3>1, <4>1, <4>2 DEF bounded_heap_init, TypeOK, Index, ErrorCode
    <3>3. LoopInv' /\ HeldOnce'
      BY <1>1, <2>2, <3>1 DEF bounded_heap_init, LoopInv, HeldOnce, Idle
    <3> QED
      BY <3>2, <3>3
  <2> QED
    BY <2>1, <2>2
<1>2. CASE bounded_heap_deinit
  <2>1. InHeap' = {}
    BY <1>2 DEF bounded_heap_deinit, InHeap
  <2>2. TypeOK'
    <3>1. (heap_storage \in [InHeap -> Item])'
      BY <1>2, <2>1, EmptyStorage DEF bounded_heap_deinit
    <3>2. skipped' \in BOOLEAN
      BY <1>2, Zenon DEF bounded_heap_deinit
    <3> QED
      BY <1>0, <1>2, <3>1, <3>2 DEF bounded_heap_deinit, TypeOK, Index
  <2>3. LoopInv' /\ HeldOnce'
    BY <1>2, <2>1 DEF bounded_heap_deinit, LoopInv, HeldOnce, Idle
  <2> QED
    BY <2>2, <2>3
<1>3. CASE bounded_heap_peek
  <2>1. InHeap' = InHeap
    BY <1>3 DEF bounded_heap_peek, Refused, InHeap
  <2>2. items_in_heap # 0 => 0 \in InHeap
    BY <1>0 DEF InHeap
  <2> QED
    BY <1>3, <2>1, <2>2 DEF bounded_heap_peek, Refused, bounded_heap_get_size,
                            TypeOK, LoopInv, HeldOnce, ErrorCode
<1>4. CASE bounded_heap_pop
  <2>1. CASE items_in_heap = 0
    BY <1>4, <2>1 DEF bounded_heap_pop, Refused, bounded_heap_get_size,
                      TypeOK, LoopInv, HeldOnce, InHeap, ErrorCode
  <2>2. CASE items_in_heap # 0
    <3> DEFINE last == items_in_heap - 1
    <3>1. /\ items_in_heap' = last /\ out' = heap_storage[0]
          /\ heap_storage' = [i \in 0 .. items_in_heap - 2 |-> Swapped(0, last)[i]]
          /\ loop' = [in |-> "down", at |-> 0]
          /\ inside' = inside \ {heap_storage[0]}
          /\ heap_max_size' = heap_max_size /\ ret' = ret
      BY <1>4, <2>2 DEF bounded_heap_pop, bounded_heap_get_size
    <3>2. skipped' \in BOOLEAN
      BY <1>4, <2>2, Zenon DEF bounded_heap_pop, bounded_heap_get_size
    <3>3. /\ InHeap' = 0 .. items_in_heap - 2 /\ InHeap' = InHeap \ {last}
          /\ last \in InHeap /\ 0 \in InHeap
      BY <1>0, <2>2, <3>1 DEF InHeap
    <3>4. \A i \in InHeap' :
            heap_storage'[i] = heap_storage[IF i = 0 THEN last ELSE i]
      BY <3>1, <3>3 DEF Swapped, TypeOK
    <3>5. TypeOK'
      <4>1. heap_storage' \in [InHeap' -> Item]
        BY <3>1, <3>3, <3>4 DEF TypeOK
      <4> QED
        BY <1>0, <2>2, <3>1, <3>2, <3>3, <4>1 DEF TypeOK, Index
    <3>6. LoopInv'
      BY <3>1 DEF LoopInv
    <3>7. HeldOnce'
      <4>1. inside' = {heap_storage'[i] : i \in InHeap'}
        <5>1. ASSUME NEW x \in inside' PROVE \E i \in InHeap' : heap_storage'[i] = x
          <6>1. PICK j \in InHeap : heap_storage[j] = x /\ j # 0
            BY <3>1, <5>1 DEF HeldOnce
          <6>2. CASE j = last
            BY <3>3, <3>4, <6>1, <6>2
          <6>3. CASE j # last
            BY <3>3, <3>4, <6>1, <6>3
          <6> QED
            BY <6>2, <6>3
        <5>2. ASSUME NEW i \in InHeap' PROVE heap_storage'[i] \in inside'
          <6>1. (IF i = 0 THEN last ELSE i) \in InHeap \ {0}
            BY <1>0, <3>3 DEF InHeap
          <6> QED
            BY <3>1, <3>3, <3>4, <6>1 DEF HeldOnce
        <5> QED
          BY <5>1, <5>2
      <4>2. \A i, j \in InHeap' : i # j => heap_storage'[i] # heap_storage'[j]
        BY <3>3, <3>4 DEF HeldOnce
      <4> QED
        BY <4>1, <4>2 DEF HeldOnce
    <3> QED
      BY <3>5, <3>6, <3>7
  <2> QED
    BY <2>1, <2>2
<1>5. CASE SiftDown
  <2> DEFINE parent == loop.at
             left   == bounded_heap_get_index_of_left_child(parent)
             right  == bounded_heap_get_index_of_right_child(parent)
  <2>1. CASE left >= items_in_heap \/ right >= items_in_heap
    <3>1. Return /\ skipped' \in BOOLEAN
      BY <1>5, <2>1, Zenon DEF SiftDown, bounded_heap_get_size
    <3> QED
      BY <1>0, <3>1 DEF Return, TypeOK, LoopInv, HeldOnce, InHeap, Idle, Index,
                        ErrorCode
  <2>2. CASE ~(left >= items_in_heap \/ right >= items_in_heap)
    <3>1. left \in InHeap /\ right \in InHeap /\ parent \in InHeap
      BY <1>0, <2>2, TreeShape DEF InHeap, Left, Right
    <3>2. \/ \E c \in {left, right} :
               heap_storage' = Swapped(parent, c) /\ Continue("down", c)
          \/ Return /\ UNCHANGED skipped
      BY <1>5, <2>2 DEF SiftDown, bounded_heap_get_size
    <3>3. ASSUME NEW c \in {left, right},
                 heap_storage' = Swapped(parent, c), Continue("down", c)
          PROVE  TypeOK' /\ LoopInv' /\ HeldOnce'
      <4>1. HeldOnce' /\ InHeap' = InHeap /\ heap_storage' \in [InHeap' -> Item]
        BY <3>1, <3>3, SwapFacts DEF Continue
      <4> QED
        BY <1>0, <3>1, <3>3, <4>1 DEF Continue, TypeOK, LoopInv
    <3>4. ASSUME Return, UNCHANGED skipped PROVE TypeOK' /\ LoopInv' /\ HeldOnce'
      BY <1>0, <3>4 DEF Return, TypeOK, LoopInv, HeldOnce, InHeap, Idle, Index,
                        ErrorCode
    <3> QED
      BY <3>2, <3>3, <3>4
  <2> QED
    BY <2>1, <2>2
<1>6. ASSUME NEW x \in Item \ inside, bounded_heap_push(x)
      PROVE  TypeOK' /\ LoopInv' /\ HeldOnce'
  <2>1. CASE bounded_heap_get_remaining = 0
    BY <1>6, <2>1 DEF bounded_heap_push, Refused, TypeOK, LoopInv, HeldOnce,
                      InHeap, ErrorCode
  <2>2. CASE bounded_heap_get_remaining # 0
    <3>1. /\ items_in_heap' = items_in_heap + 1
          /\ heap_storage' = [i \in 0 .. items_in_heap |->
                                IF i = items_in_heap THEN x ELSE heap_storage[i]]
          /\ loop' = [in |-> "up", at |-> items_in_heap]
          /\ inside' = inside \cup {x}
          /\ UNCHANGED <<heap_max_size, skipped, out, ret>>
      BY <1>6, <2>2 DEF bounded_heap_push
    <3>2. items_in_heap < heap_max_size
      BY <1>0, <2>2 DEF bounded_heap_get_remaining
    <3>3. /\ InHeap' = 0 .. items_in_heap
          /\ InHeap' = InHeap \cup {items_in_heap}
          /\ items_in_heap \notin InHeap
      BY <1>0, <3>1 DEF InHeap
    <3>4. /\ heap_storage'[items_in_heap] = x
          /\ \A i \in InHeap : heap_storage'[i] = heap_storage[i]
      BY <3>1, <3>3
    <3>5. TypeOK'
      <4>1. heap_storage' \in [InHeap' -> Item]
        BY <3>1, <3>3, <3>4 DEF TypeOK
      <4> QED
        BY <1>0, <3>1, <3>2, <3>3, <4>1 DEF TypeOK, Index
    <3>6. LoopInv'
      BY <3>1, <3>3 DEF LoopInv
    <3>7. HeldOnce'
      BY <3>1, <3>3, <3>4 DEF HeldOnce
    <3> QED
      BY <3>5, <3>6, <3>7
  <2> QED
    BY <2>1, <2>2
<1>7. CASE SiftUp
  <2> DEFINE child  == loop.at
             parent == bounded_heap_get_index_of_parent(child)
  <2>1. CASE child # 0 /\ compare(parent, child)
    <3>1. parent \in InHeap /\ child \in InHeap
      BY <1>0, <1>7, <2>1, TreeShape DEF SiftUp, LoopInv, InHeap, Parent
    <3>2. heap_storage' = Swapped(parent, child) /\ Continue("up", parent)
      BY <1>7, <2>1 DEF SiftUp
    <3>3. HeldOnce' /\ InHeap' = InHeap /\ heap_storage' \in [InHeap' -> Item]
      BY <3>1, <3>2, SwapFacts DEF Continue
    <3> QED
      BY <1>0, <3>1, <3>2, <3>3 DEF Continue, TypeOK, LoopInv
  <2>2. CASE ~(child # 0 /\ compare(parent, child))
    <3>1. Return /\ UNCHANGED skipped
      BY <1>7, <2>2 DEF SiftUp
    <3> QED
      BY <1>0, <3>1 DEF Return, TypeOK, LoopInv, HeldOnce, InHeap, Idle, Index,
                        ErrorCode
  <2> QED
    BY <2>1, <2>2
<1> QED
  BY <1>1, <1>2, <1>3, <1>4, <1>5, <1>6, <1>7 DEF Next

-----------------------------------------------------------------------------
(* What a swap of two entries does to the ranks. *)
LEMMA SwapRanks ==
  ASSUME HeapConstants, TypeOK, HeldOnce, NEW a \in InHeap, NEW b \in InHeap,
         heap_storage' = Swapped(a, b), items_in_heap' = items_in_heap,
         inside' = inside
  PROVE  /\ InHeap' = InHeap
         /\ R'[a] = R[b] /\ R'[b] = R[a]
         /\ \A i \in InHeap \ {a, b} : R'[i] = R[i]
         /\ \A i \in InHeap : R[i] \in Int /\ R'[i] \in Int
<1>1. /\ heap_storage' \in [InHeap -> Item] /\ InHeap' = InHeap
      /\ heap_storage'[a] = heap_storage[b] /\ heap_storage'[b] = heap_storage[a]
      /\ \A i \in InHeap \ {a, b} : heap_storage'[i] = heap_storage[i]
  BY SwapFacts
<1> QED
  BY <1>1 DEF HeapConstants, TypeOK, R

(* An iteration of the push loop: the entry moves above its parent. *)
LEMMA SiftUpInOrder ==
  ASSUME HeapConstants, TypeOK, LoopInv, HeldOnce, InOrder, SiftUp
  PROVE  InOrder'
<1> DEFINE c == loop.at
           p == Parent(c)
<1>0. /\ loop.in = "up" /\ c \in InHeap /\ InHeap \subseteq Nat
      /\ \A i \in InHeap \ {0} : Parent(i) \in InHeap /\ Parent(i) < i
      /\ \A i \in InHeap : R[i] \in Int
  BY TreeShape, RankFacts, HeapInNat DEF SiftUp, LoopInv, InHeap
<1>a. \A i \in InHeap \ {0} : i # c => R[i] <= R[Parent(i)]
  BY <1>0 DEF InOrder, Exempt
<1>1. CASE c # 0 /\ compare(p, c)
  <2>1. heap_storage' = Swapped(p, c) /\ Continue("up", p)
    BY <1>1 DEF SiftUp, Parent
  <2>2. p \in InHeap /\ p < c /\ R[p] < R[c]
    BY <1>0, <1>1 DEF compare, R
  <2>3. /\ InHeap' = InHeap
        /\ R'[p] = R[c] /\ R'[c] = R[p]
        /\ \A i \in InHeap \ {p, c} : R'[i] = R[i]
    BY <1>0, <2>1, <2>2, SwapRanks DEF Continue
  <2>4. loop'.in = "up" /\ loop'.at = p
    BY <2>1 DEF Continue
  <2>b. \A i \in InHeap \ {0} : Parent(i) = c => R[i] <= R[p]
    BY <1>0, <1>1 DEF InOrder
  <2>c. p = Parent(c)
    OBVIOUS
  <2> HIDE DEF c, p
  <2>5. ASSUME NEW i \in InHeap \ {0}, i # p PROVE R'[i] <= R'[Parent(i)]
    <3>1. CASE i = c
      BY <1>0, <2>2, <2>3, <2>c, <3>1
    <3>2. CASE i # c /\ Parent(i) = p
      BY <1>0, <1>a, <2>2, <2>3, <2>5, <3>2
    <3>3. CASE i # c /\ Parent(i) = c
      BY <1>0, <2>b, <2>2, <2>3, <2>5, <3>3
    <3>4. CASE i # c /\ Parent(i) # p /\ Parent(i) # c
      BY <1>0, <1>a, <2>3, <2>5, <3>4
    <3> QED
      BY <3>1, <3>2, <3>3, <3>4
  <2>6. ASSUME p # 0, NEW i \in InHeap \ {0}, Parent(i) = p
        PROVE  R'[i] <= R'[Parent(p)]
    <3>1. Parent(p) \in InHeap \ {p, c} /\ R[p] <= R[Parent(p)]
      BY <1>0, <1>a, <2>2, <2>6
    <3>2. R'[i] <= R[p]
      BY <1>0, <1>a, <2>2, <2>3, <2>6
    <3>3. R'[i] \in Int
      <4>1. CASE i = c
        BY <1>0, <2>2, <2>3, <4>1
      <4>2. CASE i # c
        BY <1>0, <2>2, <2>3, <2>6, <4>2
      <4> QED
        BY <4>1, <4>2
    <3>4. R'[Parent(p)] = R[Parent(p)] /\ R[p] \in Int /\ R[Parent(p)] \in Int
      BY <1>0, <2>2, <2>3, <3>1
    <3> QED
      BY <3>1, <3>2, <3>3, <3>4
  <2> QED
    BY <2>3, <2>4, <2>5, <2>6 DEF InOrder, Exempt
<1>2. CASE ~(c # 0 /\ compare(p, c))
  <2>0. Return
    BY <1>2 DEF SiftUp, Parent
  <2>1. InHeap' = InHeap /\ loop'.in = "idle" /\ R' = R
    BY <2>0 DEF Return, Idle, InHeap, R
  <2>2. ASSUME c # 0 PROVE R[c] <= R[p]
    <3>1. p \in InHeap /\ c \in InHeap
      BY <1>0, <2>2
    <3>2. ~(R[p] < R[c])
      BY <1>2, <2>2, <3>1 DEF compare, R
    <3>3. R[p] \in Int /\ R[c] \in Int
      BY <1>0, <3>1
    <3> QED
      BY <3>2, <3>3
  <2>3. \A i \in InHeap \ {0} : R[i] <= R[Parent(i)]
    BY <1>a, <2>2
  <2> QED
    BY <2>1, <2>3 DEF InOrder, Exempt
<1> QED
  BY <1>1, <1>2

(* An iteration of the pop loop that swaps the parent with the child s,    *)
(* which ranks no lower than its other child.                              *)
LEMMA SwapDownInOrder ==
  ASSUME HeapConstants, TypeOK, HeldOnce, InOrder, loop.in = "down",
         NEW s \in InHeap \ {0}, Parent(s) = loop.at, R[loop.at] < R[s],
         \A i \in InHeap \ {0} : Parent(i) = loop.at => R[i] <= R[s],
         heap_storage' = Swapped(loop.at, s), Continue("down", s)
  PROVE  InOrder'
<1> DEFINE a == loop.at
<1>0. /\ InHeap \subseteq Nat
      /\ \A i \in InHeap \ {0} : Parent(i) \in InHeap /\ Parent(i) < i
      /\ \A i \in InHeap : R[i] \in Int
      /\ a \in InHeap /\ a < s
  BY TreeShape, RankFacts, HeapInNat DEF InHeap
<1>1. /\ InHeap' = InHeap
      /\ R'[a] = R[s] /\ R'[s] = R[a]
      /\ \A i \in InHeap \ {a, s} : R'[i] = R[i]
  BY <1>0, SwapRanks DEF Continue
<1>2. loop'.in = "down" /\ loop'.at = s
  BY DEF Continue
<1>a. \A i \in InHeap \ {0} : Parent(i) # a => R[i] <= R[Parent(i)]
  BY DEF InOrder, Exempt
<1>b. a # 0 => R[s] <= R[Parent(a)]
  BY DEF InOrder
<1>c. R[a] < R[s] /\ \A i \in InHeap \ {0} : Parent(i) = a => R[i] <= R[s]
  OBVIOUS
<1>d. Parent(s) = a
  OBVIOUS
<1> HIDE DEF a
<1>3. ASSUME NEW i \in InHeap \ {0}, Parent(i) # s PROVE R'[i] <= R'[Parent(i)]
  <2>1. CASE i = a
    BY <1>0, <1>1, <1>b, <1>3, <2>1
  <2>2. CASE i = s
    BY <1>0, <1>1, <1>c, <1>d, <2>2
  <2>3. CASE i # a /\ i # s /\ Parent(i) = a
    BY <1>0, <1>1, <1>c, <2>3
  <2>4. CASE i # a /\ i # s /\ Parent(i) # a
    BY <1>0, <1>1, <1>a, <1>3, <2>4
  <2> QED
    BY <2>1, <2>2, <2>3, <2>4
<1>4. ASSUME NEW i \in InHeap \ {0}, Parent(i) = s PROVE R'[i] <= R'[Parent(s)]
  BY <1>0, <1>1, <1>a, <1>d, <1>4
<1> QED
  BY <1>1, <1>2, <1>3, <1>4 DEF InOrder, Exempt

(* An iteration of the pop loop, unless it skips a left child above its    *)
(* parent.                                                                 *)
LEMMA SiftDownInOrder ==
  ASSUME HeapConstants, TypeOK, LoopInv, HeldOnce, InOrder, SiftDown, ~skipped'
  PROVE  InOrder'
<1> DEFINE a == loop.at
           l == Left(a)
           r == Right(a)
<1>0. /\ loop.in = "down" /\ InHeap \subseteq Nat /\ a \in Nat
      /\ \A i \in InHeap : R[i] \in Int
      /\ l \in Nat \ {0} /\ r = l + 1 /\ a < l
      /\ Parent(l) = a /\ Parent(r) = a
      /\ \A i \in InHeap \ {0} : Parent(i) = a <=> i \in {l, r}
  BY TreeShape, RankFacts, HeapInNat DEF SiftDown, InHeap
<1>n. items_in_heap \in Nat
  BY HeapInNat
<1>a. \A i \in InHeap \ {0} : Parent(i) # a => R[i] <= R[Parent(i)]
  BY <1>0 DEF InOrder, Exempt
<1>b. ASSUME Return, \A i \in {l, r} : i \in InHeap => R[i] <= R[a] PROVE InOrder'
  <2>1. InHeap' = InHeap /\ loop'.in = "idle" /\ R' = R
    BY <1>b DEF Return, Idle, InHeap, R
  <2>2. \A i \in InHeap \ {0} : R[i] <= R[Parent(i)]
    BY <1>0, <1>a, <1>b
  <2> QED
    BY <2>1, <2>2 DEF InOrder, Exempt
<1>1. CASE l >= items_in_heap \/ r >= items_in_heap
  <2>1. Return /\ ~(l < items_in_heap /\ compare(a, l))
    BY <1>1, Zenon DEF SiftDown, Left, Right, bounded_heap_get_size
  <2>2. r \notin InHeap
    BY <1>0, <1>1, <1>n DEF InHeap
  <2>3. l \in InHeap => R[l] <= R[a]
    <3> SUFFICES ASSUME l \in InHeap PROVE R[l] <= R[a]
      OBVIOUS
    <3>1. l < items_in_heap /\ a \in InHeap
      BY <1>0, <1>n DEF InHeap
    <3>2. ~(R[a] < R[l])
      BY <2>1, <3>1 DEF compare, R
    <3> QED
      BY <1>0, <3>1, <3>2
  <2> QED
    BY <1>b, <2>1, <2>2, <2>3
<1>2. CASE ~(l >= items_in_heap \/ r >= items_in_heap)
  <2>1. a \in InHeap /\ l \in InHeap \ {0} /\ r \in InHeap \ {0}
    BY <1>0, <1>2, <1>n DEF InHeap
  <2>2. \/ /\ R[a] < R[r] /\ (R[a] < R[l] => R[l] < R[r])
           /\ heap_storage' = Swapped(a, r) /\ Continue("down", r)
        \/ /\ R[a] < R[l] /\ ~(R[a] < R[r] /\ R[l] < R[r])
           /\ heap_storage' = Swapped(a, l) /\ Continue("down", l)
        \/ ~(R[a] < R[l]) /\ ~(R[a] < R[r]) /\ Return
    <3>1. \A i, j \in InHeap : compare(i, j) <=> R[i] < R[j]
      BY DEF compare, R
    <3> QED
      BY <1>2, <2>1, <3>1 DEF SiftDown, Left, Right, bounded_heap_get_size
  <2>3. R[a] \in Int /\ R[l] \in Int /\ R[r] \in Int
    BY <1>0, <2>1
  <2>4. CASE /\ R[a] < R[r] /\ (R[a] < R[l] => R[l] < R[r])
             /\ heap_storage' = Swapped(a, r) /\ Continue("down", r)
    <3>1. \A i \in InHeap \ {0} : Parent(i) = a => R[i] <= R[r]
      BY <1>0, <2>3, <2>4
    <3> QED
      BY <1>0, <2>1, <2>4, <3>1, SwapDownInOrder
  <2>5. CASE /\ R[a] < R[l] /\ ~(R[a] < R[r] /\ R[l] < R[r])
             /\ heap_storage' = Swapped(a, l) /\ Continue("down", l)
    <3>1. \A i \in InHeap \ {0} : Parent(i) = a => R[i] <= R[l]
      BY <1>0, <2>3, <2>5
    <3> QED
      BY <1>0, <2>1, <2>5, <3>1, SwapDownInOrder
  <2>6. CASE ~(R[a] < R[l]) /\ ~(R[a] < R[r]) /\ Return
    BY <1>b, <2>3, <2>6
  <2> QED
    BY <2>2, <2>4, <2>5, <2>6
<1> QED
  BY <1>1, <1>2

(* Every step keeps the order, as long as it is not skipped. *)
LEMMA NextInOrder ==
  ASSUME HeapConstants, TypeOK, LoopInv, HeldOnce, ~skipped => InOrder, Next,
         ~skipped'
  PROVE  InOrder'
<1>0. /\ items_in_heap \in Nat /\ InHeap \subseteq Nat
      /\ \A i \in InHeap \ {0} : Parent(i) \in InHeap /\ Parent(i) < i
  BY HeapInNat, TreeShape DEF InHeap
<1>a. ASSUME UNCHANGED <<heap_storage, items_in_heap, loop, skipped>> PROVE InOrder'
  <2>1. InOrder
    BY <1>a
  <2>2. InHeap' = InHeap /\ R' = R /\ loop' = loop
    BY <1>a DEF InHeap, R
  <2> QED
    BY <2>1, <2>2 DEF InOrder, Exempt
<1>b. ASSUME items_in_heap' = 0 PROVE InOrder'
  <2>1. InHeap' = {}
    BY <1>b DEF InHeap
  <2> QED
    BY <2>1 DEF InOrder
<1>1. ASSUME NEW n \in Counts, bounded_heap_init(n) PROVE InOrder'
  BY <1>1, <1>a, <1>b DEF bounded_heap_init, Refused
<1>2. CASE bounded_heap_deinit
  BY <1>2, <1>b DEF bounded_heap_deinit
<1>3. CASE bounded_heap_peek
  BY <1>3, <1>a DEF bounded_heap_peek, Refused
<1>4. CASE bounded_heap_pop
  <2>1. CASE items_in_heap = 0
    BY <1>4, <2>1, <1>a DEF bounded_heap_pop, Refused, bounded_heap_get_size
  <2>2. CASE items_in_heap # 0
    <3>1. /\ items_in_heap' = items_in_heap - 1
          /\ heap_storage' = [i \in 0 .. items_in_heap - 2 |->
                                Swapped(0, items_in_heap - 1)[i]]
          /\ loop.in = "idle" /\ loop'.in = "down" /\ loop'.at = 0
      BY <1>4, <2>2 DEF bounded_heap_pop, bounded_heap_get_size, Idle
    <3>2. ~skipped \/ ~(items_in_heap > 2)
      BY <1>4, <2>2, Zenon DEF bounded_heap_pop, bounded_heap_get_size
    <3>3. InHeap' = 0 .. items_in_heap - 2 /\ InHeap' = InHeap \ {items_in_heap - 1}
      BY <1>0, <3>1 DEF InHeap
    <3>4. \A i \in InHeap' \ {0} : R'[i] = R[i]
      BY <1>0, <3>1, <3>3 DEF R, Swapped, TypeOK, InHeap
    <3>5. ASSUME NEW i \in InHeap' \ {0}, ~Exempt(i)' PROVE R'[i] <= R'[Parent(i)]
      <4>1. Parent(i) # 0
        BY <3>1, <3>5 DEF Exempt
      <4>2. i \in InHeap \ {0} /\ Parent(i) \in InHeap' \ {0}
        BY <1>0, <3>3, <4>1 DEF InHeap
      <4>3. items_in_heap > 2
        BY <1>0, <3>3, <4>2
      <4>4. InOrder
        BY <3>2, <4>3
      <4>5. R[i] <= R[Parent(i)]
        BY <3>1, <4>2, <4>4 DEF InOrder, Exempt
      <4> QED
        BY <3>4, <4>2, <4>5
    <3> QED
      BY <3>1, <3>5 DEF InOrder
  <2> QED
    BY <2>1, <2>2
<1>5. CASE SiftDown
  <2>1. ~skipped
    BY <1>5, Zenon DEF SiftDown, Continue
  <2> QED
    BY <1>5, <2>1, SiftDownInOrder
<1>6. ASSUME NEW x \in Item \ inside, bounded_heap_push(x) PROVE InOrder'
  <2>1. CASE bounded_heap_get_remaining = 0
    BY <1>6, <2>1, <1>a DEF bounded_heap_push, Refused
  <2>2. CASE bounded_heap_get_remaining # 0
    <3>1. /\ items_in_heap' = items_in_heap + 1
          /\ heap_storage' = [i \in 0 .. items_in_heap |->
                                IF i = items_in_heap THEN x ELSE heap_storage[i]]
          /\ loop.in = "idle" /\ loop'.in = "up" /\ loop'.at = items_in_heap
          /\ skipped' = skipped
      BY <1>6, <2>2 DEF bounded_heap_push, Idle
    <3>2. InHeap' = InHeap \cup {items_in_heap}
      BY <1>0, <3>1 DEF InHeap
    <3>3. \A i \in InHeap : R'[i] = R[i]
      BY <1>0, <3>1, <3>2 DEF R, InHeap
    <3>4. InOrder
      BY <3>1
    <3>5. \A i \in InHeap \ {0} : R[i] <= R[Parent(i)]
      BY <3>1, <3>4 DEF InOrder, Exempt
    <3>6. ASSUME NEW i \in InHeap' \ {0}, ~Exempt(i)' PROVE R'[i] <= R'[Parent(i)]
      <4>1. i \in InHeap \ {0}
        BY <3>1, <3>2, <3>6 DEF Exempt
      <4> QED
        BY <1>0, <3>3, <3>5, <4>1
    <3>7. \A i \in InHeap' \ {0} : Parent(i) # items_in_heap
      BY <1>0, <3>2, TreeShape DEF InHeap
    <3> QED
      BY <3>1, <3>6, <3>7 DEF InOrder
  <2> QED
    BY <2>1, <2>2
<1>7. CASE SiftUp
  <2>1. ~skipped
    BY <1>7, Zenon DEF SiftUp, Continue
  <2> QED
    BY <1>7, <2>1, SiftUpInOrder
<1> QED
  BY <1>1, <1>2, <1>3, <1>4, <1>5, <1>6, <1>7 DEF Next

(* The invariant is inductive. *)
LEMMA NextIInv ==
  ASSUME HeapConstants
  PROVE  IInv /\ [Next]_vars => IInv'
<1> SUFFICES ASSUME IInv, [Next]_vars PROVE IInv'
  OBVIOUS
<1>1. CASE Next
  <2>1. TypeOK' /\ LoopInv' /\ HeldOnce'
    BY <1>1, NextKeepsItems DEF IInv
  <2>2. ~skipped => InOrder
    BY OrderedIsInOrder DEF IInv
  <2>3. ~skipped' => InOrder'
    BY <1>1, <2>2, NextInOrder DEF IInv
  <2>4. (TypeOK => (Ordered <=> (~skipped => InOrder)))'
    BY OrderedIsInOrder, PTL
  <2> QED
    BY <2>1, <2>3, <2>4 DEF IInv
<1>2. CASE UNCHANGED vars
  BY <1>2 DEF vars, IInv, TypeOK, LoopInv, HeldOnce, Ordered, Below, InHeap
<1> QED
  BY <1>1, <1>2

(* In a heap in order, with no loop running, none ranks above the root:    *)
(* the first entry that did would rank above its parent.                   *)
LEMMA RootIsGreatest ==
  ASSUME HeapConstants, TypeOK, InOrder, loop.in = "idle"
  PROVE  \A i \in InHeap : R[i] <= R[0]
<1>0. /\ items_in_heap \in Nat /\ InHeap \subseteq Nat
      /\ \A i \in InHeap : 0 \in InHeap
      /\ \A i \in InHeap \ {0} : Parent(i) \in InHeap /\ Parent(i) < i
      /\ \A i \in InHeap : R[i] \in Int
  BY HeapInNat, TreeShape, RankFacts DEF InHeap
<1> DEFINE T == {i \in InHeap : R[0] < R[i]}
<1>1. SUFFICES ASSUME T # {} PROVE FALSE
  BY <1>0
<1>2. T \subseteq Nat
  BY <1>0
<1>3. PICK x \in T : \A y \in T : x <= y
  <2> HIDE DEF T
  <2> QED
    BY <1>1, <1>2, LeastNat
<1>4. x \in InHeap /\ R[0] < R[x] /\ \A y \in InHeap : R[0] < R[y] => x <= y
  BY <1>3
<1> HIDE DEF T
<1>5. x # 0
  BY <1>0, <1>4
<1>6. Parent(x) \in InHeap /\ Parent(x) < x /\ x \in Nat /\ Parent(x) \in Nat
  BY <1>0, <1>4, <1>5
<1>7. R[0] \in Int /\ R[x] \in Int /\ R[Parent(x)] \in Int
  BY <1>0, <1>4, <1>6
<1>8. R[x] <= R[Parent(x)]
  BY <1>4, <1>5 DEF InOrder, Exempt
<1> QED
  BY <1>4, <1>6, <1>7, <1>8

(* A step that starts a pop loop is a pop, and it takes the root. *)
LEMMA PopStepTakesGreatest ==
  ASSUME HeapConstants
  PROVE  IInv /\ [Next]_vars => [~skipped => PopTakesGreatest]_vars
<1> SUFFICES ASSUME IInv, Next, ~skipped, loop = Idle, loop'.in = "down"
             PROVE  \A x \in inside : Rank[x] <= Rank[out']
  BY DEF PopTakesGreatest
<1>0. loop.in = "idle"
  BY DEF Idle
<1>1. bounded_heap_pop /\ items_in_heap # 0
  <2>1. ASSUME NEW n \in Counts, bounded_heap_init(n) PROVE FALSE
    BY <1>0, <2>1 DEF bounded_heap_init, Refused
  <2>2. ~bounded_heap_deinit /\ ~bounded_heap_peek
    BY <1>0 DEF bounded_heap_deinit, bounded_heap_peek, Refused
  <2>3. ~SiftDown /\ ~SiftUp
    BY <1>0 DEF SiftDown, SiftUp
  <2>4. ASSUME NEW x \in Item \ inside, bounded_heap_push(x) PROVE FALSE
    BY <1>0, <2>4 DEF bounded_heap_push, Refused
  <2>5. bounded_heap_pop
    BY <2>1, <2>2, <2>3, <2>4 DEF Next
  <2> QED
    BY <1>0, <2>5 DEF bounded_heap_pop, bounded_heap_get_size, Refused
<1>2. out' = heap_storage[0]
  BY <1>1 DEF bounded_heap_pop, bounded_heap_get_size
<1>3. 0 \in InHeap
  BY <1>1, HeapInNat DEF InHeap, IInv
<1>4. InOrder
  BY OrderedIsInOrder DEF IInv
<1>5. \A i \in InHeap : R[i] <= R[0]
  BY <1>0, <1>4, RootIsGreatest DEF IInv
<1>6. inside = {heap_storage[i] : i \in InHeap}
  BY DEF IInv, HeldOnce
<1> QED
  BY <1>2, <1>3, <1>5, <1>6 DEF R

-----------------------------------------------------------------------------
(* The inductive invariant holds in every reachable state. *)
LEMMA HeapInductive ==
  ASSUME HeapConstants
  PROVE  Spec => []IInv
  BY InitIInv, NextIInv, PTL DEF Spec

(***************************************************************************)
(* bounded_heap.c keeps its fields in their ranges, for every capacity: at *)
(* each iteration of its loops the indices stay inside the storage.        *)
(***************************************************************************)
THEOREM HeapTypeCorrect ==
  ASSUME HeapConstants
  PROVE  Spec => [](TypeOK /\ LoopInv)
<1>1. IInv => TypeOK /\ LoopInv
  BY DEF IInv
<1> QED
  BY <1>1, HeapInductive, PTL

(***************************************************************************)
(* No swap, push or pop loses or doubles a pointer.                        *)
(***************************************************************************)
THEOREM HeapHoldsOnce ==
  ASSUME HeapConstants
  PROVE  Spec => []HeldOnce
<1>1. IInv => HeldOnce
  BY DEF IInv
<1> QED
  BY <1>1, HeapInductive, PTL

(***************************************************************************)
(* The loops of push and pop keep the heap in order, but for the entry     *)
(* they are moving, until the loop of a pop ends at a parent with only a   *)
(* left child that ranks above it.                                         *)
(***************************************************************************)
THEOREM HeapInOrder ==
  ASSUME HeapConstants
  PROVE  Spec => []Ordered
<1>1. IInv => Ordered
  BY DEF IInv
<1> QED
  BY <1>1, HeapInductive, PTL

(***************************************************************************)
(* Until then a pop returns an item that none in the heap ranks above.     *)
(***************************************************************************)
THEOREM HeapPopsGreatest ==
  ASSUME HeapConstants
  PROVE  Spec => PopsGreatestUnlessSkipped
  BY HeapInductive, PopStepTakesGreatest, PTL DEF Spec, PopsGreatestUnlessSkipped
=============================================================================
