-------------------------- MODULE CopyQueue_proofs --------------------------
(***************************************************************************)
(* CopyQueue for every buffer, element size, element count and sequence of *)
(* calls.                                                                  *)
(***************************************************************************)
EXTENDS CopyQueue, SequenceTheorems, TLAPS

(* Multiplication by a size is monotone. *)
LEMMA TimesMonotone ==
  ASSUME NEW a \in Nat, NEW b \in Nat, NEW s \in Nat, a <= b
  PROVE  a * s \in Nat /\ a * s <= b * s
<1>1. (b - a) * s \in Nat /\ (b - a) * s = b * s - a * s
  OBVIOUS
<1> QED
  BY <1>1

(* Different elements start at different offsets. *)
LEMMA TimesDistinct ==
  ASSUME NEW a \in Nat, NEW b \in Nat, NEW s \in Nat \ {0}, a # b
  PROVE  a * s # b * s
  OBVIOUS

(* The head is at element h of the memory, the tail count elements on; no  *)
(* element starts past the laps the client may go, and the elements of one *)
(* lap fit the buffer.                                                     *)
LayoutAt(h) ==
  /\ h + count <= Laps * max_size
  /\ head_idx = h * element_size
  /\ tail_idx = (h + count) * element_size

Layout ==
  /\ max_size # 0 => element_size # 0
  /\ max_size * element_size <= queue_size
  /\ \E h \in Nat : LayoutAt(h)

IInv == TypeOK /\ Layout

USE DEF ERR_NONE, ERR_NO_MEM, ERR_INVALID_ARG, ERR_EMPTY

(* The numbers of TypeOK are naturals. *)
LEMMA QueueFacts ==
  ASSUME QueueConstants, TypeOK
  PROVE  /\ max_size \in Nat /\ count \in Nat /\ count <= max_size
         /\ element_size \in Nat /\ queue_size \in Nat
         /\ Laps \in Nat \ {0} /\ Laps * max_size \in Nat
         /\ max_size <= MaxCount /\ element_size <= MaxElementSize
         /\ MaxCount \in Nat /\ MaxElementSize \in Nat
<1>1. /\ MaxCount \in Nat /\ MaxElementSize \in Nat /\ Laps \in Nat \ {0}
      /\ QueueSize \in Nat
  BY DEF QueueConstants
<1>2. /\ max_size \in Nat /\ count \in Nat /\ count <= max_size
      /\ element_size \in Nat /\ queue_size \in Nat
      /\ max_size <= MaxCount /\ element_size <= MaxElementSize
  BY <1>1 DEF TypeOK
<1> QED
  BY <1>1, <1>2

(* Elements within the laps start inside the modelled memory. *)
LEMMA InOffset ==
  ASSUME QueueConstants, TypeOK, NEW k \in Nat, k <= Laps * max_size
  PROVE  k * element_size \in Offset
<1>1. k * element_size \in Nat /\ k * element_size <= (Laps * max_size) * element_size
  BY QueueFacts, TimesMonotone
<1>2. /\ max_size * Laps <= MaxCount * Laps
      /\ Laps * max_size = max_size * Laps /\ Laps * MaxCount = MaxCount * Laps
  BY QueueFacts, TimesMonotone
<1>3. (Laps * max_size) * element_size <= (Laps * MaxCount) * element_size
  BY <1>2, QueueFacts, TimesMonotone
<1>4. /\ element_size * (Laps * MaxCount) <= MaxElementSize * (Laps * MaxCount)
      /\ element_size * (Laps * MaxCount) = (Laps * MaxCount) * element_size
      /\ MaxElementSize * (Laps * MaxCount) = (Laps * MaxCount) * MaxElementSize
  BY QueueFacts, TimesMonotone
<1>5. /\ (Laps * max_size) * element_size \in Nat
      /\ (Laps * MaxCount) * element_size \in Nat
      /\ (Laps * MaxCount) * MaxElementSize \in Nat
  BY QueueFacts
<1> QED
  BY <1>1, <1>3, <1>4, <1>5 DEF Offset

(* The deinitialised queue. *)
LEMMA InitIInv ==
  ASSUME QueueConstants
  PROVE  Init => IInv
<1> SUFFICES ASSUME Init PROVE IInv
  OBVIOUS
<1>1. 0 \in Offset
  BY DEF QueueConstants, Offset
<1>2. TypeOK
  BY <1>1 DEF Init, TypeOK, ErrorCode, QueueConstants
<1>3. LayoutAt(0)
  BY DEF Init, LayoutAt, QueueConstants
<1>4. Layout
  BY <1>3 DEF Init, Layout
<1> QED
  BY <1>2, <1>4 DEF IInv

(* A refused call leaves the queue as it was. *)
LEMMA RefusedKeeps ==
  ASSUME IInv, NEW code \in ErrorCode, Refused(code)
  PROVE  IInv'
  BY DEF Refused, IInv, TypeOK, Layout, LayoutAt

(* Every call keeps it. *)
LEMMA NextIInv ==
  ASSUME QueueConstants
  PROVE  IInv /\ [Next]_vars => IInv'
<1> SUFFICES ASSUME IInv, [Next]_vars PROVE IInv'
  OBVIOUS
<1>0. TypeOK /\ Layout
  BY DEF IInv
<1>f. /\ max_size \in Nat /\ count \in Nat /\ count <= max_size
      /\ element_size \in Nat /\ queue_size \in Nat
      /\ Laps \in Nat \ {0} /\ Laps * max_size \in Nat
  BY <1>0, QueueFacts
<1>z. 0 \in Offset
  BY DEF QueueConstants, Offset
<1>1. ASSUME NEW bytes \in {0, QueueSize - 1, QueueSize}, NEW n \in 0 .. MaxCount,
             NEW size \in 0 .. MaxElementSize, copy_queue_init(bytes, n, size)
      PROVE  IInv'
  <2>1. CASE ~ValidConfig(bytes, n, size)
    BY <1>1, <2>1, RefusedKeeps DEF copy_queue_init, ErrorCode
  <2>2. CASE ValidConfig(bytes, n, size)
    <3>1. /\ element_size' = size /\ max_size' = n /\ count' = 0
          /\ tail_idx' = 0 /\ head_idx' = 0 /\ queue_size' = bytes
          /\ ret' = ERR_NONE /\ UNCHANGED <<memory, out>>
      BY <1>1, <2>2 DEF copy_queue_init
    <3>2. /\ n \in Nat /\ size \in Nat \ {0} /\ n * size \in Nat
          /\ SizeMod \in Nat \ {0}
          /\ n * size < SizeMod /\ (n * size) % SizeMod <= bytes
      BY <1>1, <2>2, TimesMonotone DEF copy_queue_init, ValidConfig, QueueConstants
    <3>3. n * size <= bytes
      BY <3>2
    <3>4. TypeOK'
      BY <1>0, <1>z, <3>1 DEF TypeOK, ErrorCode, QueueConstants
    <3>5. LayoutAt(0)'
      BY <1>f, <3>1, <3>2 DEF LayoutAt
    <3>6. Layout'
      BY <3>1, <3>2, <3>3, <3>5 DEF Layout
    <3> QED
      BY <3>4, <3>6 DEF IInv
  <2> QED
    BY <2>1, <2>2
<1>2. CASE copy_queue_deinit
  <2>1. TypeOK'
    BY <1>0, <1>z, <1>2 DEF TypeOK, copy_queue_deinit, QueueConstants
  <2>2. LayoutAt(0)'
    BY <1>2, <1>f DEF copy_queue_deinit, LayoutAt
  <2>3. Layout'
    BY <1>2, <2>2 DEF copy_queue_deinit, Layout
  <2> QED
    BY <2>1, <2>3 DEF IInv
<1>3. ASSUME WithinLaps, NEW e \in Element, copy_queue_enqueue(e) PROVE IInv'
  <2>1. CASE copy_queue_get_remaining = 0
    BY <1>3, <2>1, RefusedKeeps DEF copy_queue_enqueue, ErrorCode
  <2>2. CASE copy_queue_get_remaining # 0
    <3>1. /\ memory' = [memory EXCEPT ![tail_idx] = e]
          /\ tail_idx' = tail_idx + element_size /\ count' = count + 1
          /\ ret' = ERR_NONE
          /\ UNCHANGED <<max_size, element_size, head_idx, queue_size, out>>
      BY <1>3, <2>2 DEF copy_queue_enqueue
    <3>2. PICK h \in Nat : LayoutAt(h)
      BY <1>0 DEF Layout
    <3>3. tail_idx = (h + count) * element_size /\ head_idx = h * element_size
      BY <3>2 DEF LayoutAt
    <3>4. h + count < Laps * max_size
      <4>1. SUFFICES ASSUME Laps * max_size <= h + count PROVE FALSE
        BY <1>f
      <4>2. (Laps * max_size) * element_size <= (h + count) * element_size
        BY <1>f, <4>1, TimesMonotone
      <4>3. tail_idx < (Laps * max_size) * element_size
        BY <1>3, <2>2 DEF WithinLaps
      <4>4. (Laps * max_size) * element_size \in Nat /\ (h + count) * element_size \in Nat
        BY <1>f
      <4> QED
        BY <3>3, <4>2, <4>3, <4>4
    <3>5. (h + count + 1) * element_size = tail_idx + element_size
      BY <1>f, <3>3
    <3>6. tail_idx' \in Offset
      <4>1. h + count + 1 \in Nat /\ h + count + 1 <= Laps * max_size
        BY <1>f, <3>4
      <4> QED
        BY <1>0, <3>1, <3>5, <4>1, InOffset
    <3>7. count' \in 0 .. max_size
      BY <1>f, <2>2, <3>1 DEF copy_queue_get_remaining
    <3>8. TypeOK'
      BY <1>0, <3>1, <3>6, <3>7 DEF TypeOK, ErrorCode
    <3>9. LayoutAt(h)'
      BY <1>f, <3>1, <3>3, <3>4, <3>5 DEF LayoutAt
    <3>10. Layout'
      BY <1>0, <3>1, <3>9 DEF Layout
    <3> QED
      BY <3>8, <3>10 DEF IInv
  <2> QED
    BY <2>1, <2>2
<1>4. CASE copy_queue_dequeue
  <2>1. CASE copy_queue_get_size = 0
    BY <1>4, <2>1, RefusedKeeps DEF copy_queue_dequeue, ErrorCode
  <2>2. CASE copy_queue_get_size # 0
    <3>1. /\ out' = memory[head_idx]
          /\ head_idx' = head_idx + element_size /\ count' = count - 1
          /\ ret' = ERR_NONE
          /\ UNCHANGED <<max_size, element_size, tail_idx, queue_size, memory>>
      BY <1>4, <2>2 DEF copy_queue_dequeue
    <3>2. PICK h \in Nat : LayoutAt(h)
      BY <1>0 DEF Layout
    <3>3. (h + 1) * element_size = head_idx + element_size
      BY <1>f, <3>2 DEF LayoutAt
    <3>4. count \in Nat \ {0} /\ h + 1 \in Nat /\ h + 1 <= Laps * max_size
          /\ (h + 1) + (count - 1) = h + count
      BY <1>f, <2>2, <3>2 DEF copy_queue_get_size, LayoutAt
    <3>5. head_idx' \in Offset
      BY <1>0, <3>1, <3>3, <3>4, InOffset
    <3>6. TypeOK'
      BY <1>0, <1>f, <3>1, <3>4, <3>5 DEF TypeOK, ErrorCode
    <3>7. LayoutAt(h + 1)'
      BY <3>1, <3>2, <3>3, <3>4 DEF LayoutAt
    <3>8. Layout'
      BY <1>0, <3>1, <3>4, <3>7 DEF Layout
    <3> QED
      BY <3>6, <3>8 DEF IInv
  <2> QED
    BY <2>1, <2>2
<1>5. CASE copy_queue_peek
  <2>1. CASE copy_queue_get_size = 0
    BY <1>5, <2>1, RefusedKeeps DEF copy_queue_peek, ErrorCode
  <2>2. CASE copy_queue_get_size # 0
    BY <1>0, <1>5, <2>2
    DEF copy_queue_peek, IInv, TypeOK, Layout, LayoutAt, ErrorCode
  <2> QED
    BY <2>1, <2>2
<1>6. CASE UNCHANGED vars
  BY <1>0, <1>6 DEF vars, IInv, TypeOK, Layout, LayoutAt
<1> QED
  BY <1>1, <1>2, <1>3, <1>4, <1>5, <1>6 DEF Next

(* It holds in every reachable state. *)
LEMMA QueueInductive ==
  ASSUME QueueConstants
  PROVE  Spec => []IInv
  BY InitIInv, NextIInv, PTL DEF Spec

(***************************************************************************)
(* copy_queue.c keeps its count and its offsets in their ranges.           *)
(***************************************************************************)
THEOREM QueueTypeCorrect ==
  ASSUME QueueConstants
  PROVE  Spec => []TypeOK
<1>1. IInv => TypeOK
  BY DEF IInv
<1> QED
  BY <1>1, QueueInductive, PTL

(* The elements enqueued since init are no more than the queue holds. *)
FirstLap == tail_idx <= max_size * element_size

(***************************************************************************)
(* However long it is used, copy_queue.c touches only the bytes it was     *)
(* given while the elements enqueued since init are no more than it holds: *)
(* the offsets that never return to the start of the buffer are the only   *)
(* way out of it.                                                          *)
(***************************************************************************)
THEOREM QueueFirstLapInBuffer ==
  ASSUME QueueConstants
  PROVE  Spec => [](FirstLap => StaysInBuffer)
<1>1. IInv => (FirstLap => StaysInBuffer)
  <2> SUFFICES ASSUME IInv, FirstLap PROVE StaysInBuffer
    OBVIOUS
  <2>1. /\ max_size \in Nat /\ count \in Nat /\ element_size \in Nat
        /\ queue_size \in Nat /\ tail_idx \in Nat
    BY QueueFacts DEF IInv, TypeOK, Offset
  <2>2. PICK h \in Nat : LayoutAt(h)
    BY DEF IInv, Layout
  <2>3. head_idx = h * element_size /\ tail_idx = (h + count) * element_size
    BY <2>1, <2>2 DEF LayoutAt
  <2>4. max_size * element_size <= queue_size /\ max_size * element_size \in Nat
    BY <2>1, TimesMonotone DEF IInv, Layout
  <2>5. tail_idx <= queue_size
    BY <2>1, <2>4 DEF FirstLap
  <2>6. h * element_size + count * element_size = (h + count) * element_size
    BY <2>1
  <2> QED
    BY <2>3, <2>5, <2>6 DEF StaysInBuffer
<1> QED
  BY <1>1, QueueInductive, PTL

(***************************************************************************)
(* As long as the client enqueues between two inits at most as many        *)
(* elements as the queue holds, copy_queue.c touches only the bytes it was *)
(* given.                                                                  *)
(***************************************************************************)
THEOREM QueueStaysInBuffer ==
  ASSUME QueueConstants, Laps = 1
  PROVE  Spec => []StaysInBuffer
<1>1. IInv => FirstLap
  <2> SUFFICES ASSUME IInv PROVE FirstLap
    OBVIOUS
  <2>1. /\ max_size \in Nat /\ count \in Nat /\ element_size \in Nat
        /\ Laps * max_size = max_size
    BY QueueFacts DEF IInv
  <2>2. PICK h \in Nat : LayoutAt(h)
    BY DEF IInv, Layout
  <2>3. h + count <= max_size /\ tail_idx = (h + count) * element_size
    BY <2>1, <2>2 DEF LayoutAt
  <2>4. (h + count) * element_size <= max_size * element_size
    BY <2>1, <2>3, TimesMonotone
  <2> QED
    BY <2>3, <2>4 DEF FirstLap
<1> QED
  BY <1>1, QueueFirstLapInBuffer, QueueInductive, PTL

-----------------------------------------------------------------------------
(* Contents is the sequence of the count elements from the head on. *)
ContentsFrom(h) ==
  /\ Contents \in Seq(Element)
  /\ Len(Contents) = count
  /\ \A i \in 1 .. count : Contents[i] = memory[(h + (i - 1)) * element_size]

ContentsShape == \A h \in Nat : LayoutAt(h) => ContentsFrom(h)

(* It is, wherever the head is. *)
LEMMA ContentsFacts ==
  ASSUME QueueConstants
  PROVE  TypeOK => ContentsShape
<1> SUFFICES ASSUME TypeOK, NEW h \in Nat, LayoutAt(h) PROVE ContentsFrom(h)
  BY DEF ContentsShape
<1>1. count \in Nat /\ element_size \in Nat /\ Laps * max_size \in Nat
  BY QueueFacts
<1>2. ASSUME NEW i \in 1 .. count
      PROVE  /\ head_idx + (i - 1) * element_size = (h + (i - 1)) * element_size
             /\ (h + (i - 1)) * element_size \in Offset
  <2>1. i - 1 \in Nat /\ h + (i - 1) \in Nat /\ h + (i - 1) <= Laps * max_size
    BY <1>1 DEF LayoutAt
  <2>2. head_idx + (i - 1) * element_size = (h + (i - 1)) * element_size
    BY <1>1, <2>1 DEF LayoutAt
  <2> QED
    BY <2>1, <2>2, InOffset
<1>3. Contents \in [1 .. count -> Element]
  BY <1>2 DEF Contents, TypeOK
<1>4. Contents \in Seq(Element) /\ Len(Contents) = count
  BY <1>1, <1>3
<1>5. \A i \in 1 .. count : Contents[i] = memory[(h + (i - 1)) * element_size]
  BY <1>2 DEF Contents
<1> QED
  BY <1>4, <1>5 DEF ContentsFrom

(* enqueue appends the element. *)
LEMMA EnqueueAppends ==
  ASSUME QueueConstants, TypeOK, TypeOK', NEW h \in Nat, LayoutAt(h), LayoutAt(h)',
         element_size # 0, NEW e \in Element,
         memory' = [memory EXCEPT ![tail_idx] = e], count' = count + 1,
         UNCHANGED <<max_size, element_size>>
  PROVE  Contents' = Append(Contents, e)
<1>1. /\ count \in Nat /\ element_size \in Nat \ {0}
      /\ tail_idx = (h + count) * element_size /\ tail_idx \in Offset
      /\ memory \in [Offset -> Element]
  BY QueueFacts DEF LayoutAt, TypeOK
<1>2. /\ Contents \in Seq(Element) /\ Len(Contents) = count
      /\ \A i \in 1 .. count : Contents[i] = memory[(h + (i - 1)) * element_size]
  BY ContentsFacts DEF ContentsShape, ContentsFrom
<1>3. /\ Contents' \in Seq(Element) /\ Len(Contents') = count + 1
      /\ \A i \in 1 .. count + 1 : Contents'[i] = memory'[(h + (i - 1)) * element_size]
  <2>1. ContentsShape'
    BY ContentsFacts, PTL
  <2> QED
    BY <2>1 DEF ContentsShape, ContentsFrom
<1>4. /\ Append(Contents, e) \in Seq(Element) /\ Len(Append(Contents, e)) = count + 1
      /\ \A i \in 1 .. count : Append(Contents, e)[i] = Contents[i]
      /\ Append(Contents, e)[count + 1] = e
  BY <1>2, AppendProperties
<1>5. ASSUME NEW i \in 1 .. count + 1 PROVE Contents'[i] = Append(Contents, e)[i]
  <2>1. CASE i = count + 1
    <3>1. h + (i - 1) = h + count
      BY <1>1, <2>1
    <3>2. memory'[tail_idx] = e
      BY <1>1
    <3> QED
      BY <1>1, <1>3, <1>4, <2>1, <3>1, <3>2
  <2>2. CASE i # count + 1
    <3>1. i \in 1 .. count /\ h + (i - 1) \in Nat /\ h + count \in Nat /\ h + (i - 1) # h + count
      BY <1>1, <2>2
    <3>2. (h + (i - 1)) * element_size # tail_idx
      BY <1>1, <3>1, TimesDistinct
    <3>3. h + (i - 1) <= Laps * max_size
      BY <1>1, <3>1, QueueFacts DEF LayoutAt
    <3>4. (h + (i - 1)) * element_size \in Offset
      BY <3>1, <3>3, InOffset
    <3>5. memory'[(h + (i - 1)) * element_size] = memory[(h + (i - 1)) * element_size]
      BY <1>1, <3>2, <3>4
    <3> QED
      BY <1>2, <1>3, <1>4, <3>1, <3>5
  <2> QED
    BY <2>1, <2>2
<1> QED
  BY <1>1, <1>3, <1>4, <1>5, SeqEqual

(* The first element is at the head. *)
LEMMA HeadIsFirst ==
  ASSUME QueueConstants, TypeOK, NEW h \in Nat, LayoutAt(h), count # 0
  PROVE  Contents # <<>> /\ memory[head_idx] = Head(Contents)
<1>1. count \in Nat \ {0} /\ element_size \in Nat /\ head_idx = h * element_size
  BY QueueFacts DEF LayoutAt
<1>2. /\ Contents \in Seq(Element) /\ Len(Contents) = count
      /\ \A i \in 1 .. count : Contents[i] = memory[(h + (i - 1)) * element_size]
  BY ContentsFacts DEF ContentsShape, ContentsFrom
<1>3. Contents # <<>>
  BY <1>1, <1>2, EmptySeq
<1>4. Head(Contents) = Contents[1]
  BY <1>2, <1>3
<1>5. h + (1 - 1) = h /\ 1 \in 1 .. count
  BY <1>1
<1> QED
  BY <1>1, <1>2, <1>3, <1>4, <1>5

(* dequeue takes it off. *)
LEMMA DequeueTakesHead ==
  ASSUME QueueConstants, TypeOK, TypeOK', NEW h \in Nat, LayoutAt(h),
         NEW g \in Nat, g = h + 1, LayoutAt(g)',
         count # 0, count' = count - 1, UNCHANGED <<memory, max_size, element_size>>
  PROVE  Contents' = Tail(Contents)
<1>1. count \in Nat \ {0} /\ h + 1 \in Nat
  BY QueueFacts
<1>2. /\ Contents \in Seq(Element) /\ Len(Contents) = count
      /\ \A i \in 1 .. count : Contents[i] = memory[(h + (i - 1)) * element_size]
  BY ContentsFacts DEF ContentsShape, ContentsFrom
<1>3. /\ Contents' \in Seq(Element) /\ Len(Contents') = count - 1
      /\ \A i \in 1 .. count - 1 :
           Contents'[i] = memory[((h + 1) + (i - 1)) * element_size]
  <2>1. ContentsShape'
    BY ContentsFacts, PTL
  <2> QED
    BY <2>1 DEF ContentsShape, ContentsFrom
<1>4. Contents # <<>>
  BY <1>1, <1>2, EmptySeq
<1>5. /\ Tail(Contents) \in Seq(Element) /\ Len(Tail(Contents)) = count - 1
      /\ \A i \in 1 .. count - 1 : Tail(Contents)[i] = Contents[i + 1]
  BY <1>2, <1>4, HeadTailProperties
<1>6. ASSUME NEW i \in 1 .. count - 1 PROVE Contents'[i] = Tail(Contents)[i]
  <2>1. i + 1 \in 1 .. count /\ (h + 1) + (i - 1) = h + ((i + 1) - 1)
    BY <1>1
  <2>2. Contents[i + 1] = memory[(h + ((i + 1) - 1)) * element_size]
    BY <1>2, <2>1
  <2> QED
    BY <1>3, <1>5, <2>1, <2>2
<1> QED
  BY <1>3, <1>5, <1>6, SeqEqual

-----------------------------------------------------------------------------
(* The deinitialised queue is the empty FIFO of capacity 0. *)
LEMMA InitRefines == Init => Fifo!Init
<1> SUFFICES ASSUME Init PROVE Fifo!Init
  OBVIOUS
<1>1. Contents = <<>>
  BY DEF Init, Contents
<1> QED
  BY <1>1 DEF Init, Fifo!Init, Fifo!ERR_NONE

(* Every call is the FIFO's operation of the same name. *)
LEMMA NextRefines ==
  ASSUME QueueConstants
  PROVE  IInv /\ IInv' /\ [Next]_vars => [Fifo!BoundedNext]_Fifo!vars
<1> SUFFICES ASSUME IInv, IInv', [Next]_vars PROVE [Fifo!BoundedNext]_Fifo!vars
  OBVIOUS
<1> USE DEF Fifo!ERR_NONE, Fifo!ERR_NO_MEM, Fifo!ERR_INVALID_ARG, Fifo!ERR_EMPTY
<1>0. TypeOK /\ TypeOK' /\ Layout /\ Layout'
  BY DEF IInv
<1>f. /\ max_size \in Nat /\ count \in Nat /\ count <= max_size
      /\ element_size \in Nat
  BY <1>0, QueueFacts
<1>h. PICK h \in Nat : LayoutAt(h)
  BY <1>0 DEF Layout
<1>c. Contents \in Seq(Element) /\ Len(Contents) = count
  BY <1>0, <1>h, ContentsFacts DEF ContentsShape, ContentsFrom
<1>r. ASSUME NEW code, Refused(code) PROVE Fifo!Refuse(code)
  BY <1>r DEF Refused, Fifo!Refuse, Contents
<1>1. ASSUME NEW bytes \in {0, QueueSize - 1, QueueSize}, NEW n \in 0 .. MaxCount,
             NEW size \in 0 .. MaxElementSize, copy_queue_init(bytes, n, size)
      PROVE  Fifo!BoundedNext
  <2>1. CASE ~ValidConfig(bytes, n, size)
    BY <1>1, <1>r, <2>1 DEF copy_queue_init, Fifo!BoundedNext
  <2>2. CASE ValidConfig(bytes, n, size)
    <3>1. max_size' = n /\ count' = 0 /\ ret' = ERR_NONE /\ out' = out
      BY <1>1, <2>2 DEF copy_queue_init
    <3>2. Contents' = <<>>
      BY <3>1 DEF Contents
    <3>3. n \in 1 .. MaxCount
      BY <2>2 DEF ValidConfig, QueueConstants
    <3>4. Fifo!Accept(n)
      BY <3>1, <3>2, <3>3 DEF Fifo!Accept
    <3> QED
      BY <3>3, <3>4 DEF Fifo!BoundedNext
  <2> QED
    BY <2>1, <2>2
<1>2. ASSUME copy_queue_deinit PROVE Fifo!BoundedNext
  <2>1. Contents' = <<>>
    BY <1>2 DEF copy_queue_deinit, Contents
  <2>2. Fifo!Deinit
    BY <1>2, <2>1 DEF copy_queue_deinit, Fifo!Deinit
  <2> QED
    BY <2>2 DEF Fifo!BoundedNext
<1>3. ASSUME NEW e \in Element, copy_queue_enqueue(e) PROVE Fifo!BoundedNext
  <2>1. CASE copy_queue_get_remaining = 0
    <3>1. Len(Contents) = max_size
      BY <1>c, <1>f, <2>1 DEF copy_queue_get_remaining
    <3> QED
      BY <1>3, <1>r, <2>1, <3>1 DEF copy_queue_enqueue, Fifo!BoundedNext
  <2>2. CASE copy_queue_get_remaining # 0
    <3>1. /\ memory' = [memory EXCEPT ![tail_idx] = e]
          /\ tail_idx' = tail_idx + element_size /\ count' = count + 1
          /\ ret' = ERR_NONE
          /\ UNCHANGED <<max_size, element_size, head_idx, queue_size, out>>
      BY <1>3, <2>2 DEF copy_queue_enqueue
    <3>2. count < max_size /\ max_size # 0 /\ element_size \in Nat \ {0}
      BY <1>0, <1>f, <2>2 DEF copy_queue_get_remaining, Layout
    <3>3. PICK g \in Nat : LayoutAt(g)'
      BY <1>0 DEF Layout
    <3>4. g = h
      <4>1. g * element_size = h * element_size
        BY <1>h, <3>1, <3>3 DEF LayoutAt
      <4> QED
        BY <3>2, <4>1, TimesDistinct
    <3>5. Contents' = Append(Contents, e)
      BY <1>0, <1>h, <3>1, <3>2, <3>3, <3>4, EnqueueAppends
    <3>6. Len(Contents) < max_size
      BY <1>c, <3>2
    <3>7. Fifo!Push(e)
      BY <1>c, <1>f, <3>1, <3>2, <3>5 DEF Fifo!Push
    <3> QED
      BY <3>6, <3>7 DEF Fifo!BoundedNext
  <2> QED
    BY <2>1, <2>2
<1>e. ASSUME count = 0, Refused(ERR_EMPTY) PROVE Fifo!BoundedNext
  <2>1. Contents = <<>>
    BY <1>c, <1>e, EmptySeq
  <2>2. Fifo!PopRefused
    BY <1>e, <2>1 DEF Refused, Contents, Fifo!PopRefused
  <2> QED
    BY <2>2 DEF Fifo!BoundedNext
<1>4. ASSUME copy_queue_dequeue PROVE Fifo!BoundedNext
  <2>1. CASE count = 0
    BY <1>4, <1>e, <2>1 DEF copy_queue_dequeue, copy_queue_get_size
  <2>2. CASE count # 0
    <3>1. /\ out' = memory[head_idx]
          /\ head_idx' = head_idx + element_size /\ count' = count - 1
          /\ ret' = ERR_NONE
          /\ UNCHANGED <<max_size, element_size, tail_idx, queue_size, memory>>
      BY <1>4, <2>2 DEF copy_queue_dequeue, copy_queue_get_size
    <3>2. element_size \in Nat \ {0}
      BY <1>0, <1>f, <2>2 DEF Layout
    <3>3. PICK g \in Nat : LayoutAt(g)'
      BY <1>0 DEF Layout
    <3>4. g = h + 1
      <4>1. g * element_size = (h + 1) * element_size
        BY <1>h, <3>1, <3>2, <3>3 DEF LayoutAt
      <4> QED
        BY <3>2, <4>1, TimesDistinct
    <3>6. Contents' = Tail(Contents)
      BY <1>0, <1>h, <2>2, <3>1, <3>3, <3>4, DequeueTakesHead
    <3>7. Contents # <<>> /\ memory[head_idx] = Head(Contents)
      BY <1>0, <1>h, <2>2, HeadIsFirst
    <3>8. Fifo!Pop
      BY <3>1, <3>6, <3>7 DEF Fifo!Pop
    <3> QED
      BY <3>8 DEF Fifo!BoundedNext
  <2> QED
    BY <2>1, <2>2
<1>5. ASSUME copy_queue_peek PROVE Fifo!BoundedNext
  <2>1. CASE count = 0
    BY <1>5, <1>e, <2>1 DEF copy_queue_peek, copy_queue_get_size
  <2>2. CASE count # 0
    <3>1. /\ out' = memory[head_idx] /\ ret' = ERR_NONE
          /\ UNCHANGED <<count, max_size, element_size, head_idx, memory>>
      BY <1>5, <2>2 DEF copy_queue_peek, copy_queue_get_size
    <3>2. Contents' = Contents
      BY <3>1 DEF Contents
    <3>3. Contents # <<>> /\ memory[head_idx] = Head(Contents)
      BY <1>0, <1>h, <2>2, HeadIsFirst
    <3>4. Fifo!Peek
      BY <3>1, <3>2, <3>3 DEF Fifo!Peek
    <3> QED
      BY <3>4 DEF Fifo!BoundedNext
  <2> QED
    BY <2>1, <2>2
<1>6. ASSUME UNCHANGED vars PROVE UNCHANGED Fifo!vars
  BY <1>6 DEF vars, Fifo!vars, Contents
<1> QED
  BY <1>1, <1>2, <1>3, <1>4, <1>5, <1>6 DEF Next

(***************************************************************************)
(* copy_queue.c implements the bounded FIFO, for every configuration and   *)
(* however far its offsets have moved: elements come out in the order they *)
(* went in, each once, and only a full queue refuses one.                  *)
(***************************************************************************)
THEOREM QueueRefinesFifo ==
  ASSUME QueueConstants
  PROVE  Spec => QueueImplementsFifo
<1>1. Spec => []IInv
  BY QueueInductive
<1> QED
  BY <1>1, InitRefines, NextRefines, PTL
  DEF Spec, QueueImplementsFifo, Fifo!BoundedSpec
=============================================================================
