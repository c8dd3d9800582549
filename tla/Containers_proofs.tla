--------------------------- MODULE Containers_proofs ---------------------------
(***************************************************************************)
(* The ring (CircularBuffer) for every array size, every set of byte       *)
(* values and every sequence of calls; then the containers side by side:   *)
(* the pool, and the others from the theorems about each.                  *)
(***************************************************************************)
EXTENDS Containers, SequenceTheorems, FiniteSetTheorems, TLAPS

(* (x + 1) % n stays below n, and is x + 1 or 0. *)
LEMMA ModStep ==
  ASSUME NEW n \in Nat \ {0}, NEW x \in 0 .. n - 1
  PROVE  /\ (x + 1) % n \in 0 .. n - 1
         /\ (x + 1) % n = IF x = n - 1 THEN 0 ELSE x + 1
<1>1. CASE x = n - 1
  BY <1>1
<1>2. CASE x # n - 1
  BY <1>2
<1> QED
  BY <1>1, <1>2

(* Every index of an initialised ring steps to a slot of that ring. *)
LEMMA AdvanceInRing ==
  ASSUME TypeOK, buffer_max_size # 0, NEW x \in 0 .. buffer_max_size - 1
  PROVE  Advance(x) \in 0 .. buffer_max_size - 1 /\ Advance(x) \in Slot
  BY ModStep, MaxSizeAssumption DEF TypeOK, Advance, Slot

IInv == TypeOK /\ IndexInv

USE DEF ERR_NONE, ERR_NO_MEM, ERR_INVALID_ARG, ERR_EMPTY

(* The deinitialised state satisfies it. *)
LEMMA InitIInv == Init => IInv
  BY MaxSizeAssumption DEF Init, IInv, TypeOK, IndexInv, Slot, ErrorCode

(* Every call keeps it. *)
LEMMA NextIInv == IInv /\ [Next]_vars => IInv'
<1> SUFFICES ASSUME IInv, [Next]_vars PROVE IInv'
  OBVIOUS
<1>1. ASSUME NEW n \in 0 .. MaxSize, circular_buffer_init(n) PROVE IInv'
  <2>1. CASE ValidConfig(n)
    <3>1. /\ n # 0 /\ buffer_max_size' = n /\ read_index' = 0 /\ write_index' = 0
          /\ UNCHANGED <<buffer, out>> /\ ret' \in ErrorCode
      BY <1>1, <2>1 DEF circular_buffer_init, ValidConfig, ErrorCode
    <3>2. buffer_is_empty' = TRUE
      BY <1>1, <2>1, Zenon DEF circular_buffer_init
    <3> QED
      BY <3>1, <3>2, MaxSizeAssumption DEF IInv, TypeOK, IndexInv, Slot
  <2>2. CASE ~ValidConfig(n)
    BY <1>1, <2>2
    DEF IInv, TypeOK, IndexInv, circular_buffer_init, indices, ErrorCode
  <2> QED
    BY <2>1, <2>2
<1>2. CASE circular_buffer_deinit
  BY <1>2, MaxSizeAssumption
  DEF IInv, TypeOK, IndexInv, circular_buffer_deinit, Slot
<1>3. ASSUME NEW b \in Byte, circular_buffer_push_byte(b) PROVE IInv'
  <2>1. CASE buffer_max_size = 0
    BY <1>3, <2>1
    DEF IInv, TypeOK, IndexInv, circular_buffer_push_byte, indices, ErrorCode
  <2>2. CASE buffer_max_size # 0
    <3>1. /\ Advance(read_index) \in 0 .. buffer_max_size - 1
          /\ Advance(read_index) \in Slot
          /\ Advance(write_index) \in 0 .. buffer_max_size - 1
          /\ Advance(write_index) \in Slot
      <4>1. /\ read_index \in 0 .. buffer_max_size - 1
            /\ write_index \in 0 .. buffer_max_size - 1
        BY <2>2, MaxSizeAssumption DEF IInv, TypeOK, IndexInv, Slot
      <4> QED
        BY <2>2, <4>1, AdvanceInRing DEF IInv
    <3>2. /\ buffer' = [buffer EXCEPT ![write_index] = b]
          /\ read_index' \in {read_index, Advance(read_index)}
          /\ write_index' = Advance(write_index)
          /\ buffer_is_empty' = FALSE
          /\ ret' \in ErrorCode
          /\ UNCHANGED <<buffer_max_size, out>>
      BY <1>3, <2>2 DEF circular_buffer_push_byte, ErrorCode
    <3>3. TypeOK'
      BY <3>1, <3>2 DEF IInv, TypeOK
    <3>4. IndexInv'
      BY <2>2, <3>1, <3>2, MaxSizeAssumption DEF IInv, TypeOK, IndexInv
    <3> QED
      BY <3>3, <3>4 DEF IInv
  <2> QED
    BY <2>1, <2>2
<1>4. CASE circular_buffer_pop_byte
  <2>1. CASE circular_buffer_get_count = 0
    BY <1>4, <2>1
    DEF IInv, TypeOK, IndexInv, circular_buffer_pop_byte, indices, ErrorCode
  <2>2. CASE circular_buffer_get_count # 0
    <3>1. /\ out' = buffer[read_index]
          /\ read_index' = Advance(read_index)
          /\ buffer_is_empty' = (read_index' = write_index)
          /\ ret' \in ErrorCode
          /\ UNCHANGED <<buffer, buffer_max_size, write_index>>
      BY <1>4, <2>2 DEF circular_buffer_pop_byte, ErrorCode
    <3>2. buffer_max_size # 0
      BY <2>2 DEF IInv, IndexInv, circular_buffer_get_count
    <3>3. /\ Advance(read_index) \in 0 .. buffer_max_size - 1
          /\ Advance(read_index) \in Slot
      BY <3>2, AdvanceInRing, MaxSizeAssumption DEF IInv, TypeOK, IndexInv, Slot
    <3>4. TypeOK'
      <4>1. buffer_is_empty' \in BOOLEAN
        BY <3>1, Zenon
      <4> QED
        BY <3>1, <3>3, <4>1 DEF IInv, TypeOK
    <3>5. IndexInv'
      <4>1. buffer_is_empty' => read_index' = write_index'
        BY <3>1, Zenon
      <4>2. read_index' < buffer_max_size' /\ write_index' < buffer_max_size'
        BY <3>1, <3>2, <3>3, MaxSizeAssumption DEF IInv, TypeOK, IndexInv
      <4> QED
        BY <3>1, <3>2, <4>1, <4>2 DEF IndexInv
    <3> QED
      BY <3>4, <3>5 DEF IInv
  <2> QED
    BY <2>1, <2>2
<1>5. CASE UNCHANGED vars
  BY <1>5 DEF IInv, TypeOK, IndexInv, vars
<1> QED
  BY <1>1, <1>2, <1>3, <1>4, <1>5 DEF Next

(***************************************************************************)
(* The fields of struct CircularBuffer keep their types, and every access  *)
(* buffer[...] is inside the client's array.                               *)
(***************************************************************************)
THEOREM TypeCorrect == Spec => []TypeOK
<1>1. IInv => TypeOK
  BY DEF IInv
<1> QED
  BY <1>1, InitIInv, NextIInv, PTL DEF Spec

(***************************************************************************)
(* Both indices stay inside the part of the array given to init, and the   *)
(* flag says "empty" only when they are equal.                             *)
(***************************************************************************)
THEOREM IndexCorrect == Spec => []IndexInv
<1>1. IInv => IndexInv
  BY DEF IInv
<1> QED
  BY <1>1, InitIInv, NextIInv, PTL DEF Spec

-----------------------------------------------------------------------------
(* One turn around the ring subtracts its size once. *)
LEMMA ModWrap ==
  ASSUME NEW n \in Nat \ {0}, NEW x \in 0 .. n - 1, NEW k \in 0 .. n
  PROVE  (x + k) % n = IF x + k < n THEN x + k ELSE x + k - n
<1>1. CASE x + k < n
  BY <1>1
<1>2. CASE ~(x + k < n)
  <2>1. x + k - n \in 0 .. n - 1 /\ x + k = n * 1 + (x + k - n)
    BY <1>2
  <2> QED
    BY <1>2, <2>1
<1> QED
  BY <1>1, <1>2

(* The invariant of a ring in use, in plain form. *)
InUse ==
  /\ buffer \in [Slot -> Byte]
  /\ buffer_max_size \in Nat \ {0} /\ buffer_max_size <= MaxSize
  /\ read_index \in 0 .. buffer_max_size - 1
  /\ write_index \in 0 .. buffer_max_size - 1
  /\ buffer_is_empty \in BOOLEAN
  /\ buffer_is_empty => read_index = write_index

(* It follows from IInv. *)
LEMMA InUseHolds == IInv /\ buffer_max_size # 0 => InUse
  BY MaxSizeAssumption DEF IInv, TypeOK, IndexInv, InUse, Slot

(* get_count is at most the ring size, and its bytes end where the next    *)
(* push writes.                                                            *)
LEMMA CountFacts ==
  ASSUME InUse
  PROVE  /\ circular_buffer_get_count \in 0 .. buffer_max_size
         /\ write_index = (read_index + circular_buffer_get_count) % buffer_max_size
         /\ Overwrites <=> circular_buffer_get_count = buffer_max_size
<1>1. circular_buffer_get_count \in 0 .. buffer_max_size
  BY DEF InUse, circular_buffer_get_count
<1>2. Overwrites <=> circular_buffer_get_count = buffer_max_size
  BY DEF InUse, circular_buffer_get_count, Overwrites
<1>3. write_index = IF read_index + circular_buffer_get_count < buffer_max_size
                      THEN read_index + circular_buffer_get_count
                      ELSE read_index + circular_buffer_get_count - buffer_max_size
  BY DEF InUse, circular_buffer_get_count
<1> QED
  BY <1>1, <1>2, <1>3, ModWrap DEF InUse

(* Contents is a sequence of get_count bytes. *)
ContentsShape ==
  /\ Contents \in Seq(Byte)
  /\ Len(Contents) = circular_buffer_get_count
  /\ \A i \in 1 .. circular_buffer_get_count :
       Contents[i] = buffer[(read_index + (i - 1)) % buffer_max_size]

(* It has that shape in every ring in use. *)
LEMMA ContentsFacts == InUse => ContentsShape
<1> SUFFICES ASSUME InUse PROVE ContentsShape
  OBVIOUS
<1> DEFINE n == circular_buffer_get_count
<1>1. n \in Nat /\ n <= buffer_max_size
  BY CountFacts DEF InUse
<1>2. \A i \in 1 .. n : (read_index + (i - 1)) % buffer_max_size \in Slot
  <2> SUFFICES ASSUME NEW i \in 1 .. n
               PROVE  (read_index + (i - 1)) % buffer_max_size \in Slot
    OBVIOUS
  <2>1. i - 1 \in 0 .. buffer_max_size
    BY <1>1 DEF InUse
  <2> QED
    BY <2>1, ModWrap, MaxSizeAssumption DEF InUse, Slot
<1>3. Contents \in [1 .. n -> Byte]
  BY <1>2 DEF Contents, InUse
<1> QED
  BY <1>1, <1>3 DEF ContentsShape, Contents

(* A push on a ring with room appends the byte. *)
LEMMA PushAppends ==
  ASSUME InUse, InUse', ~Overwrites, NEW b \in Byte,
         buffer' = [buffer EXCEPT ![write_index] = b],
         read_index' = read_index, write_index' = Advance(write_index),
         ~buffer_is_empty', buffer_max_size' = buffer_max_size
  PROVE  Contents' = Append(Contents, b)
<1> DEFINE n == circular_buffer_get_count
<1>1. n \in 0 .. buffer_max_size - 1
  BY CountFacts DEF InUse
<1>2. Advance(write_index) = IF write_index = buffer_max_size - 1
                               THEN 0 ELSE write_index + 1
  BY ModStep DEF InUse, Advance
<1>3. circular_buffer_get_count' = n + 1
  BY <1>2 DEF InUse, Overwrites, circular_buffer_get_count
<1>4. /\ Contents' \in Seq(Byte)
      /\ Len(Contents') = n + 1
      /\ \A i \in 1 .. n + 1 :
           Contents'[i] = buffer'[(read_index + (i - 1)) % buffer_max_size]
  <2>1. ContentsShape'
    BY ContentsFacts, PTL
  <2> QED
    BY <1>3, <2>1 DEF ContentsShape
<1>5. /\ Append(Contents, b) \in Seq(Byte)
      /\ Len(Append(Contents, b)) = n + 1
      /\ \A i \in 1 .. n : Append(Contents, b)[i]
                             = buffer[(read_index + (i - 1)) % buffer_max_size]
      /\ Append(Contents, b)[n + 1] = b
  BY ContentsFacts, AppendProperties DEF ContentsShape
<1>6. write_index = (read_index + n) % buffer_max_size
  BY CountFacts
<1>7. ASSUME NEW i \in 1 .. n + 1
      PROVE  Contents'[i] = Append(Contents, b)[i]
  <2> DEFINE p == (read_index + (i - 1)) % buffer_max_size
  <2>1. i - 1 \in 0 .. buffer_max_size /\ n \in 0 .. buffer_max_size
    BY <1>1 DEF InUse
  <2>2. p = IF read_index + (i - 1) < buffer_max_size
              THEN read_index + (i - 1)
              ELSE read_index + (i - 1) - buffer_max_size
    BY <2>1, ModWrap DEF InUse
  <2>3. write_index = IF read_index + n < buffer_max_size
                        THEN read_index + n ELSE read_index + n - buffer_max_size
    BY <1>6, <2>1, ModWrap DEF InUse
  <2>4. p \in Slot /\ write_index \in Slot
    BY <2>1, <2>2, MaxSizeAssumption DEF InUse, Slot
  <2>5. p = write_index <=> i = n + 1
    BY <1>1, <2>1, <2>2, <2>3 DEF InUse
  <2>6. buffer'[p] = IF i = n + 1 THEN b ELSE buffer[p]
    BY <2>4, <2>5 DEF InUse
  <2> HIDE DEF n
  <2> QED
    BY <1>1, <1>4, <1>5, <2>6
<1> HIDE DEF n
<1> QED
  BY <1>4, <1>5, <1>7, SeqEqual

(* A push on a full ring drops the oldest byte and appends the new one. *)
LEMMA PushOverwrites ==
  ASSUME InUse, InUse', Overwrites, NEW b \in Byte,
         buffer' = [buffer EXCEPT ![write_index] = b],
         read_index' = Advance(read_index), write_index' = Advance(write_index),
         ~buffer_is_empty', buffer_max_size' = buffer_max_size
  PROVE  Contents' = Append(Tail(Contents), b)
<1> DEFINE n == buffer_max_size
<1>1. n \in Nat \ {0} /\ circular_buffer_get_count = n /\ write_index = read_index
  BY CountFacts DEF InUse, Overwrites
<1>2. circular_buffer_get_count' = n
  BY <1>1 DEF InUse, circular_buffer_get_count
<1>3. /\ Contents' \in Seq(Byte)
      /\ Len(Contents') = n
      /\ \A i \in 1 .. n : Contents'[i] = buffer'[(read_index' + (i - 1)) % n]
  <2>1. ContentsShape'
    BY ContentsFacts, PTL
  <2> QED
    BY <1>2, <2>1 DEF ContentsShape
<1>4. /\ Contents \in Seq(Byte) /\ Len(Contents) = n
      /\ \A i \in 1 .. n : Contents[i] = buffer[(read_index + (i - 1)) % n]
  BY <1>1, ContentsFacts DEF ContentsShape
<1>5. /\ Tail(Contents) \in Seq(Byte) /\ Len(Tail(Contents)) = n - 1
      /\ \A i \in 1 .. n - 1 : Tail(Contents)[i] = Contents[i + 1]
  <2>1. Contents # <<>>
    BY <1>1, <1>4, EmptySeq
  <2> QED
    BY <1>4, <2>1, HeadTailProperties
<1>6. /\ Append(Tail(Contents), b) \in Seq(Byte)
      /\ Len(Append(Tail(Contents), b)) = n
      /\ \A i \in 1 .. n - 1 : Append(Tail(Contents), b)[i] = Contents[i + 1]
      /\ Append(Tail(Contents), b)[n] = b
  <2>1. /\ Append(Tail(Contents), b) \in Seq(Byte)
        /\ Len(Append(Tail(Contents), b)) = Len(Tail(Contents)) + 1
        /\ \A i \in 1 .. Len(Tail(Contents)) :
             Append(Tail(Contents), b)[i] = Tail(Contents)[i]
        /\ Append(Tail(Contents), b)[Len(Tail(Contents)) + 1] = b
    BY <1>5, AppendProperties
  <2> QED
    BY <1>1, <1>5, <2>1
<1>7. ASSUME NEW i \in 1 .. n
      PROVE  Contents'[i] = Append(Tail(Contents), b)[i]
  <2> DEFINE p == (read_index' + (i - 1)) % n
  <2>1. i - 1 \in 0 .. n /\ i \in 0 .. n /\ read_index \in 0 .. n - 1
    BY <1>1 DEF InUse
  <2>2. /\ read_index' = IF read_index = n - 1 THEN 0 ELSE read_index + 1
        /\ read_index' \in 0 .. n - 1
    BY <1>1, <2>1, ModStep DEF Advance
  <2>3. p = IF read_index' + (i - 1) < n THEN read_index' + (i - 1)
                                         ELSE read_index' + (i - 1) - n
    BY <1>1, <2>1, <2>2, ModWrap
  <2>4. (read_index + i) % n = IF read_index + i < n THEN read_index + i
                                                     ELSE read_index + i - n
    BY <1>1, <2>1, ModWrap
  <2>5. /\ p = (read_index + i) % n
        /\ p \in Slot /\ write_index \in Slot
        /\ p = write_index <=> i = n
    <3>1. p = (read_index + i) % n
      BY <1>1, <2>1, <2>2, <2>3, <2>4
    <3>2. p \in 0 .. n - 1 /\ (p = write_index <=> i = n)
      BY <1>1, <2>1, <2>2, <2>3
    <3> QED
      BY <1>1, <2>1, <3>1, <3>2, MaxSizeAssumption DEF InUse, Slot
  <2>6. buffer'[p] = IF i = n THEN b ELSE buffer[(read_index + i) % n]
    BY <2>5 DEF InUse
  <2>7. i # n => Contents[i + 1] = buffer[(read_index + i) % n]
    <3>1. i # n => i + 1 \in 1 .. n /\ (i + 1) - 1 = i
      BY <1>1
    <3> QED
      BY <1>4, <3>1
  <2> HIDE DEF n
  <2> QED
    BY <1>1, <1>3, <1>6, <2>6, <2>7
<1> HIDE DEF n
<1> QED
  BY <1>3, <1>6, <1>7, SeqEqual

(* A pop takes the first byte off. *)
LEMMA PopTakesHead ==
  ASSUME InUse, InUse', circular_buffer_get_count # 0,
         read_index' = Advance(read_index),
         buffer_is_empty' <=> read_index' = write_index,
         UNCHANGED <<buffer, buffer_max_size, write_index>>
  PROVE  /\ Contents # <<>>
         /\ buffer[read_index] = Head(Contents)
         /\ Contents' = Tail(Contents)
<1> DEFINE n == circular_buffer_get_count
<1>1. n \in 1 .. buffer_max_size
  BY CountFacts DEF InUse
<1>2. read_index' = IF read_index = buffer_max_size - 1
                      THEN 0 ELSE read_index + 1
  BY ModStep DEF InUse, Advance
<1>3. circular_buffer_get_count' = n - 1
  BY <1>2 DEF InUse, circular_buffer_get_count
<1>4. /\ Contents \in Seq(Byte) /\ Len(Contents) = n
      /\ \A i \in 1 .. n :
           Contents[i] = buffer[(read_index + (i - 1)) % buffer_max_size]
  BY ContentsFacts DEF ContentsShape
<1>5. Contents # <<>>
  BY <1>1, <1>4, EmptySeq
<1>6. buffer[read_index] = Head(Contents)
  <2>1. Head(Contents) = Contents[1]
    BY <1>4, <1>5
  <2>2. (read_index + (1 - 1)) % buffer_max_size = read_index
    BY DEF InUse
  <2> QED
    BY <1>1, <1>4, <2>1, <2>2
<1>7. /\ Contents' \in Seq(Byte)
      /\ Len(Contents') = n - 1
      /\ \A i \in 1 .. n - 1 :
           Contents'[i] = buffer[(read_index' + (i - 1)) % buffer_max_size]
  <2>1. ContentsShape'
    BY ContentsFacts, PTL
  <2> QED
    BY <1>3, <2>1 DEF ContentsShape
<1>8. /\ Tail(Contents) \in Seq(Byte) /\ Len(Tail(Contents)) = n - 1
      /\ \A i \in 1 .. n - 1 : Tail(Contents)[i] = Contents[i + 1]
  BY <1>4, <1>5, HeadTailProperties
<1>9. ASSUME NEW i \in 1 .. n - 1
      PROVE  Contents'[i] = Tail(Contents)[i]
  <2>1. /\ i - 1 \in 0 .. buffer_max_size /\ i \in 0 .. buffer_max_size
        /\ i + 1 \in 1 .. n /\ (i + 1) - 1 = i
    BY <1>1 DEF InUse
  <2>2. (read_index' + (i - 1)) % buffer_max_size
          = (read_index + i) % buffer_max_size
    <3>1. (read_index' + (i - 1)) % buffer_max_size
            = IF read_index' + (i - 1) < buffer_max_size
                THEN read_index' + (i - 1)
                ELSE read_index' + (i - 1) - buffer_max_size
      BY <1>2, <2>1, ModWrap DEF InUse
    <3>2. (read_index + i) % buffer_max_size
            = IF read_index + i < buffer_max_size
                THEN read_index + i ELSE read_index + i - buffer_max_size
      BY <2>1, ModWrap DEF InUse
    <3> QED
      BY <1>1, <1>2, <2>1, <3>1, <3>2 DEF InUse
  <2>3. Contents'[i] = buffer[(read_index' + (i - 1)) % buffer_max_size]
    BY <1>7, Zenon
  <2>4. Tail(Contents)[i] = Contents[i + 1]
    BY <1>8, Zenon
  <2>5. Contents[i + 1] = buffer[(read_index + ((i + 1) - 1)) % buffer_max_size]
    BY <1>4, <2>1, Zenon
  <2> QED
    BY <2>1, <2>2, <2>3, <2>4, <2>5, Zenon
<1> HIDE DEF n
<1> QED
  BY <1>5, <1>6, <1>7, <1>8, <1>9, SeqEqual

(* The deinitialised ring is the empty FIFO of capacity 0. *)
LEMMA InitRefines == Init => Fifo!Init
<1> SUFFICES ASSUME Init PROVE Fifo!Init
  OBVIOUS
<1>1. circular_buffer_get_count = 0
  BY DEF Init, circular_buffer_get_count
<1>2. Contents = <<>>
  BY <1>1 DEF Contents
<1> QED
  BY <1>2 DEF Init, Fifo!Init, Fifo!ERR_NONE

(* Every call of the ring is the FIFO's operation of the same name. *)
LEMMA NextRefines == IInv /\ IInv' /\ [Next]_vars => [Fifo!Next]_Fifo!vars
<1> SUFFICES ASSUME IInv, IInv', [Next]_vars PROVE [Fifo!Next]_Fifo!vars
  OBVIOUS
<1> USE DEF Fifo!ERR_NONE, Fifo!ERR_NO_MEM, Fifo!ERR_INVALID_ARG, Fifo!ERR_EMPTY
<1>e. circular_buffer_get_count = 0 <=> Contents = <<>>
  <2>1. CASE buffer_max_size = 0
    <3>1. circular_buffer_get_count = 0
      BY <2>1 DEF IInv, IndexInv, circular_buffer_get_count
    <3> QED
      BY <3>1 DEF Contents
  <2>2. CASE buffer_max_size # 0
    <3>1. ContentsShape /\ circular_buffer_get_count \in Nat
      BY <2>2, InUseHolds, ContentsFacts, CountFacts DEF InUse
    <3> QED
      BY <3>1, EmptySeq DEF ContentsShape
  <2> QED
    BY <2>1, <2>2
<1>1. ASSUME NEW n \in 0 .. MaxSize, circular_buffer_init(n)
      PROVE  Fifo!Accept(n) \/ Fifo!Reject(n)
  <2>1. CASE n = 0
    <3>1. UNCHANGED <<buffer, buffer_max_size, indices, out>>
          /\ ret' = ERR_INVALID_ARG
      BY <1>1, <2>1 DEF circular_buffer_init, ValidConfig
    <3>2. Contents' = Contents
      BY <3>1 DEF Contents, circular_buffer_get_count, indices
    <3> QED
      BY <2>1, <3>1, <3>2 DEF Fifo!Reject
  <2>2. CASE n # 0
    <3>1. /\ read_index' = 0 /\ write_index' = 0 /\ buffer_is_empty'
          /\ buffer_max_size' = n /\ ret' = ERR_NONE /\ out' = out
      BY <1>1, <2>2 DEF circular_buffer_init, ValidConfig
    <3>2. circular_buffer_get_count' = 0
      BY <3>1 DEF circular_buffer_get_count
    <3>3. Contents' = <<>>
      BY <3>2 DEF Contents
    <3> QED
      BY <2>2, <3>1, <3>3, MaxSizeAssumption DEF Fifo!Accept
  <2> QED
    BY <2>1, <2>2
<1>2. ASSUME circular_buffer_deinit PROVE Fifo!Deinit
  <2>1. circular_buffer_get_count' = 0
    BY <1>2 DEF circular_buffer_deinit, circular_buffer_get_count
  <2>2. Contents' = <<>>
    BY <2>1 DEF Contents
  <2> QED
    BY <1>2, <2>2 DEF circular_buffer_deinit, Fifo!Deinit
<1>3. ASSUME NEW b \in Byte, circular_buffer_push_byte(b)
      PROVE  Fifo!Push(b) \/ Fifo!PushRefused
  <2>1. CASE buffer_max_size = 0
    <3>1. Contents' = Contents
      BY <1>3, <2>1
      DEF circular_buffer_push_byte, Contents, circular_buffer_get_count, indices
    <3> QED
      BY <1>3, <2>1, <3>1 DEF circular_buffer_push_byte, Fifo!PushRefused
  <2>2. CASE buffer_max_size # 0
    <3>1. /\ buffer' = [buffer EXCEPT ![write_index] = b]
          /\ read_index' = IF Overwrites THEN Advance(read_index) ELSE read_index
          /\ write_index' = Advance(write_index)
          /\ ~buffer_is_empty'
          /\ ret' = ERR_NONE
          /\ UNCHANGED <<buffer_max_size, out>>
      BY <1>3, <2>2 DEF circular_buffer_push_byte
    <3>2. InUse
      BY <2>2, InUseHolds
    <3>3. InUse'
      BY <2>2, <3>1, MaxSizeAssumption DEF IInv, TypeOK, IndexInv, InUse, Slot
    <3>4. Len(Contents) = circular_buffer_get_count
      BY <3>2, ContentsFacts DEF ContentsShape
    <3>5. CASE Overwrites
      <4>1. Contents' = Append(Tail(Contents), b)
        BY <3>1, <3>2, <3>3, <3>5, PushOverwrites
      <4>2. Len(Contents) = buffer_max_size
        BY <3>2, <3>4, <3>5, CountFacts
      <4> QED
        BY <2>2, <3>1, <4>1, <4>2 DEF Fifo!Push
    <3>6. CASE ~Overwrites
      <4>1. Contents' = Append(Contents, b)
        BY <3>1, <3>2, <3>3, <3>6, PushAppends
      <4>2. Len(Contents) # buffer_max_size
        BY <3>2, <3>4, <3>6, CountFacts
      <4> QED
        BY <2>2, <3>1, <4>1, <4>2 DEF Fifo!Push
    <3> QED
      BY <3>5, <3>6
  <2> QED
    BY <2>1, <2>2
<1>4. ASSUME circular_buffer_pop_byte PROVE Fifo!Pop \/ Fifo!PopRefused
  <2>1. CASE circular_buffer_get_count = 0
    <3>1. Contents' = Contents
      BY <1>4, <2>1
      DEF circular_buffer_pop_byte, Contents, circular_buffer_get_count, indices
    <3> QED
      BY <1>4, <1>e, <2>1, <3>1 DEF circular_buffer_pop_byte, Fifo!PopRefused
  <2>2. CASE circular_buffer_get_count # 0
    <3>1. /\ out' = buffer[read_index]
          /\ read_index' = Advance(read_index)
          /\ ret' = ERR_NONE
          /\ UNCHANGED <<buffer, buffer_max_size, write_index>>
      BY <1>4, <2>2 DEF circular_buffer_pop_byte
    <3>2. buffer_is_empty' <=> read_index' = write_index
      BY <1>4, <2>2, Zenon DEF circular_buffer_pop_byte
    <3>3. InUse
      BY <2>2, InUseHolds DEF IInv, IndexInv, circular_buffer_get_count
    <3>4. InUse'
      <4>1. (buffer_max_size # 0)'
        BY <3>1, <3>3 DEF InUse
      <4> QED
        BY <4>1, InUseHolds, PTL
    <3>5. /\ Contents # <<>>
          /\ buffer[read_index] = Head(Contents)
          /\ Contents' = Tail(Contents)
      BY <2>2, <3>1, <3>2, <3>3, <3>4, PopTakesHead
    <3> QED
      BY <3>1, <3>5 DEF Fifo!Pop
  <2> QED
    BY <2>1, <2>2
<1>5. ASSUME UNCHANGED vars PROVE UNCHANGED Fifo!vars
  BY <1>5 DEF vars, Fifo!vars, Contents, circular_buffer_get_count
<1> QED
  BY <1>1, <1>2, <1>3, <1>4, <1>5 DEF Next, Fifo!Next

(***************************************************************************)
(* circular_buffer.c implements the overwriting FIFO: for every array size *)
(* and every sequence of calls, each pop returns the oldest byte that has  *)
(* not been popped or overwritten, and each code is the FIFO's.            *)
(***************************************************************************)
THEOREM RingImplementsFifo == Spec => ImplementsFifo
<1>1. Spec => []IInv
  BY InitIInv, NextIInv, PTL DEF Spec
<1> QED
  BY <1>1, InitRefines, NextRefines, PTL DEF Spec, ImplementsFifo, Fifo!Spec

-----------------------------------------------------------------------------
(* The theorems about the other containers, for their places in Containers. *)
FastP == INSTANCE FastCircularBuffer_proofs
           WITH MaxSize <- FastMaxSize, buffer <- fast_buffer,
                 read_index <- fast_read_index, write_index <- fast_write_index,
                 out <- fast_out, ret <- fast_ret

QueueP == INSTANCE CopyQueue_proofs
           WITH out <- queue_out, ret <- queue_ret

HeapP == INSTANCE BoundedHeap_proofs
           WITH Rank <- HeapRank, MaxCount <- HeapSize,
                 out <- heap_out, ret <- heap_ret

(* A behaviour of Containers is one of the fast ring on its own. *)
LEMMA FastAlone == FastP!FastConstants /\ (ContainersSpec => FastP!Spec)
<1>1. FastP!FastConstants
  BY ContainersAssumption DEF Fast!FastConstants, Fast!IsPowerOf2,
                              FastP!FastConstants, FastP!IsPowerOf2
<1>2. Fast!Init => FastP!Init
  BY DEF Fast!Init, Fast!Slot, Fast!ERR_NONE, FastP!Init, FastP!Slot, FastP!ERR_NONE
<1>3. Fast!Next => FastP!Next
  BY DEF Fast!Next, Fast!Add, Fast!Sub, Fast!Masked, Fast!IsPowerOf2,
         Fast!fast_circular_buffer_get_count, Fast!ValidConfig,
         Fast!fast_circular_buffer_init, Fast!fast_circular_buffer_deinit,
         Fast!Overwrites, Fast!fast_circular_buffer_push_byte,
         Fast!fast_circular_buffer_pop_byte, Fast!ERR_NONE, Fast!ERR_NO_MEM,
         Fast!ERR_EMPTY, Fast!ERR_INVALID_ARG, FastP!Next, FastP!Add, FastP!Sub,
         FastP!Masked, FastP!IsPowerOf2, FastP!fast_circular_buffer_get_count,
         FastP!ValidConfig, FastP!fast_circular_buffer_init,
         FastP!fast_circular_buffer_deinit, FastP!Overwrites,
         FastP!fast_circular_buffer_push_byte, FastP!fast_circular_buffer_pop_byte,
         FastP!ERR_NONE, FastP!ERR_NO_MEM, FastP!ERR_EMPTY, FastP!ERR_INVALID_ARG
<1>4. ContainersInit => FastP!Init
  BY <1>2 DEF ContainersInit
<1>5. [ContainersNext]_all => [FastP!Next]_FastP!vars
  BY <1>3 DEF ContainersNext, all, fast, FastP!vars
<1> QED
  BY <1>1, <1>4, <1>5, PTL DEF ContainersSpec, FastP!Spec

(* A behaviour of Containers is one of the copy queue on its own. *)
LEMMA QueueAlone == QueueP!QueueConstants /\ (ContainersSpec => QueueP!Spec)
<1>1. QueueP!QueueConstants
  BY ContainersAssumption DEF Queue!QueueConstants, QueueP!QueueConstants
<1>2. Queue!Init => QueueP!Init
  BY DEF Queue!Init, Queue!Offset, Queue!ERR_NONE, QueueP!Init, QueueP!Offset,
         QueueP!ERR_NONE
<1>3. Queue!Next => QueueP!Next
  BY DEF Queue!Next, Queue!copy_queue_get_remaining, Queue!copy_queue_get_size,
         Queue!ValidConfig, Queue!Refused, Queue!copy_queue_init,
         Queue!copy_queue_deinit, Queue!copy_queue_enqueue, Queue!copy_queue_dequeue,
         Queue!copy_queue_peek, Queue!WithinLaps, Queue!ERR_NONE, Queue!ERR_NO_MEM,
         Queue!ERR_EMPTY, Queue!ERR_INVALID_ARG, QueueP!Next,
         QueueP!copy_queue_get_remaining, QueueP!copy_queue_get_size,
         QueueP!ValidConfig, QueueP!Refused, QueueP!copy_queue_init,
         QueueP!copy_queue_deinit, QueueP!copy_queue_enqueue,
         QueueP!copy_queue_dequeue, QueueP!copy_queue_peek, QueueP!WithinLaps,
         QueueP!ERR_NONE, QueueP!ERR_NO_MEM, QueueP!ERR_EMPTY, QueueP!ERR_INVALID_ARG
<1>4. ContainersInit => QueueP!Init
  BY <1>2 DEF ContainersInit
<1>5. [ContainersNext]_all => [QueueP!Next]_QueueP!vars
  BY <1>3 DEF ContainersNext, all, queue, QueueP!vars
<1> QED
  BY <1>1, <1>4, <1>5, PTL DEF ContainersSpec, QueueP!Spec

(* A behaviour of Containers is one of the heap on its own. *)
LEMMA HeapAlone == HeapP!HeapConstants /\ (ContainersSpec => HeapP!Spec)
<1>1. HeapP!HeapConstants
  BY ContainersAssumption DEF Heap!HeapConstants, HeapP!HeapConstants
<1>2. Heap!Init => HeapP!Init
  BY DEF Heap!Init, Heap!Idle, Heap!Empty, Heap!ERR_NONE, HeapP!Init, HeapP!Idle,
         HeapP!Empty, HeapP!ERR_NONE
<1>3. Heap!Next => HeapP!Next
  BY DEF Heap!Next, Heap!InHeap, Heap!Idle, Heap!Empty,
         Heap!bounded_heap_get_index_of_parent,
         Heap!bounded_heap_get_index_of_left_child,
         Heap!bounded_heap_get_index_of_right_child, Heap!bounded_heap_get_size,
         Heap!bounded_heap_get_remaining, Heap!Swapped, Heap!compare, Heap!Refused,
         Heap!Continue, Heap!Return, Heap!bounded_heap_init, Heap!bounded_heap_deinit,
         Heap!bounded_heap_peek, Heap!bounded_heap_pop, Heap!SiftDown,
         Heap!bounded_heap_push, Heap!SiftUp, Heap!ERR_NONE, Heap!ERR_NO_MEM,
         Heap!ERR_EMPTY, Heap!ERR_INVALID_ARG, HeapP!Next, HeapP!InHeap, HeapP!Idle,
         HeapP!Empty, HeapP!bounded_heap_get_index_of_parent,
         HeapP!bounded_heap_get_index_of_left_child,
         HeapP!bounded_heap_get_index_of_right_child, HeapP!bounded_heap_get_size,
         HeapP!bounded_heap_get_remaining, HeapP!Swapped, HeapP!compare,
         HeapP!Refused, HeapP!Continue, HeapP!Return, HeapP!bounded_heap_init,
         HeapP!bounded_heap_deinit, HeapP!bounded_heap_peek, HeapP!bounded_heap_pop,
         HeapP!SiftDown, HeapP!bounded_heap_push, HeapP!SiftUp, HeapP!ERR_NONE,
         HeapP!ERR_NO_MEM, HeapP!ERR_EMPTY, HeapP!ERR_INVALID_ARG
<1>4. ContainersInit => HeapP!Init
  BY <1>2 DEF ContainersInit
<1>5. [ContainersNext]_all => [HeapP!Next]_HeapP!vars
  BY <1>3 DEF ContainersNext, all, heap, HeapP!vars
<1> QED
  BY <1>1, <1>4, <1>5, PTL DEF ContainersSpec, HeapP!Spec

-----------------------------------------------------------------------------
(***************************************************************************)
(* The pool over its pointer stack, for every buffer, every configuration, *)
(* every number of client pointers and every sequence of calls.            *)
(***************************************************************************)

(* Multiplication by a size is monotone, and strictly so by a positive one. *)
LEMMA TimesMonotone ==
  ASSUME NEW a \in Nat, NEW b \in Nat, NEW s \in Nat, a <= b
  PROVE  a * s \in Nat /\ a * s <= b * s
<1>1. (b - a) * s \in Nat /\ (b - a) * s = b * s - a * s
  OBVIOUS
<1> QED
  BY <1>1

(* A multiple of s leaves no remainder. *)
LEMMA TimesMod ==
  ASSUME NEW k \in Nat, NEW s \in Nat \ {0}
  PROVE  (k * s) % s = 0
  OBVIOUS

(* Multiples of s by different numbers are different. *)
LEMMA TimesDistinct ==
  ASSUME NEW a \in Nat, NEW b \in Nat, NEW s \in Nat \ {0}, a # b
  PROVE  a * s # b * s
  OBVIOUS

-----------------------------------------------------------------------------
FreeStack == free_stack.stack
MaxItems  == free_stack.max_item_count
Object    == Pool!Pointer \ {NULL}

(* p is the start of an object of the configured size inside the buffer. *)
InBuffer(p) == p % object_size = 0 /\ p + object_size <= BufferSize

(* What the calls of a careful client keep: the objects held and the       *)
(* objects free are different ones, all inside the buffer, and together as *)
(* many as the stack has entries.                                          *)
Careful ==
  /\ \A i, j \in 1 .. Len(FreeStack) : i # j => FreeStack[i] # FreeStack[j]
  /\ \A g, h \in Pool!Held : g # h => handle[g] # handle[h]
  /\ \A h \in Pool!Held, i \in 1 .. Len(FreeStack) : handle[h] # FreeStack[i]
  /\ \A i \in 1 .. Len(FreeStack) : InBuffer(FreeStack[i])
  /\ \A h \in Pool!Held : InBuffer(handle[h])
  /\ Pool!Initialised => MaxItems = object_count
  /\ Cardinality(Pool!Held) + Len(FreeStack) = MaxItems

PoolInv == Pool!TypeOK /\ Pool!StackInBounds /\ (client = "careful" => Careful)

USE DEF Pool!ERR_NONE, Pool!ERR_NO_MEM, Pool!ERR_INVALID_ARG, Pool!ERR_OUT_OF_BOUNDS

(* The numbers of TypeOK are naturals, and pointers have their kinds. *)
LEMMA PoolFacts ==
  ASSUME Pool!PoolConstants, Pool!TypeOK
  PROVE  /\ SizeMod \in Nat \ {0} /\ BufferSize \in Nat
         /\ MaxObjects \in Nat /\ MaxObjects < SizeMod
         /\ MaxObjectSize \in Nat /\ MaxObjectSize < SizeMod
         /\ FreeStack \in Seq(Object) /\ Len(FreeStack) \in Nat
         /\ MaxItems \in 0 .. MaxObjects
         /\ free_stack = [stack |-> FreeStack, max_item_count |-> MaxItems]
         /\ 0 .. SizeMod - 1 \subseteq Object /\ Foreign \in Object
         /\ NULL \in Pool!Pointer
<1>1. /\ SizeMod \in Nat \ {0} /\ BufferSize \in Nat
      /\ MaxObjects \in Nat /\ MaxObjects < SizeMod
      /\ MaxObjectSize \in Nat /\ MaxObjectSize < SizeMod
  BY DEF Pool!PoolConstants
<1>2. /\ FreeStack \in Seq(Object) /\ MaxItems \in 0 .. MaxObjects
      /\ free_stack = [stack |-> FreeStack, max_item_count |-> MaxItems]
  BY DEF Pool!TypeOK, FreeStack, MaxItems, Object
<1>3. Len(FreeStack) \in Nat
  BY <1>2, LenProperties
<1>4. /\ 0 .. SizeMod - 1 \subseteq Object /\ Foreign \in Object
      /\ NULL \in Pool!Pointer
  BY DEF Pool!PoolConstants, Object, Pool!Pointer
<1> QED
  BY <1>1, <1>2, <1>3, <1>4

(* Without pointers there is nothing held. *)
LEMMA NoHandlesHeld ==
  ASSUME handle = Pool!NoHandles
  PROVE  Pool!Held = {}
  BY DEF Pool!NoHandles, Pool!Held

(* The client holds finitely many objects. *)
LEMMA HeldFinite ==
  ASSUME Pool!PoolConstants
  PROVE  IsFiniteSet(Pool!Held) /\ Cardinality(Pool!Held) \in Nat
<1>1. Pool!Held \in SUBSET Handle
  BY DEF Pool!Held
<1>2. IsFiniteSet(Pool!Held)
  <2>1. IsFiniteSet(Handle)
    BY DEF Pool!PoolConstants, Pool!IsFiniteSet, IsFiniteSet
  <2> QED
    BY <1>1, <2>1, FS_Subset
<1> QED
  BY <1>2, FS_CardinalityType

(* A pool in zeroed memory, or after deinit, with no pointers held. *)
LEMMA EmptyCareful ==
  ASSUME Pool!PoolConstants
  PROVE  (free_stack = Pool!ptr_stack_deinit /\ handle = Pool!NoHandles) => Careful
<1> SUFFICES ASSUME free_stack = Pool!ptr_stack_deinit, handle = Pool!NoHandles PROVE Careful
  OBVIOUS
<1>1. FreeStack = <<>> /\ MaxItems = 0 /\ Len(FreeStack) = 0
  BY DEF Pool!ptr_stack_deinit, FreeStack, MaxItems
<1>2. Pool!Held = {} /\ Cardinality(Pool!Held) = 0
  BY NoHandlesHeld, FS_EmptySet
<1> QED
  BY <1>1, <1>2 DEF Careful, Pool!Initialised, MaxItems

(* The initial state. *)
LEMMA InitPoolInv ==
  ASSUME Pool!PoolConstants
  PROVE  Pool!Init => PoolInv
<1> SUFFICES ASSUME Pool!Init PROVE PoolInv
  OBVIOUS
<1>1. Pool!TypeOK
  <2>1. handle \in [Handle -> Pool!Pointer]
    BY DEF Pool!Init, Pool!NoHandles, Pool!Pointer
  <2>2. free_stack \in [stack : Seq(Pool!Pointer \ {NULL}), max_item_count : 0 .. MaxObjects]
    BY DEF Pool!Init, Pool!ptr_stack_deinit, Pool!PoolConstants
  <2> QED
    BY <2>1, <2>2 DEF Pool!Init, Pool!TypeOK, Pool!ErrorCode, Pool!PoolConstants
<1>2. Pool!StackInBounds
  BY DEF Pool!Init, Pool!StackInBounds, Pool!ptr_stack_deinit
<1>3. Careful
  BY EmptyCareful DEF Pool!Init
<1> QED
  BY <1>1, <1>2, <1>3 DEF PoolInv

-----------------------------------------------------------------------------
(* The objects of a configuration, as init pushes them. *)
LEMMA ObjectsFacts ==
  ASSUME Pool!PoolConstants, NEW n \in 0 .. MaxObjects, NEW s \in 0 .. MaxObjectSize
  PROVE  /\ Pool!Objects(n, s) \in Seq(Object)
         /\ Len(Pool!Objects(n, s)) = n
         /\ \A i \in 1 .. n : Pool!Objects(n, s)[i] = ((i - 1) * s) % SizeMod
<1>1. SizeMod \in Nat \ {0} /\ n \in Nat /\ s \in Nat
  BY DEF Pool!PoolConstants
<1>2. ASSUME NEW i \in 1 .. n PROVE ((i - 1) * s) % SizeMod \in 0 .. SizeMod - 1
  <2>1. (i - 1) * s \in Nat
    BY <1>1, TimesMonotone
  <2> QED
    BY <1>1, <2>1
<1>3. Pool!Objects(n, s) \in [1 .. n -> Object]
  BY <1>2 DEF Pool!Objects, Object, Pool!Pointer, Pool!PoolConstants
<1>4. Pool!Objects(n, s) \in Seq(Object) /\ Len(Pool!Objects(n, s)) = n
  BY <1>1, <1>3
<1> QED
  BY <1>4 DEF Pool!Objects

(* init leaves the stack of the configuration, or for no objects the old   *)
(* one.                                                                    *)
LEMMA FilledFacts ==
  ASSUME Pool!PoolConstants, Pool!TypeOK, NEW n \in 0 .. MaxObjects,
         NEW s \in 0 .. MaxObjectSize
  PROVE  Pool!Filled(n, s) = IF n = 0 THEN free_stack
                        ELSE [stack |-> Pool!Objects(n, s), max_item_count |-> n]
<1>1. Pool!Objects(n, s) \in Seq(Object) /\ Len(Pool!Objects(n, s)) = n
  BY ObjectsFacts
<1>2. CASE n = 0
  <2>1. Pool!Objects(n, s) = <<>>
    BY <1>1, <1>2, EmptySeq
  <2>2. FreeStack \o <<>> = FreeStack
    BY PoolFacts, ConcatEmptySeq
  <2> QED
    BY <1>2, <2>1, <2>2, PoolFacts DEF Pool!Filled, Pool!ptr_stack_init, FreeStack
<1>3. CASE n # 0
  <2>1. <<>> \o Pool!Objects(n, s) = Pool!Objects(n, s)
    BY <1>1, ConcatEmptySeq
  <2> QED
    BY <1>3, <2>1 DEF Pool!Filled, Pool!ptr_stack_init
<1> QED
  BY <1>2, <1>3

(* For a sensible configuration they are disjoint and inside the buffer. *)
LEMMA SensibleObjects ==
  ASSUME Pool!PoolConstants, NEW n \in 0 .. MaxObjects, NEW s \in 0 .. MaxObjectSize,
         Pool!Sensible(n, s), Pool!ValidConfig(n, s)
  PROVE  /\ \A i \in 1 .. n : /\ Pool!Objects(n, s)[i] % s = 0
                              /\ Pool!Objects(n, s)[i] + s <= BufferSize
         /\ \A i, j \in 1 .. n : i # j => Pool!Objects(n, s)[i] # Pool!Objects(n, s)[j]
<1>1. /\ SizeMod \in Nat \ {0} /\ n \in Nat /\ s \in Nat \ {0}
      /\ BufferSize \in Nat /\ n * s \in Nat /\ n * s < SizeMod
  BY TimesMonotone DEF Pool!PoolConstants, Pool!Sensible
<1>2. n * s <= BufferSize
  BY <1>1 DEF Pool!ValidConfig
<1>3. ASSUME NEW i \in 1 .. n
      PROVE  /\ Pool!Objects(n, s)[i] = (i - 1) * s
             /\ Pool!Objects(n, s)[i] + s <= BufferSize
  <2>1. i * s <= n * s /\ (i - 1) * s \in Nat /\ (i - 1) * s + s = i * s
    BY <1>1, TimesMonotone
  <2>2. (i - 1) * s < SizeMod
    BY <1>1, <2>1
  <2>3. ((i - 1) * s) % SizeMod = (i - 1) * s
    BY <1>1, <2>1, <2>2
  <2>4. Pool!Objects(n, s)[i] = ((i - 1) * s) % SizeMod
    BY ObjectsFacts
  <2>5. (i - 1) * s + s <= BufferSize
    BY <1>1, <1>2, <2>1
  <2> QED
    BY <2>3, <2>4, <2>5
<1>4. ASSUME NEW i \in 1 .. n PROVE Pool!Objects(n, s)[i] % s = 0
  BY <1>1, <1>3, TimesMod
<1>5. ASSUME NEW i \in 1 .. n, NEW j \in 1 .. n, i # j
      PROVE  Pool!Objects(n, s)[i] # Pool!Objects(n, s)[j]
  <2>1. i - 1 \in Nat /\ j - 1 \in Nat /\ i - 1 # j - 1
    BY <1>1, <1>5
  <2>2. (i - 1) * s # (j - 1) * s
    BY <1>1, <2>1, TimesDistinct
  <2> QED
    BY <1>3, <2>2
<1> QED
  BY <1>3, <1>4, <1>5

(* init *)
LEMMA InitKeeps ==
  ASSUME Pool!PoolConstants, PoolInv, NEW n \in 0 .. MaxObjects,
         NEW s \in 0 .. MaxObjectSize, Pool!static_pool_init(n, s), client' = client
  PROVE  PoolInv'
<1>1. CASE ~Pool!ValidConfig(n, s)
  BY <1>1 DEF Pool!static_pool_init, PoolInv, Pool!TypeOK, Pool!StackInBounds, Careful, InBuffer,
              FreeStack, MaxItems, Pool!Held, Pool!Initialised, Pool!ErrorCode
<1>2. CASE Pool!ValidConfig(n, s)
  <2>1. /\ object_count' = n /\ object_size' = s /\ pool_ret' = Pool!ERR_NONE
        /\ free_stack' = IF n = 0 THEN free_stack
                         ELSE [stack |-> Pool!Objects(n, s), max_item_count |-> n]
        /\ handle' = IF client = "careful" THEN Pool!NoHandles ELSE handle
    BY <1>2, FilledFacts DEF Pool!static_pool_init, Pool!Forget, PoolInv
  <2>2. Pool!Objects(n, s) \in Seq(Pool!Pointer \ {NULL}) /\ Len(Pool!Objects(n, s)) = n
    BY ObjectsFacts DEF Object
  <2>3. Pool!TypeOK'
    <3>1. handle' \in [Handle -> Pool!Pointer]
      BY <2>1, PoolFacts DEF Pool!NoHandles, PoolInv, Pool!TypeOK
    <3>2. free_stack' \in [stack : Seq(Pool!Pointer \ {NULL}), max_item_count : 0 .. MaxObjects]
      BY <2>1, <2>2 DEF PoolInv, Pool!TypeOK
    <3> QED
      BY <2>1, <3>1, <3>2 DEF PoolInv, Pool!TypeOK, Pool!ErrorCode
  <2>4. Pool!StackInBounds'
    <3>1. CASE n = 0
      BY <2>1, <3>1 DEF PoolInv, Pool!StackInBounds
    <3>2. CASE n # 0
      BY <2>1, <2>2, <3>2 DEF Pool!StackInBounds
    <3> QED
      BY <3>1, <3>2
  <2>5. ASSUME client = "careful" PROVE Careful'
    <3>1. Pool!Sensible(n, s)
      BY <2>5 DEF Pool!static_pool_init
    <3>2. FreeStack' = Pool!Objects(n, s) /\ MaxItems' = n
      BY <2>1, <3>1 DEF Pool!Sensible, FreeStack, MaxItems
    <3>3. Pool!Held' = {} /\ Cardinality(Pool!Held') = 0
      BY <2>1, <2>5, FS_EmptySet DEF Pool!NoHandles, Pool!Held
    <3>4. /\ \A i \in 1 .. n : InBuffer(FreeStack[i])'
          /\ \A i, j \in 1 .. n : i # j => FreeStack'[i] # FreeStack'[j]
      BY <1>2, <2>1, <3>1, <3>2, SensibleObjects DEF InBuffer
    <3> QED
      BY <2>1, <2>2, <3>2, <3>3, <3>4 DEF Careful
  <2> QED
    BY <2>3, <2>4, <2>5 DEF PoolInv
<1> QED
  BY <1>1, <1>2

(* deinit *)
LEMMA DeinitKeeps ==
  ASSUME Pool!PoolConstants, PoolInv, Pool!static_pool_deinit, client' = client
  PROVE  PoolInv'
<1>1. /\ UNCHANGED <<object_count, object_size, pool_ret>>
      /\ free_stack' = [stack |-> <<>>, max_item_count |-> 0]
      /\ handle' = IF client = "careful" THEN Pool!NoHandles ELSE handle
  BY DEF Pool!static_pool_deinit, Pool!ptr_stack_deinit, Pool!Forget
<1>2. Pool!TypeOK'
  <2>1. handle' \in [Handle -> Pool!Pointer]
    BY <1>1, PoolFacts DEF Pool!NoHandles, PoolInv, Pool!TypeOK
  <2>2. free_stack' \in [stack : Seq(Pool!Pointer \ {NULL}), max_item_count : 0 .. MaxObjects]
    BY <1>1, PoolFacts DEF PoolInv
  <2> QED
    BY <1>1, <2>1, <2>2 DEF PoolInv, Pool!TypeOK
<1>3. Pool!StackInBounds'
  BY <1>1 DEF Pool!StackInBounds
<1>4. ASSUME client = "careful" PROVE Careful'
  <2>1. ((free_stack = Pool!ptr_stack_deinit /\ handle = Pool!NoHandles) => Careful)'
    BY EmptyCareful, PTL
  <2>2. (free_stack = Pool!ptr_stack_deinit /\ handle = Pool!NoHandles)'
    BY <1>1, <1>4 DEF Pool!ptr_stack_deinit, Pool!NoHandles
  <2> QED
    BY <2>1, <2>2
<1> QED
  BY <1>2, <1>3, <1>4 DEF PoolInv

(* allocate: the object on top of the stack moves to the client's pointer. *)
LEMMA AllocateKeeps ==
  ASSUME Pool!PoolConstants, PoolInv, NEW h \in Handle,
         client = "careful" => handle[h] = NULL,
         Pool!i_pool_allocator_allocate(h), client' = client
  PROVE  PoolInv'
<1> USE DEF Pool!i_pool_allocator_allocate, Pool!Interface, Pool!static_pool_allocate
<1>1. CASE Pool!PopRefused(free_stack)
  BY <1>1 DEF PoolInv, Pool!TypeOK, Pool!StackInBounds, Careful, InBuffer,
              FreeStack, MaxItems, Pool!Held, Pool!Initialised, Pool!ErrorCode
<1>2. CASE ~Pool!PopRefused(free_stack)
  <2> DEFINE n == Len(FreeStack)
             p == FreeStack[n]
  <2>1. n \in Nat \ {0} /\ FreeStack \in Seq(Object) /\ p \in Object
    <3>1. n \in Nat /\ MaxItems \in Nat /\ FreeStack \in Seq(Object)
      BY PoolFacts DEF PoolInv
    <3>2. n # 0
      BY <1>2, <3>1 DEF Pool!PopRefused, Pool!ptr_stack_get_remaining_count, FreeStack, MaxItems
    <3> QED
      BY <3>1, <3>2, ElementOfSeq
  <2>2. /\ handle' = [handle EXCEPT ![h] = p]
        /\ free_stack' = [stack |-> SubSeq(FreeStack, 1, n - 1), max_item_count |-> MaxItems]
        /\ pool_ret' = Pool!ERR_NONE /\ UNCHANGED <<object_count, object_size>>
    BY <1>2, PoolFacts DEF PoolInv, Pool!Popped, Pool!AfterPop, FreeStack, MaxItems
  <2>3. /\ SubSeq(FreeStack, 1, n - 1) \in Seq(Object)
        /\ Len(SubSeq(FreeStack, 1, n - 1)) = n - 1
        /\ \A i \in 1 .. n - 1 : SubSeq(FreeStack, 1, n - 1)[i] = FreeStack[i]
    <3>1. \A i \in 1 .. n - 1 : FreeStack[i] \in Object
      BY <2>1, ElementOfSeq
    <3>2. /\ SubSeq(FreeStack, 1, n - 1) \in Seq(Object)
          /\ Len(SubSeq(FreeStack, 1, n - 1)) = IF 1 <= n - 1 THEN (n - 1) - 1 + 1 ELSE 0
          /\ \A i \in 1 .. (n - 1) - 1 + 1 : SubSeq(FreeStack, 1, n - 1)[i] = FreeStack[1 + i - 1]
      <4> HIDE DEF n
      <4> QED
        BY <2>1, <3>1, SubSeqProperties
    <3> HIDE DEF n
    <3> QED
      BY <2>1, <3>2
  <2>4. /\ FreeStack' \in Seq(Object) /\ Len(FreeStack') = n - 1 /\ MaxItems' = MaxItems
        /\ \A i \in 1 .. n - 1 : FreeStack'[i] = FreeStack[i]
    BY <2>2, <2>3 DEF FreeStack, MaxItems
  <2>5. Pool!TypeOK'
    <3>1. handle' \in [Handle -> Pool!Pointer]
      BY <2>1, <2>2 DEF PoolInv, Pool!TypeOK, Object
    <3>2. free_stack' \in [stack : Seq(Pool!Pointer \ {NULL}), max_item_count : 0 .. MaxObjects]
      BY <2>2, <2>3, PoolFacts DEF PoolInv, Object
    <3> QED
      BY <2>2, <3>1, <3>2 DEF PoolInv, Pool!TypeOK, Pool!ErrorCode
  <2>6. Pool!StackInBounds'
    BY <2>1, <2>4, PoolFacts DEF PoolInv, Pool!StackInBounds, FreeStack, MaxItems
  <2>7. ASSUME client = "careful" PROVE Careful'
    <3>1. Careful /\ h \notin Pool!Held
      BY <2>7 DEF PoolInv, Pool!Held
    <3>2. /\ Pool!Held' = Pool!Held \cup {h} /\ handle'[h] = p
          /\ \A g \in Pool!Held : handle'[g] = handle[g]
      BY <2>1, <2>2, <3>1 DEF PoolInv, Pool!TypeOK, Pool!Held, Object
    <3>3. Cardinality(Pool!Held') = Cardinality(Pool!Held) + 1 /\ Cardinality(Pool!Held) \in Nat
      BY <3>1, <3>2, HeldFinite, FS_AddElement
    <3>4. \A i \in 1 .. n - 1 : i \in 1 .. n /\ i # n
      BY <2>1
    <3>5. n \in 1 .. n
      BY <2>1
    <3> HIDE DEF n, p
    <3>6. \A i, j \in 1 .. n - 1 : i # j => FreeStack'[i] # FreeStack'[j]
      BY <2>4, <3>1, <3>4 DEF Careful, n
    <3>7. \A g, k \in Pool!Held' : g # k => handle'[g] # handle'[k]
      BY <3>1, <3>2, <3>5 DEF Careful, n, p
    <3>8. \A g \in Pool!Held', i \in 1 .. n - 1 : handle'[g] # FreeStack'[i]
      BY <2>4, <3>1, <3>2, <3>4, <3>5 DEF Careful, n, p
    <3>9. \A i \in 1 .. n - 1 : InBuffer(FreeStack[i])'
      BY <2>2, <2>4, <3>1, <3>4 DEF Careful, InBuffer, n
    <3>10. \A g \in Pool!Held' : InBuffer(handle[g])'
      BY <2>2, <3>1, <3>2, <3>5 DEF Careful, InBuffer, n, p
    <3>11. Pool!Initialised' => MaxItems' = object_count'
      BY <2>2, <2>4, <3>1 DEF Careful, Pool!Initialised, MaxItems
    <3>12. Cardinality(Pool!Held') + Len(FreeStack') = MaxItems'
      BY <2>1, <2>4, <3>1, <3>3 DEF Careful, n
    <3> QED
      BY <2>4, <3>6, <3>7, <3>8, <3>9, <3>10, <3>11, <3>12 DEF Careful
  <2> QED
    BY <2>5, <2>6, <2>7 DEF PoolInv
<1> QED
  BY <1>1, <1>2

(* deallocate: a careful client's object finds room on the stack, because  *)
(* the objects held and the objects free are as many as its entries.       *)
LEMMA DeallocateKeeps ==
  ASSUME Pool!PoolConstants, PoolInv, NEW h \in Handle,
         Pool!i_pool_allocator_deallocate(h), client' = client
  PROVE  PoolInv'
<1> USE DEF Pool!i_pool_allocator_deallocate, Pool!Interface, Pool!static_pool_deallocate
<1>1. CASE handle[h] = NULL
  BY <1>1 DEF PoolInv, Pool!TypeOK, Pool!StackInBounds, Careful, InBuffer,
              FreeStack, MaxItems, Pool!Held, Pool!Initialised, Pool!ErrorCode
<1>2. CASE handle[h] # NULL
  <2> DEFINE n == Len(FreeStack)
             p == handle[h]
  <2>1. /\ n \in Nat /\ MaxItems \in Nat /\ n <= MaxItems
        /\ FreeStack \in Seq(Object) /\ p \in Object
    BY <1>2, PoolFacts DEF PoolInv, Pool!TypeOK, Pool!StackInBounds, Object, FreeStack, MaxItems
  <2>2. /\ free_stack' = IF n = MaxItems THEN free_stack
                         ELSE [stack |-> Append(FreeStack, p), max_item_count |-> MaxItems]
        /\ handle' = [handle EXCEPT ![h] = NULL]
        /\ pool_ret' = Pool!ERR_NONE /\ UNCHANGED <<object_count, object_size>>
    <3>1. MaxItems - n = 0 <=> n = MaxItems
      BY <2>1
    <3>2. free_stack' = Pool!ptr_stack_push(free_stack, p)
      BY <1>2
    <3>3. free_stack' = IF n = MaxItems THEN free_stack
                         ELSE [free_stack EXCEPT !.stack = Append(@, p)]
      BY <3>1, <3>2 DEF Pool!ptr_stack_push, Pool!ptr_stack_get_remaining_count, FreeStack, MaxItems
    <3>4. [free_stack EXCEPT !.stack = Append(@, p)]
            = [stack |-> Append(FreeStack, p), max_item_count |-> MaxItems]
      <4>1. free_stack = [stack |-> FreeStack, max_item_count |-> MaxItems]
        BY PoolFacts DEF PoolInv
      <4> QED
        BY <4>1
    <3> QED
      BY <1>2, <3>3, <3>4
  <2>3. /\ Append(FreeStack, p) \in Seq(Object) /\ Len(Append(FreeStack, p)) = n + 1
        /\ \A i \in 1 .. n : Append(FreeStack, p)[i] = FreeStack[i]
        /\ Append(FreeStack, p)[n + 1] = p
    BY <2>1, AppendProperties
  <2>4. Pool!TypeOK'
    <3>1. handle' \in [Handle -> Pool!Pointer]
      BY <2>2, PoolFacts DEF PoolInv, Pool!TypeOK
    <3>2. free_stack' \in [stack : Seq(Pool!Pointer \ {NULL}), max_item_count : 0 .. MaxObjects]
      <4>1. MaxItems \in 0 .. MaxObjects
        BY PoolFacts DEF PoolInv
      <4> QED
        BY <2>2, <2>3, <4>1 DEF PoolInv, Pool!TypeOK, Object
    <3> QED
      BY <2>2, <3>1, <3>2 DEF PoolInv, Pool!TypeOK, Pool!ErrorCode
  <2>5. Pool!StackInBounds'
    BY <2>1, <2>2, <2>3 DEF PoolInv, Pool!StackInBounds
  <2>6. ASSUME client = "careful" PROVE Careful'
    <3>1. Careful /\ h \in Pool!Held
      BY <1>2, <2>6 DEF PoolInv, Pool!Held
    <3>2. Pool!Held' = Pool!Held \ {h} /\ \A g \in Pool!Held' : handle'[g] = handle[g] /\ g # h
      BY <2>2 DEF PoolInv, Pool!TypeOK, Pool!Held
    <3>3. /\ Cardinality(Pool!Held') = Cardinality(Pool!Held) - 1
          /\ Cardinality(Pool!Held) \in Nat \ {0}
      <4>1. IsFiniteSet(Pool!Held) /\ Cardinality(Pool!Held) \in Nat
        BY HeldFinite
      <4>2. Cardinality(Pool!Held) # 0
        BY <3>1, <4>1, FS_EmptySet
      <4> QED
        BY <3>1, <3>2, <4>1, <4>2, FS_RemoveElement
    <3>4. n # MaxItems
      BY <2>1, <3>1, <3>3 DEF Careful
    <3>5. /\ Len(FreeStack') = n + 1 /\ MaxItems' = MaxItems
          /\ \A i \in 1 .. n : FreeStack'[i] = FreeStack[i]
          /\ FreeStack'[n + 1] = p
      BY <2>2, <2>3, <3>4 DEF FreeStack, MaxItems
    <3>6. \A i \in 1 .. n + 1 : i \in 1 .. n \/ i = n + 1
      BY <2>1
    <3> HIDE DEF n, p
    <3>7. \A i, j \in 1 .. n + 1 : i # j => FreeStack'[i] # FreeStack'[j]
      BY <3>1, <3>5, <3>6 DEF Careful, n, p
    <3>8. \A g, k \in Pool!Held' : g # k => handle'[g] # handle'[k]
      BY <3>1, <3>2 DEF Careful
    <3>9. \A g \in Pool!Held', i \in 1 .. n + 1 : handle'[g] # FreeStack'[i]
      BY <3>1, <3>2, <3>5, <3>6 DEF Careful, n, p
    <3>10. \A i \in 1 .. n + 1 : InBuffer(FreeStack[i])'
      BY <2>2, <3>1, <3>5, <3>6 DEF Careful, InBuffer, n, p
    <3>11. \A g \in Pool!Held' : InBuffer(handle[g])'
      BY <2>2, <3>1, <3>2 DEF Careful, InBuffer
    <3>12. Pool!Initialised' => MaxItems' = object_count'
      BY <2>2, <3>1, <3>5 DEF Careful, Pool!Initialised, MaxItems
    <3>13. Cardinality(Pool!Held') + Len(FreeStack') = MaxItems'
      BY <2>1, <3>1, <3>3, <3>5 DEF Careful, n
    <3> QED
      BY <3>5, <3>7, <3>8, <3>9, <3>10, <3>11, <3>12, <3>13 DEF Careful
  <2> QED
    BY <2>4, <2>5, <2>6 DEF PoolInv
<1> QED
  BY <1>1, <1>2

(* Every step keeps the invariant. *)
LEMMA NextPoolInv ==
  ASSUME Pool!PoolConstants
  PROVE  PoolInv /\ [Pool!Next]_Pool!vars => PoolInv'
<1> SUFFICES ASSUME PoolInv, [Pool!Next]_Pool!vars PROVE PoolInv'
  OBVIOUS
<1>1. ASSUME NEW h \in Handle, Pool!ForgePointer(h), client' = client PROVE PoolInv'
  <2>1. handle' \in [Handle -> Pool!Pointer]
    BY <1>1 DEF Pool!ForgePointer, PoolInv, Pool!TypeOK, Pool!Pointer
  <2> QED
    BY <1>1, <2>1 DEF Pool!ForgePointer, PoolInv, Pool!TypeOK, Pool!StackInBounds
<1>2. ASSUME NEW h \in Handle, NEW g \in Handle, Pool!CopyPointer(g, h), client' = client
      PROVE  PoolInv'
  <2>1. handle' \in [Handle -> Pool!Pointer]
    BY <1>2 DEF Pool!CopyPointer, PoolInv, Pool!TypeOK
  <2> QED
    BY <1>2, <2>1 DEF Pool!CopyPointer, PoolInv, Pool!TypeOK, Pool!StackInBounds
<1>3. CASE UNCHANGED Pool!vars
  BY <1>3 DEF Pool!vars, PoolInv, Pool!TypeOK, Pool!StackInBounds, Careful, InBuffer,
              FreeStack, MaxItems, Pool!Held, Pool!Initialised
<1>4. CASE Pool!Next
  <2>1. client' = client
    BY <1>4 DEF Pool!Next
  <2>2. ASSUME NEW n \in 0 .. MaxObjects, NEW s \in 0 .. MaxObjectSize,
               Pool!static_pool_init(n, s)
        PROVE  PoolInv'
    BY <2>1, <2>2, InitKeeps
  <2>3. ASSUME Pool!static_pool_deinit PROVE PoolInv'
    BY <2>1, <2>3, DeinitKeeps
  <2>4. ASSUME NEW h \in Handle, client = "careful" => handle[h] = NULL,
               Pool!i_pool_allocator_allocate(h)
        PROVE  PoolInv'
    BY <2>1, <2>4, AllocateKeeps
  <2>5. ASSUME NEW h \in Handle, Pool!i_pool_allocator_deallocate(h) PROVE PoolInv'
    BY <2>1, <2>5, DeallocateKeeps
  <2> QED
    BY <1>1, <1>2, <1>4, <2>1, <2>2, <2>3, <2>4, <2>5 DEF Pool!Next
<1> QED
  BY <1>3, <1>4

(* A behaviour of Containers keeps the pool's invariant. *)
LEMMA PoolInductive == ContainersSpec => []PoolInv
<1>1. ContainersInit => PoolInv
  BY ContainersAssumption, InitPoolInv DEF ContainersInit
<1>2. [ContainersNext]_all => [Pool!Next]_Pool!vars
  BY DEF ContainersNext, all, pool, Pool!vars
<1>3. PoolInv /\ [ContainersNext]_all => PoolInv'
  <2>1. PoolInv /\ [Pool!Next]_Pool!vars => PoolInv'
    BY ContainersAssumption, NextPoolInv
  <2> QED
    BY <1>2, <2>1
<1> QED
  BY <1>1, <1>3, PTL DEF ContainersSpec

(* The cardinality of FiniteSets is the pool's. *)
LEMMA PoolCardinality ==
  ASSUME NEW S
  PROVE  Pool!Cardinality(S) = Cardinality(S)
  BY DEF Pool!Cardinality, Cardinality

(* Stack entries that differ are as many objects as entries. *)
LEMMA FreeCount ==
  ASSUME Pool!PoolConstants, Pool!TypeOK,
         \A i, j \in 1 .. Len(FreeStack) : i # j => FreeStack[i] # FreeStack[j]
  PROVE  Cardinality(Pool!Free) = Len(FreeStack)
<1>1. /\ FreeStack \in Seq(Object) /\ Len(FreeStack) \in Nat
      /\ DOMAIN FreeStack = 1 .. Len(FreeStack)
  BY PoolFacts, LenProperties
<1>2. FreeStack \in [1 .. Len(FreeStack) -> Pool!Free]
  BY <1>1 DEF Pool!Free, FreeStack
<1>3. FreeStack \in Bijection(1 .. Len(FreeStack), Pool!Free)
  <2>1. FreeStack \in Injection(1 .. Len(FreeStack), Pool!Free)
    BY <1>1, <1>2 DEF Injection, IsInjective
  <2>2. FreeStack \in Surjection(1 .. Len(FreeStack), Pool!Free)
    BY <1>1, <1>2 DEF Surjection, Pool!Free, FreeStack
  <2> QED
    BY <2>1, <2>2 DEF Bijection
<1>4. ExistsBijection(1 .. Len(FreeStack), Pool!Free)
  BY <1>3 DEF ExistsBijection
<1>5. IsFiniteSet(1 .. Len(FreeStack)) /\ Cardinality(1 .. Len(FreeStack)) = Len(FreeStack)
  BY <1>1, FS_Interval
<1> QED
  BY <1>4, <1>5, FS_Bijection

-----------------------------------------------------------------------------
(***************************************************************************)
(* The indices, counters, offsets and pointers of every container stay in  *)
(* their ranges, whichever is driven: fast_circular_buffer.c,              *)
(* copy_queue.c, bounded_heap.c in the middle of a sift too, and           *)
(* static_pool.c for any client.                                           *)
(***************************************************************************)
THEOREM ContainersTypeCorrect == ContainersSpec => []OthersTypeOK
<1>1. FastP!TypeOK => Fast!TypeOK
  BY DEF Fast!TypeOK, Fast!Slot, Fast!ERR_NONE, Fast!ERR_NOT_INITIALISED,
         Fast!ERR_NO_MEM, Fast!ERR_INVALID_ARG, Fast!ERR_TIMEOUT,
         Fast!ERR_OUT_OF_BOUNDS, Fast!ERR_NOOP, Fast!ERR_INCOMPLETE, Fast!ERR_EMPTY,
         Fast!ErrorCode, FastP!TypeOK, FastP!Slot, FastP!ERR_NONE,
         FastP!ERR_NOT_INITIALISED, FastP!ERR_NO_MEM, FastP!ERR_INVALID_ARG,
         FastP!ERR_TIMEOUT, FastP!ERR_OUT_OF_BOUNDS, FastP!ERR_NOOP,
         FastP!ERR_INCOMPLETE, FastP!ERR_EMPTY, FastP!ErrorCode
<1>2. QueueP!TypeOK => Queue!TypeOK
  BY DEF Queue!TypeOK, Queue!Offset, Queue!ERR_NONE, Queue!ERR_NOT_INITIALISED,
         Queue!ERR_NO_MEM, Queue!ERR_INVALID_ARG, Queue!ERR_TIMEOUT,
         Queue!ERR_OUT_OF_BOUNDS, Queue!ERR_NOOP, Queue!ERR_INCOMPLETE,
         Queue!ERR_EMPTY, Queue!ErrorCode, QueueP!TypeOK, QueueP!Offset,
         QueueP!ERR_NONE, QueueP!ERR_NOT_INITIALISED, QueueP!ERR_NO_MEM,
         QueueP!ERR_INVALID_ARG, QueueP!ERR_TIMEOUT, QueueP!ERR_OUT_OF_BOUNDS,
         QueueP!ERR_NOOP, QueueP!ERR_INCOMPLETE, QueueP!ERR_EMPTY, QueueP!ErrorCode
<1>3. HeapP!TypeOK => Heap!TypeOK
  BY DEF Heap!TypeOK, Heap!Index, Heap!InHeap, Heap!ERR_NONE,
         Heap!ERR_NOT_INITIALISED, Heap!ERR_NO_MEM, Heap!ERR_INVALID_ARG,
         Heap!ERR_TIMEOUT, Heap!ERR_OUT_OF_BOUNDS, Heap!ERR_NOOP, Heap!ERR_INCOMPLETE,
         Heap!ERR_EMPTY, Heap!ErrorCode, HeapP!TypeOK, HeapP!Index, HeapP!InHeap,
         HeapP!ERR_NONE, HeapP!ERR_NOT_INITIALISED, HeapP!ERR_NO_MEM,
         HeapP!ERR_INVALID_ARG, HeapP!ERR_TIMEOUT, HeapP!ERR_OUT_OF_BOUNDS,
         HeapP!ERR_NOOP, HeapP!ERR_INCOMPLETE, HeapP!ERR_EMPTY, HeapP!ErrorCode
<1>4. PoolInv => Pool!TypeOK
  BY DEF PoolInv
<1>5. FastP!Spec => []FastP!TypeOK
  BY FastAlone, FastP!FastTypeCorrect
<1>6. QueueP!Spec => []QueueP!TypeOK
  BY QueueAlone, QueueP!QueueTypeCorrect
<1>7. HeapP!Spec => [](HeapP!TypeOK /\ HeapP!LoopInv)
  BY HeapAlone, HeapP!HeapTypeCorrect
<1>9. ContainersInit => driven \in Driven
  BY DEF ContainersInit
<1>10. driven \in Driven /\ [ContainersNext]_all => (driven \in Driven)'
  BY DEF ContainersNext, all
<1>11. ContainersSpec => [](driven \in Driven)
  BY <1>9, <1>10, PTL DEF ContainersSpec
<1> QED
  BY <1>1, <1>2, <1>3, <1>4, <1>5, <1>6, <1>7, <1>11, FastAlone, QueueAlone,
     HeapAlone, PoolInductive, PTL DEF OthersTypeOK

(***************************************************************************)
(* fast_circular_buffer.c: its two free-running counters differ by at most *)
(* the size of the ring, for every width of size_t, whatever they have     *)
(* wrapped to.                                                             *)
(***************************************************************************)
THEOREM FastRingCounts == ContainersSpec => []CountInv
<1>1. FastP!CountInv => CountInv
  BY DEF CountInv, Fast!CountInv, Fast!Sub, Fast!fast_circular_buffer_get_count, FastP!CountInv,
         FastP!Sub, FastP!fast_circular_buffer_get_count
<1>2. FastP!Spec => []FastP!CountInv
  BY FastAlone, FastP!FastCountCorrect
<1> QED
  BY <1>1, <1>2, FastAlone, PTL

(***************************************************************************)
(* fast_circular_buffer.c implements the overwriting FIFO for every width  *)
(* of size_t, array size, set of byte values and sequence of calls.        *)
(***************************************************************************)
THEOREM FastRingImplementsFifo == ContainersSpec => FastImplementsFifo
<1>1. /\ FastP!Contents = Fast!Contents /\ FastP!Contents' = Fast!Contents'
      /\ {n \in 2 .. FastMaxSize : FastP!IsPowerOf2(n)} =
           {n \in 2 .. FastMaxSize : Fast!IsPowerOf2(n)}
  BY DEF Fast!Contents, Fast!IsPowerOf2, Fast!Masked, Fast!Add, Fast!Sub,
         Fast!fast_circular_buffer_get_count, FastP!Contents, FastP!IsPowerOf2,
         FastP!Masked, FastP!Add, FastP!Sub, FastP!fast_circular_buffer_get_count
<1>2. FastP!Fifo!Init => Fast!Fifo!Init
  BY <1>1 DEF Fast!Fifo!Init, Fast!Fifo!ERR_NONE, FastP!Fifo!Init, FastP!Fifo!ERR_NONE
<1>3. [FastP!Fifo!Next]_FastP!Fifo!vars => [Fast!Fifo!Next]_Fast!Fifo!vars
  BY <1>1 DEF Fast!Fifo!vars, Fast!Fifo!Accept, Fast!Fifo!Reject, Fast!Fifo!Deinit,
              Fast!Fifo!Push, Fast!Fifo!PushRefused, Fast!Fifo!Pop,
              Fast!Fifo!PopRefused, Fast!Fifo!Next, Fast!Fifo!ERR_NONE,
              Fast!Fifo!ERR_NO_MEM, Fast!Fifo!ERR_EMPTY, Fast!Fifo!ERR_INVALID_ARG,
              FastP!Fifo!vars, FastP!Fifo!Accept, FastP!Fifo!Reject,
              FastP!Fifo!Deinit, FastP!Fifo!Push, FastP!Fifo!PushRefused,
              FastP!Fifo!Pop, FastP!Fifo!PopRefused, FastP!Fifo!Next,
              FastP!Fifo!ERR_NONE, FastP!Fifo!ERR_NO_MEM, FastP!Fifo!ERR_EMPTY,
              FastP!Fifo!ERR_INVALID_ARG
<1>4. FastP!Spec => FastP!FastImplementsFifo
  BY FastAlone, FastP!FastRefinesFifo
<1> QED
  BY <1>2, <1>3, <1>4, FastAlone, PTL
  DEF FastImplementsFifo, Fast!FastImplementsFifo, FastP!FastImplementsFifo, Fast!Fifo!Spec,
      FastP!Fifo!Spec

(***************************************************************************)
(* For any number of laps, copy_queue.c leaves the bytes it was given only *)
(* when more elements were enqueued since init than the queue holds.       *)
(***************************************************************************)
THEOREM QueueLeavesAfterFirstLap ==
  ContainersSpec => [](tail_idx <= max_size * element_size => StaysInBuffer)
<1>1. (QueueP!FirstLap => QueueP!StaysInBuffer)
        => (tail_idx <= max_size * element_size => StaysInBuffer)
  BY DEF StaysInBuffer, Queue!StaysInBuffer, QueueP!StaysInBuffer, QueueP!FirstLap
<1>2. QueueP!Spec => [](QueueP!FirstLap => QueueP!StaysInBuffer)
  BY QueueAlone, QueueP!QueueFirstLapInBuffer
<1> QED
  BY <1>1, <1>2, QueueAlone, PTL

(***************************************************************************)
(* While the client enqueues no more elements between two inits than the   *)
(* queue holds, copy_queue.c touches only the bytes it was given, for      *)
(* every buffer and element size.                                          *)
(***************************************************************************)
THEOREM QueueInBuffer ==
  ASSUME Laps = 1
  PROVE  ContainersSpec => []StaysInBuffer
<1>1. QueueP!StaysInBuffer => StaysInBuffer
  BY DEF StaysInBuffer, Queue!StaysInBuffer, QueueP!StaysInBuffer
<1>2. QueueP!Spec => []QueueP!StaysInBuffer
  BY QueueAlone, QueueP!QueueStaysInBuffer
<1> QED
  BY <1>1, <1>2, QueueAlone, PTL

(***************************************************************************)
(* copy_queue.c implements the bounded FIFO, with its refusals and peek,   *)
(* for any number of laps in a memory that goes on after the buffer.       *)
(***************************************************************************)
THEOREM QueueIsBoundedFifo == ContainersSpec => QueueImplementsFifo
<1>1. /\ QueueP!Contents = Queue!Contents /\ QueueP!Contents' = Queue!Contents'
  BY DEF Queue!Contents, QueueP!Contents
<1>2. QueueP!Fifo!Init => Queue!Fifo!Init
  BY <1>1 DEF Queue!Fifo!Init, Queue!Fifo!ERR_NONE, QueueP!Fifo!Init,
              QueueP!Fifo!ERR_NONE
<1>3. [QueueP!Fifo!BoundedNext]_QueueP!Fifo!vars => [Queue!Fifo!BoundedNext]_Queue!Fifo!vars
  BY <1>1 DEF Queue!Fifo!vars, Queue!Fifo!Accept, Queue!Fifo!Reject,
              Queue!Fifo!Deinit, Queue!Fifo!Push, Queue!Fifo!PushRefused,
              Queue!Fifo!Pop, Queue!Fifo!PopRefused, Queue!Fifo!Next,
              Queue!Fifo!Refuse, Queue!Fifo!Peek, Queue!Fifo!BoundedNext,
              Queue!Fifo!ERR_NONE, Queue!Fifo!ERR_NO_MEM, Queue!Fifo!ERR_EMPTY,
              Queue!Fifo!ERR_INVALID_ARG, QueueP!Fifo!vars, QueueP!Fifo!Accept,
              QueueP!Fifo!Reject, QueueP!Fifo!Deinit, QueueP!Fifo!Push,
              QueueP!Fifo!PushRefused, QueueP!Fifo!Pop, QueueP!Fifo!PopRefused,
              QueueP!Fifo!Next, QueueP!Fifo!Refuse, QueueP!Fifo!Peek,
              QueueP!Fifo!BoundedNext, QueueP!Fifo!ERR_NONE, QueueP!Fifo!ERR_NO_MEM,
              QueueP!Fifo!ERR_EMPTY, QueueP!Fifo!ERR_INVALID_ARG
<1>4. QueueP!Spec => QueueP!QueueImplementsFifo
  BY QueueAlone, QueueP!QueueRefinesFifo
<1> QED
  BY <1>2, <1>3, <1>4, QueueAlone, PTL
  DEF QueueImplementsFifo, Queue!QueueImplementsFifo, QueueP!QueueImplementsFifo, Queue!Fifo!BoundedSpec,
      QueueP!Fifo!BoundedSpec

(***************************************************************************)
(* bounded_heap.c loses and doubles no item, in the middle of a sift too,  *)
(* for every capacity and comparison function.                             *)
(***************************************************************************)
THEOREM HeapKeepsItems == ContainersSpec => []HeldOnce
<1>1. HeapP!HeldOnce => HeldOnce
  BY DEF HeldOnce, Heap!HeldOnce, Heap!InHeap, HeapP!HeldOnce, HeapP!InHeap
<1>2. HeapP!Spec => []HeapP!HeldOnce
  BY HeapAlone, HeapP!HeapHoldsOnce
<1> QED
  BY <1>1, <1>2, HeapAlone, PTL

(***************************************************************************)
(* bounded_heap.c keeps every item below its parent, but for the one a     *)
(* loop is moving, until a sift-down skips its last comparison, for every  *)
(* capacity and comparison function.                                       *)
(***************************************************************************)
THEOREM HeapKeepsOrder == ContainersSpec => []Ordered
<1>1. HeapP!Ordered => Ordered
  BY DEF Ordered, Heap!Ordered, Heap!InHeap, Heap!Below, Heap!bounded_heap_get_index_of_parent,
         Heap!bounded_heap_get_index_of_left_child,
         Heap!bounded_heap_get_index_of_right_child, HeapP!Ordered, HeapP!InHeap,
         HeapP!Below, HeapP!bounded_heap_get_index_of_parent,
         HeapP!bounded_heap_get_index_of_left_child,
         HeapP!bounded_heap_get_index_of_right_child
<1>2. HeapP!Spec => []HeapP!Ordered
  BY HeapAlone, HeapP!HeapInOrder
<1> QED
  BY <1>1, <1>2, HeapAlone, PTL

(***************************************************************************)
(* Until then every pop of bounded_heap.c returns an item that none in the *)
(* heap ranks above.                                                       *)
(***************************************************************************)
THEOREM HeapPopsInOrder == ContainersSpec => PopsGreatestUnlessSkipped
<1>1. HeapP!Spec => HeapP!PopsGreatestUnlessSkipped
  BY HeapAlone, HeapP!HeapPopsGreatest
<1>2. [~skipped => HeapP!PopTakesGreatest]_HeapP!vars => [~skipped => Heap!PopTakesGreatest]_Heap!vars
  BY DEF Heap!PopTakesGreatest, Heap!Idle, Heap!vars, HeapP!PopTakesGreatest,
         HeapP!Idle, HeapP!vars
<1> QED
  BY <1>1, <1>2, HeapAlone, PTL
  DEF PopsGreatestUnlessSkipped, Heap!PopsGreatestUnlessSkipped,
      HeapP!PopsGreatestUnlessSkipped

(***************************************************************************)
(* For a careful client an object of static_pool.c has one owner, is not   *)
(* free while it is held, and lies inside the buffer, for every buffer,    *)
(* object count and object size.                                           *)
(***************************************************************************)
THEOREM PoolKeepsOneOwner == ContainersSpec => []OneOwner
<1>1. PoolInv => Pool!OneOwner
  <2> SUFFICES ASSUME PoolInv, client = "careful" PROVE Pool!OneOwner
    BY DEF Pool!OneOwner
  <2>1. Careful /\ Pool!TypeOK
    BY DEF PoolInv
  <2>2. Cardinality(Pool!Free) = Len(FreeStack)
    BY <2>1, ContainersAssumption, FreeCount DEF Careful
  <2>3. \A p \in Pool!Free : \E i \in 1 .. Len(FreeStack) : p = FreeStack[i]
    BY DEF Pool!Free, FreeStack
  <2>4. \A h \in Pool!Held : handle[h] \notin Pool!Free
    BY <2>1, <2>3 DEF Careful
  <2>5. \A p \in Pool!Free \cup {handle[h] : h \in Pool!Held} : InBuffer(p)
    BY <2>1, <2>3 DEF Careful
  <2>6. \A g, h \in Pool!Held : g # h => handle[g] # handle[h]
    BY <2>1 DEF Careful
  <2> QED
    BY <2>2, <2>4, <2>5, <2>6, PoolCardinality DEF Pool!OneOwner, InBuffer, FreeStack
<1>2. Pool!OneOwner => OneOwner
  BY DEF OneOwner
<1> QED
  BY <1>1, <1>2, PoolInductive, PTL

(***************************************************************************)
(* For a careful client the available count of static_pool.c is what the   *)
(* client does not hold.                                                   *)
(***************************************************************************)
THEOREM PoolCountsHonestly == ContainersSpec => []AvailableIsHonest
<1>1. PoolInv => Pool!AvailableIsHonest
  <2> SUFFICES ASSUME PoolInv, client = "careful", Pool!Initialised
               PROVE  Pool!i_pool_allocator_get_available_count
                        = object_count - Cardinality(Pool!Held)
    BY PoolCardinality DEF Pool!AvailableIsHonest
  <2>1. /\ Cardinality(Pool!Held) + Len(FreeStack) = MaxItems /\ MaxItems = object_count
        /\ Cardinality(Pool!Held) \in Nat /\ Len(FreeStack) \in Nat /\ MaxItems \in Nat
        /\ SizeMod \in Nat \ {0} /\ MaxItems < SizeMod
    <3>1. Pool!PoolConstants
      BY ContainersAssumption
    <3>2. Pool!TypeOK /\ Careful
      BY DEF PoolInv
    <3>3. Cardinality(Pool!Held) \in Nat
      BY <3>1, HeldFinite
    <3>4. /\ Len(FreeStack) \in Nat /\ MaxItems \in Nat
          /\ SizeMod \in Nat \ {0} /\ MaxItems < SizeMod
      BY <3>1, <3>2, PoolFacts
    <3> QED
      BY <3>2, <3>3, <3>4 DEF Careful
  <2>2. object_count + (SizeMod - (MaxItems - Len(FreeStack))) = SizeMod + Len(FreeStack)
    BY <2>1
  <2>3. (SizeMod + Len(FreeStack)) % SizeMod = Len(FreeStack)
    BY <2>1
  <2>4. Pool!i_pool_allocator_get_available_count = Len(FreeStack)
    BY <2>2, <2>3 DEF Pool!i_pool_allocator_get_available_count,
       Pool!static_pool_get_available_count, Pool!ptr_stack_get_remaining_count, FreeStack, MaxItems
  <2> QED
    BY <2>1, <2>4
<1>2. Pool!AvailableIsHonest => AvailableIsHonest
  BY DEF AvailableIsHonest
<1> QED
  BY <1>1, <1>2, PoolInductive, PTL

(***************************************************************************)
(* Whatever a client of static_pool.c frees and configures, its stack of   *)
(* free objects stays inside its array.                                    *)
(***************************************************************************)
THEOREM PoolStackStaysInBounds == ContainersSpec => []StackInBounds
<1>1. PoolInv => StackInBounds
  BY DEF PoolInv, StackInBounds
<1> QED
  BY <1>1, PoolInductive, PTL
=============================================================================
