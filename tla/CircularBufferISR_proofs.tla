---------------------- MODULE CircularBufferISR_proofs ----------------------
(***************************************************************************)
(* One producer and one consumer of circular_buffer.c, for every size of   *)
(* the ring and every interleaving of their loads and stores that the use  *)
(* of the ring allows.                                                     *)
(***************************************************************************)
EXTENDS CircularBufferISR, TLAPS

USE DEF ERR_NONE, ERR_EMPTY

(* k places behind position w of a circle of m. *)
Behind(m, w, k) == IF w >= k THEN w - k ELSE (w + m) - k

(* A remainder of a sum that exceeds the modulus by less than once more. *)
LEMMA SmallMod ==
  ASSUME NEW m \in Nat \ {0}, NEW a \in Nat, a < m + m
  PROVE  a % m = IF a < m THEN a ELSE a - m
<1>1. CASE a < m
  BY <1>1
<1>2. CASE a >= m
  BY <1>2
<1> QED
  BY <1>1, <1>2

(* The arithmetic of the ring and of the byte numbers. *)
LEMMA Moduli ==
  /\ Size \in Nat \ {0} /\ Limit \in Nat \ {0} /\ ByteMod \in Nat \ {0}
  /\ Size + Limit < ByteMod
  BY SizeAssumption, LimitAssumption, ByteModAssumption

LEMMA AdvanceIs ==
  ASSUME NEW i \in Slot
  PROVE  Advance(i) = IF i + 1 = Size THEN 0 ELSE i + 1
<1>1. i + 1 \in Nat /\ i + 1 < Size + Size /\ i + 1 <= Size
  BY Moduli DEF Slot
<1>2. (i + 1) % Size = IF i + 1 < Size THEN i + 1 ELSE (i + 1) - Size
  BY <1>1, Moduli, SmallMod
<1> QED
  BY <1>1, <1>2, Moduli DEF Advance

LEMMA SuccessorIs ==
  ASSUME NEW b \in Byte
  PROVE  (b + 1) % ByteMod = IF b + 1 = ByteMod THEN 0 ELSE b + 1
<1>1. b + 1 \in Nat /\ b + 1 < ByteMod + ByteMod /\ b + 1 <= ByteMod
  BY Moduli DEF Byte
<1>2. (b + 1) % ByteMod = IF b + 1 < ByteMod THEN b + 1 ELSE (b + 1) - ByteMod
  BY <1>1, Moduli, SmallMod
<1> QED
  BY <1>1, <1>2, Moduli

LEMMA AdvanceType ==
  /\ \A i \in Slot : Advance(i) \in Slot
  /\ \A b \in Byte : (b + 1) % ByteMod \in Byte
<1>1. ASSUME NEW i \in Slot PROVE Advance(i) \in Slot
  BY AdvanceIs, Moduli DEF Slot
<1>2. ASSUME NEW b \in Byte PROVE (b + 1) % ByteMod \in Byte
  <2>1. (b + 1) % ByteMod = IF b + 1 = ByteMod THEN 0 ELSE b + 1
    BY SuccessorIs
  <2>2. (IF b + 1 = ByteMod THEN 0 ELSE b + 1) \in Byte
    BY Moduli DEF Byte
  <2> QED
    BY <2>1, <2>2
<1> QED
  BY <1>1, <1>2

LEMMA DistanceIs ==
  ASSUME NEW a \in Byte, NEW b \in Byte
  PROVE  Distance(a, b) = Behind(ByteMod, b, a) /\ Distance(a, b) \in Byte
<1>1. b + (ByteMod - a) \in Nat /\ b + (ByteMod - a) < ByteMod + ByteMod
  BY Moduli DEF Byte
<1>2. (b + (ByteMod - a)) % ByteMod =
        IF b + (ByteMod - a) < ByteMod THEN b + (ByteMod - a)
                                       ELSE (b + (ByteMod - a)) - ByteMod
  BY <1>1, Moduli, SmallMod
<1> QED
  BY <1>1, <1>2, Moduli DEF Distance, Behind, Byte

-----------------------------------------------------------------------------
(* The steps keep the type. *)
ProdType == [pc : ProducerPC, r : Slot]
ConsType == [pc : ConsumerPC, x : Slot, y : Slot, byte : Byte,
             ret : ErrorCode, oldest : Byte, was_empty : BOOLEAN]

LEMMA InitHasType == Init => TypeOK
  BY Moduli DEF Init, TypeOK, Slot, Byte, ProducerPC, ConsumerPC, ErrorCode

LEMMA ProducerKeepsType == TypeOK /\ Producer => TypeOK'
<1> SUFFICES ASSUME TypeOK, Producer PROVE TypeOK'
  OBVIOUS
<1>0. /\ prod \in ProdType /\ read_index \in Slot /\ write_index \in Slot
      /\ buffer \in [Slot -> Byte] /\ next_in \in Byte /\ use' = use
  BY DEF TypeOK, Producer, ProdType
<1>a. \A i \in Slot : Advance(i) \in Slot
  BY AdvanceType
<1>b. (next_in + 1) % ByteMod \in Byte
  BY <1>0, AdvanceType
<1>c. /\ \A pc \in ProducerPC : [prod EXCEPT !.pc = pc] \in ProdType
      /\ \A pc \in ProducerPC, r \in Slot : [pc |-> pc, r |-> r] \in ProdType
      /\ prod.r \in Slot
  BY <1>0 DEF ProdType
<1>1. CASE PushStoreByte
  BY <1>0, <1>1, <1>c DEF PushStoreByte, TypeOK, ProducerPC, ProdType
<1>2. CASE PushTestIndices
  BY <1>0, <1>2, <1>c DEF PushTestIndices, TypeOK, ProducerPC, ring, ProdType
<1>3. CASE PushTestFlag
  BY <1>0, <1>3, <1>c DEF PushTestFlag, TypeOK, ProducerPC, ring, ProdType
<1>4. CASE PushLoadReadIndex
  BY <1>0, <1>4, <1>c DEF PushLoadReadIndex, TypeOK, ProducerPC, ring, ProdType
<1>5. CASE PushStoreReadIndex
  BY <1>0, <1>5, <1>a, <1>c DEF PushStoreReadIndex, TypeOK, ProducerPC, ProdType
<1>6. CASE PushStoreWriteIndex
  BY <1>0, <1>6, <1>a, <1>b, <1>c DEF PushStoreWriteIndex, TypeOK, ProducerPC, ProdType
<1>7. CASE PushClearFlag
  BY <1>0, <1>7, <1>c DEF PushClearFlag, TypeOK, ProducerPC, ProdType
<1> QED
  BY <1>1, <1>2, <1>3, <1>4, <1>5, <1>6, <1>7 DEF Producer

LEMMA OutstandingType ==
  ASSUME TypeOK
  PROVE  Outstanding \in Byte /\ Oldest \in Byte
<1>1. next_in \in Byte /\ next_out \in Byte /\ Size \in Byte
  BY Moduli DEF TypeOK, Byte
<1> QED
  BY <1>1, DistanceIs DEF Outstanding, Oldest

LEMMA ConsumerKeepsType == TypeOK /\ Consumer => TypeOK'
<1> SUFFICES ASSUME TypeOK, Consumer PROVE TypeOK'
  OBVIOUS
<1>0. /\ cons \in ConsType /\ read_index \in Slot /\ write_index \in Slot
      /\ buffer \in [Slot -> Byte] /\ next_out \in Byte /\ use' = use
  BY DEF TypeOK, Consumer, ConsType
<1>c. /\ \A pc \in ConsumerPC : [cons EXCEPT !.pc = pc] \in ConsType
      /\ \A pc \in ConsumerPC, v \in Slot : [cons EXCEPT !.pc = pc, !.x = v] \in ConsType
      /\ \A pc \in ConsumerPC, v \in Slot : [cons EXCEPT !.pc = pc, !.y = v] \in ConsType
      /\ \A pc \in ConsumerPC, v \in Byte : [cons EXCEPT !.pc = pc, !.byte = v] \in ConsType
      /\ \A pc \in ConsumerPC, v \in ErrorCode :
           [cons EXCEPT !.pc = pc, !.ret = v] \in ConsType
      /\ cons.x \in Slot /\ cons.byte \in Byte
  BY <1>0 DEF ConsType
<1>u. ASSUME cons' \in ConsType, UNCHANGED <<ring, prod, next_in, next_out>> PROVE TypeOK'
  BY <1>0, <1>u DEF TypeOK, ring, ConsType
<1>e. ASSUME ReturnEmpty PROVE TypeOK'
  <2>1. "idle" \in ConsumerPC /\ ERR_EMPTY \in ErrorCode
    BY DEF ConsumerPC, ErrorCode
  <2> QED
    BY <1>c, <1>e, <1>u, <2>1 DEF ReturnEmpty
<1>1. CASE CountLoadWriteIndex
  <2>1. Oldest \in Byte /\ (Outstanding = 0) \in BOOLEAN /\ "gt_r" \in ConsumerPC
    BY OutstandingType DEF ConsumerPC
  <2>2. cons' \in ConsType
    BY <1>0, <1>1, <2>1 DEF CountLoadWriteIndex, ConsType
  <2> QED
    BY <1>1, <1>u, <2>2 DEF CountLoadWriteIndex
<1>2. CASE CountTestGreater
  BY <1>0, <1>2, <1>c, <1>u DEF CountTestGreater, Test, ConsumerPC
<1>3. CASE CountLoadMinuend
  BY <1>0, <1>3, <1>c, <1>u DEF CountLoadMinuend, Load, ConsumerPC
<1>4. CASE CountSubtract
  <2>1. CASE cons.x = read_index
    BY <1>4, <1>e, <2>1 DEF CountSubtract
  <2>2. CASE cons.x # read_index
    <3>1. /\ cons' = [cons EXCEPT !.pc = "slot", !.y = read_index]
          /\ UNCHANGED <<ring, prod, next_in, next_out>>
      BY <1>4, <2>2 DEF CountSubtract, Load
    <3> QED
      BY <1>0, <1>c, <1>u, <3>1 DEF ConsumerPC
  <2> QED
    BY <2>1, <2>2
<1>5. CASE CountLoadLess
  BY <1>0, <1>5, <1>c, <1>u DEF CountLoadLess, Load, ConsumerPC
<1>6. CASE CountTestLess
  BY <1>0, <1>6, <1>c, <1>u DEF CountTestLess, Test, ConsumerPC
<1>7. CASE CountTestFlag
  BY <1>0, <1>7, <1>c, <1>u, <1>e DEF CountTestFlag, ConsumerPC
<1>8. CASE PopLoadSlot
  BY <1>0, <1>8, <1>c, <1>u DEF PopLoadSlot, Load, ConsumerPC
<1>9. CASE PopLoadByte
  BY <1>0, <1>9, <1>c, <1>u DEF PopLoadByte, Load, ConsumerPC
<1>10. CASE PopLoadReadIndex
  BY <1>0, <1>10, <1>c, <1>u DEF PopLoadReadIndex, Load, ConsumerPC
<1>11. CASE PopStoreReadIndex
  <2>1. read_index' \in Slot
    BY <1>11, <1>c, AdvanceType DEF PopStoreReadIndex
  <2>2. cons' \in ConsType
    BY <1>11, <1>c DEF PopStoreReadIndex, ConsumerPC
  <2> QED
    BY <1>0, <1>11, <2>1, <2>2 DEF PopStoreReadIndex, TypeOK, ConsType
<1>12. CASE PopCompareRead
  BY <1>0, <1>12, <1>c, <1>u DEF PopCompareRead, Load, ConsumerPC
<1>13. CASE PopCompareWrite
  BY <1>0, <1>13, <1>c, <1>u DEF PopCompareWrite, Load, ConsumerPC
<1>14. CASE PopStoreFlag
  <2>1. next_out' \in Byte
    BY <1>14, <1>c, AdvanceType DEF PopStoreFlag
  <2>2. cons' \in ConsType
    BY <1>14, <1>c DEF PopStoreFlag, ConsumerPC, ErrorCode
  <2>3. buffer_is_empty' \in BOOLEAN
    BY <1>14, Zenon DEF PopStoreFlag
  <2> QED
    BY <1>0, <1>14, <2>1, <2>2, <2>3 DEF PopStoreFlag, TypeOK, ConsType
<1> QED
  BY <1>1, <1>2, <1>3, <1>4, <1>5, <1>6, <1>7, <1>8, <1>9, <1>10, <1>11, <1>12,
     <1>13, <1>14 DEF Consumer

(* Every step does. *)
LEMMA NextKeepsType == TypeOK /\ [Next]_vars => TypeOK'
<1>1. TypeOK /\ UNCHANGED vars => TypeOK'
  BY DEF TypeOK, vars, ring
<1> QED
  BY <1>1, ProducerKeepsType, ConsumerKeepsType DEF Next

(***************************************************************************)
(* However the loads and stores of circular_buffer.c interleave, in every  *)
(* use of the ring, its indices stay inside the array.                     *)
(***************************************************************************)
THEOREM IsrTypeCorrect == Spec => []TypeOK
  BY InitHasType, NextKeepsType, PTL DEF Spec

-----------------------------------------------------------------------------
(* The place after position w of a circle of m. *)
After(m, w) == IF w + 1 = m THEN 0 ELSE w + 1

(* Walking on the circle. *)
LEMMA CircleFacts ==
  ASSUME NEW m \in Nat \ {0}, NEW w \in 0 .. m - 1
  PROVE  /\ Behind(m, w, 0) = w /\ Behind(m, w, m) = w
         /\ \A k \in 0 .. m : Behind(m, w, k) \in 0 .. m - 1
         /\ \A j, k \in 0 .. m - 1 : Behind(m, w, j) = Behind(m, w, k) => j = k
         /\ \A k \in 0 .. m - 1 : Behind(m, After(m, w), k + 1) = Behind(m, w, k)
         /\ \A k \in 1 .. m : After(m, Behind(m, w, k)) = Behind(m, w, k - 1)
<1>1. Behind(m, w, 0) = w /\ Behind(m, w, m) = w
  BY DEF Behind
<1>2. \A k \in 0 .. m : Behind(m, w, k) \in 0 .. m - 1
  BY DEF Behind
<1>3. \A j, k \in 0 .. m - 1 : Behind(m, w, j) = Behind(m, w, k) => j = k
  BY DEF Behind
<1>4. \A k \in 0 .. m - 1 : Behind(m, After(m, w), k + 1) = Behind(m, w, k)
  BY DEF Behind, After
<1>5. \A k \in 1 .. m : After(m, Behind(m, w, k)) = Behind(m, w, k - 1)
  BY DEF Behind, After
<1> QED
  BY <1>1, <1>2, <1>3, <1>4, <1>5

LEMMA BehindTwice ==
  ASSUME NEW m \in Nat \ {0}, NEW w \in 0 .. m - 1, NEW k \in 0 .. m - 1
  PROVE  Behind(m, w, Behind(m, w, k)) = k
  BY DEF Behind

(* The two circles of the model: slots and byte numbers. *)
At(k)     == Behind(Size, write_index, k)
Number(k) == Behind(ByteMod, next_in, k)

(* How many bytes the ring holds. *)
Held == IF Outstanding > Size THEN Size ELSE Outstanding

(* Held and the numbers of the bytes held. *)
LEMMA HeldFacts ==
  ASSUME TypeOK
  PROVE  /\ Outstanding \in 0 .. ByteMod - 1 /\ Held \in 0 .. Size
         /\ Held = 0 <=> Outstanding = 0
         /\ Oldest = Number(Held) /\ next_out = Number(Outstanding)
<1>1. next_in \in 0 .. ByteMod - 1 /\ next_out \in 0 .. ByteMod - 1 /\ Size \in 0 .. ByteMod - 1
  BY Moduli DEF TypeOK, Byte
<1>2. Outstanding = Behind(ByteMod, next_in, next_out) /\ Outstanding \in 0 .. ByteMod - 1
  BY <1>1, DistanceIs DEF Byte, Outstanding
<1>3. Held \in 0 .. Size /\ (Held = 0 <=> Outstanding = 0)
  BY <1>2, Moduli DEF Held
<1>4. next_out = Number(Outstanding)
  BY <1>1, <1>2, Moduli DEF Number, Behind
<1>5. Distance(Size, next_in) = Number(Size)
  BY <1>1, DistanceIs DEF Byte, Number
<1> QED
  BY <1>2, <1>3, <1>4, <1>5 DEF Oldest, Held

-----------------------------------------------------------------------------
(***************************************************************************)
(* The uses of the ring that are safe: the main loop masks the interrupt   *)
(* around its calls, or the interrupt pushes only once the last byte has   *)
(* been popped.                                                            *)
(***************************************************************************)
SafeUses == Uses \subseteq {"masked", "lockstep"}

Early    == {"full", "flag", "over_load", "over_store", "write_index"}
Counting == {"gt_r", "lt_w", "lt_r", "empty"}
Taken    == {"next_load", "next_store", "cmp_r", "cmp_w", "set_flag"}
Advanced == {"cmp_r", "cmp_w", "set_flag"}

(* How far the read index is behind the write index. *)
Gap == IF prod.pc = "write_index" /\ Held = Size THEN Size - 1
       ELSE IF cons.pc \in Advanced THEN Held - 1 ELSE Held

(* How much is outstanding. *)
Bounds ==
  /\ Outstanding <= Limit
  /\ prod.pc \in Early => Outstanding < Limit
  /\ use = "lockstep" => Outstanding <= 1 /\ (prod.pc \in Early => Outstanding = 0)
  /\ prod.pc = "clear_flag" => Outstanding >= 1

(* Both are inside a call only while the consumer counts an empty ring. *)
Exclusion ==
  prod.pc # "idle" /\ cons.pc # "idle" => use = "lockstep" /\ cons.pc \in Counting

Indices ==
  /\ read_index = At(Gap)
  /\ prod.pc = "flag" => read_index = write_index
  /\ prod.pc \in {"over_load", "over_store"} => Held = Size
  /\ prod.pc = "over_store" => prod.r = read_index

(* The ring holds the last bytes pushed; a push has stored its own byte    *)
(* before it publishes it.                                                 *)
Bytes ==
  /\ \A k \in 1 .. Held :
       (prod.pc \in Early /\ k = Size) \/ buffer[At(k)] = Number(k)
  /\ prod.pc \in Early => buffer[write_index] = next_in

Flag == prod.pc # "clear_flag" => (buffer_is_empty = TRUE <=> Held = 0)

(* What the consumer knows in the middle of its call. *)
Consumed ==
  /\ cons.pc # "idle" => /\ cons.oldest = Number(Held)
                         /\ Outstanding = 0 => cons.was_empty = TRUE
  /\ cons.pc \notin Counting \cup {"idle"} => Held # 0
  /\ cons.pc \in {"gt_r", "lt_r"} => cons.x \in {read_index, write_index}
  /\ cons.pc \in {"sub_w", "sub_r"} => read_index # write_index
  /\ cons.pc = "sub_r" => cons.x = write_index
  /\ cons.pc \in {"byte", "next_store", "cmp_w", "set_flag"} => cons.x = read_index
  /\ cons.pc \in Taken => cons.byte = cons.oldest
  /\ cons.pc = "set_flag" => cons.y = write_index
  /\ cons.pc = "idle" /\ cons.ret = ERR_EMPTY => cons.was_empty = TRUE

IInv == /\ TypeOK /\ use \in {"masked", "lockstep"}
        /\ Bounds /\ Exclusion /\ Indices /\ Bytes /\ Flag /\ Consumed

(* The initialised ring satisfies it. *)
LEMMA InitIInv ==
  ASSUME SafeUses
  PROVE  Init => IInv
<1> SUFFICES ASSUME Init PROVE IInv
  OBVIOUS
<1>1. /\ prod.pc = "idle" /\ cons.pc = "idle" /\ cons.ret = ERR_NONE
      /\ read_index = 0 /\ write_index = 0 /\ next_in = 0 /\ next_out = 0
      /\ buffer_is_empty = TRUE /\ use \in {"masked", "lockstep"}
  BY DEF Init, SafeUses
<1>2. TypeOK
  BY InitHasType
<1>3. Outstanding = 0 /\ Held = 0
  <2>1. Outstanding = Behind(ByteMod, 0, 0)
    BY <1>1, <1>2, DistanceIs DEF TypeOK, Outstanding
  <2>2. Outstanding = 0
    BY <2>1 DEF Behind
  <2> QED
    BY <1>2, <2>2, HeldFacts
<1>4. Bounds /\ Exclusion /\ Bytes /\ Flag /\ Consumed
  <2>1. Bounds /\ Exclusion
    BY <1>1, <1>3, Moduli DEF Bounds, Exclusion, Early
  <2>2. Bytes
    BY <1>1, <1>3 DEF Bytes, Early
  <2>3. Flag
    BY <1>1, <1>3 DEF Flag
  <2>4. Consumed
    BY <1>1 DEF Consumed, Taken
  <2> QED
    BY <2>1, <2>2, <2>3, <2>4
<1>5. Indices
  <2>1. Gap = 0
    BY <1>1, <1>3 DEF Gap, Advanced
  <2>2. At(0) = read_index
    BY <1>1 DEF At, Behind
  <2> QED
    BY <1>1, <2>1, <2>2 DEF Indices
<1> QED
  BY <1>1, <1>2, <1>4, <1>5 DEF IInv

-----------------------------------------------------------------------------
(* The circles in a state. *)
LEMMA Places ==
  ASSUME TypeOK
  PROVE  /\ At(0) = write_index /\ At(Size) = write_index /\ Number(0) = next_in
         /\ \A k \in 0 .. Size : At(k) \in Slot
         /\ \A j, k \in 0 .. Size - 1 : At(j) = At(k) => j = k
         /\ \A k \in 1 .. Size : Advance(At(k)) = At(k - 1)
         /\ \A k \in 1 .. ByteMod : (Number(k) + 1) % ByteMod = Number(k - 1)
<1>1. write_index \in 0 .. Size - 1 /\ next_in \in 0 .. ByteMod - 1
  BY DEF TypeOK, Slot, Byte
<1>2. /\ At(0) = write_index /\ At(Size) = write_index
      /\ \A k \in 0 .. Size : At(k) \in Slot
      /\ \A j, k \in 0 .. Size - 1 : At(j) = At(k) => j = k
      /\ \A k \in 1 .. Size : After(Size, At(k)) = At(k - 1)
  BY <1>1, Moduli, CircleFacts DEF At, Slot
<1>3. /\ Number(0) = next_in
      /\ \A k \in 0 .. ByteMod : Number(k) \in Byte
      /\ \A k \in 1 .. ByteMod : After(ByteMod, Number(k)) = Number(k - 1)
  BY <1>1, Moduli, CircleFacts DEF Number, Byte
<1>4. ASSUME NEW k \in 1 .. Size PROVE Advance(At(k)) = At(k - 1)
  <2>1. At(k) \in Slot
    BY <1>2, Moduli
  <2> QED
    BY <1>2, <2>1, AdvanceIs DEF After
<1>5. ASSUME NEW k \in 1 .. ByteMod PROVE (Number(k) + 1) % ByteMod = Number(k - 1)
  <2>1. Number(k) \in Byte
    BY <1>3, Moduli
  <2>2. (Number(k) + 1) % ByteMod = After(ByteMod, Number(k))
    BY <2>1, SuccessorIs DEF After
  <2> QED
    BY <1>3, <2>2
<1> QED
  BY <1>2, <1>3, <1>4, <1>5

(* A step of a push that only looks. *)
LEMMA ProducerLooks ==
  ASSUME IInv, TypeOK', UNCHANGED <<use, ring, cons, next_in, next_out>>,
         prod.pc \in Early, prod'.pc \in Early, Indices'
  PROVE  IInv'
<1>1. Outstanding' = Outstanding /\ Held' = Held
  BY DEF Outstanding, Held
<1>2. Bounds' /\ Exclusion'
  BY <1>1 DEF IInv, Bounds, Exclusion, Early
<1>3. Bytes'
  BY <1>1 DEF IInv, Bytes, ring, At, Number
<1>4. Flag'
  BY <1>1 DEF IInv, Flag, ring, Early
<1>5. Consumed'
  BY <1>1 DEF IInv, Consumed, ring, Number
<1> QED
  BY <1>2, <1>3, <1>4, <1>5 DEF IInv

(* While a push has not published its byte, the consumer has not advanced. *)
LEMMA EarlyGap ==
  ASSUME IInv, prod.pc \in Early \ {"write_index"}
  PROVE  Gap = Held /\ read_index = At(Held)
<1>1. cons.pc \notin Advanced
  BY DEF IInv, Exclusion, Early, Counting, Advanced
<1> QED
  BY <1>1 DEF IInv, Indices, Gap

(* The push. *)
LEMMA ProducerIInv ==
  ASSUME IInv, Producer
  PROVE  IInv'
<1>t. TypeOK' /\ TypeOK /\ use' = use
  BY ProducerKeepsType DEF IInv, Producer
<1>p. prod \in ProdType
  BY <1>t DEF TypeOK, ProdType
<1>h. Held \in 0 .. Size /\ (Held = 0 <=> Outstanding = 0) /\ Outstanding \in Nat
  BY <1>t, HeldFacts, Moduli
<1>1. CASE PushStoreByte
  <2>1. /\ prod.pc = "idle" /\ prod'.pc = "full" /\ prod'.r = prod.r
        /\ buffer' = [buffer EXCEPT ![write_index] = next_in]
        /\ UNCHANGED <<read_index, write_index, buffer_is_empty, cons, next_in, next_out>>
        /\ Outstanding < IF use = "lockstep" THEN 1 ELSE Limit
        /\ use \in {"isr_pops", "masked"} => cons.pc = "idle"
    BY <1>1, <1>p DEF PushStoreByte, ProducerAt, ProdType
  <2>2. Outstanding' = Outstanding /\ Held' = Held
    BY <2>1 DEF Outstanding, Held
  <2>3. Bounds'
    BY <1>t, <1>h, <2>1, <2>2, Moduli DEF Bounds, Early
  <2>4. Exclusion'
    <3>1. CASE use = "masked"
      BY <1>t, <2>1, <3>1 DEF Exclusion
    <3>2. CASE use # "masked"
      <4>1. use = "lockstep" /\ Held = 0
        BY <1>h, <2>1, <3>2 DEF IInv
      <4>2. cons.pc \in Counting \cup {"idle"}
        BY <4>1 DEF IInv, Consumed
      <4> QED
        BY <1>t, <2>1, <4>1, <4>2 DEF Exclusion
    <3> QED
      BY <3>1, <3>2
  <2>5. Indices'
    <3>1. Gap = Held
      <4>1. cons.pc \notin Advanced
        BY <1>t, <2>1, <2>4 DEF Exclusion, Counting, Advanced
      <4> QED
        BY <2>1, <4>1 DEF Gap
    <3>2. Gap' = Held
      <4>1. cons.pc \notin Advanced
        BY <1>t, <2>1, <2>4 DEF Exclusion, Counting, Advanced
      <4> QED
        BY <2>1, <2>2, <4>1 DEF Gap
    <3> QED
      BY <2>1, <3>1, <3>2 DEF IInv, Indices, At
  <2>6. Bytes'
    <3>1. buffer \in [Slot -> Byte] /\ write_index \in Slot
      BY <1>t DEF TypeOK
    <3>2. buffer'[write_index] = next_in
      BY <2>1, <3>1
    <3>3. ASSUME NEW k \in 1 .. Held, k # Size PROVE buffer'[At(k)] = Number(k)
      <4>1. k \in 0 .. Size - 1 /\ k # 0 /\ 0 \in 0 .. Size - 1 /\ k \in 0 .. Size
        BY <1>h, <3>3, Moduli
      <4>2. At(k) # write_index /\ At(k) \in Slot
        BY <1>t, <4>1, Places
      <4>3. buffer'[At(k)] = buffer[At(k)]
        BY <2>1, <3>1, <4>2
      <4> QED
        BY <2>1, <3>3, <4>3 DEF IInv, Bytes, Early
    <3> QED
      BY <2>1, <2>2, <3>2, <3>3 DEF Bytes, At, Number, Early
  <2>7. Flag'
    BY <2>1, <2>2 DEF IInv, Flag
  <2>8. Consumed'
    BY <2>1, <2>2 DEF IInv, Consumed, Number
  <2> QED
    BY <1>t, <2>3, <2>4, <2>5, <2>6, <2>7, <2>8 DEF IInv
<1>2. CASE PushTestIndices
  <2>1. /\ prod.pc = "full"
        /\ prod'.pc = IF write_index = read_index THEN "flag" ELSE "write_index"
        /\ UNCHANGED <<ring, cons, next_in, next_out>>
    BY <1>2, <1>p DEF PushTestIndices, ProducerAt, ProdType
  <2>2. UNCHANGED <<read_index, write_index>> /\ Held' = Held
    BY <2>1 DEF ring, Held, Outstanding
  <2>3. Gap = Held /\ read_index = At(Held) /\ cons.pc \notin Advanced
    BY <2>1, EarlyGap DEF Early, IInv, Exclusion, Counting, Advanced
  <2>4. prod'.pc = "write_index" => Held # Size
    BY <1>t, <2>1, <2>3, Places
  <2>5. Indices'
    BY <2>1, <2>2, <2>3, <2>4 DEF Indices, Gap, At
  <2> QED
    BY <1>t, <2>1, <2>5, ProducerLooks DEF Early
<1>3. CASE PushTestFlag
  <2>1. /\ prod.pc = "flag"
        /\ prod'.pc = IF buffer_is_empty THEN "write_index" ELSE "over_load"
        /\ UNCHANGED <<ring, cons, next_in, next_out>>
    BY <1>3, <1>p DEF PushTestFlag, ProducerAt, ProdType
  <2>2. UNCHANGED <<read_index, write_index>> /\ Held' = Held
    BY <2>1 DEF ring, Held, Outstanding
  <2>3. /\ Gap = Held /\ read_index = At(Held) /\ cons.pc \notin Advanced
        /\ read_index = write_index
    BY <2>1, EarlyGap DEF Early, IInv, Exclusion, Counting, Advanced, Indices
  <2>4. Held = 0 \/ Held = Size
    <3>1. ASSUME Held # 0, Held # Size PROVE FALSE
      <4>1. Held \in 0 .. Size - 1 /\ 0 \in 0 .. Size - 1
        BY <1>h, <3>1, Moduli
      <4> QED
        BY <1>t, <2>3, <3>1, <4>1, Places
    <3> QED
      BY <3>1
  <2>5. buffer_is_empty \in BOOLEAN /\ (buffer_is_empty = TRUE <=> Held = 0)
    BY <1>t, <2>1 DEF IInv, Flag, TypeOK
  <2>6. \/ prod'.pc = "write_index" /\ Held = 0 /\ Held # Size
        \/ prod'.pc = "over_load" /\ Held = Size
    BY <2>1, <2>4, <2>5, Moduli
  <2>7. Indices'
    BY <2>2, <2>1, <2>3, <2>6 DEF Indices, Gap, At
  <2> QED
    BY <1>t, <2>1, <2>6, <2>7, ProducerLooks DEF Early
<1>4. CASE PushLoadReadIndex
  <2>1. /\ prod.pc = "over_load" /\ prod'.pc = "over_store" /\ prod'.r = read_index
        /\ UNCHANGED <<ring, cons, next_in, next_out>>
    BY <1>4, <1>p DEF PushLoadReadIndex, ProducerAt, ProdType
  <2>2. UNCHANGED <<read_index, write_index>> /\ Held' = Held
    BY <2>1 DEF ring, Held, Outstanding
  <2>3. /\ Gap = Held /\ read_index = At(Held) /\ cons.pc \notin Advanced
        /\ Held = Size
    BY <2>1, EarlyGap DEF Early, IInv, Exclusion, Counting, Advanced, Indices
  <2>4. Indices'
    BY <2>1, <2>2, <2>3 DEF Indices, Gap, At
  <2> QED
    BY <1>t, <2>1, <2>4, ProducerLooks DEF Early
<1>5. CASE PushStoreReadIndex
  <2>1. /\ prod.pc = "over_store" /\ prod'.pc = "write_index"
        /\ read_index' = Advance(prod.r)
        /\ UNCHANGED <<buffer, write_index, buffer_is_empty, cons, next_in, next_out>>
    BY <1>5, <1>p DEF PushStoreReadIndex, ProducerAt, ProdType
  <2>2. Outstanding' = Outstanding /\ Held' = Held
    BY <2>1 DEF Outstanding, Held
  <2>3. Held = Size /\ prod.r = At(Size)
    BY <2>1, EarlyGap DEF Early, IInv, Indices
  <2>4. cons.pc = "idle"
    <3>1. use = "lockstep" => Held = 0
      BY <1>h, <2>1 DEF IInv, Bounds, Early
    <3> QED
      BY <2>1, <2>3, <3>1, Moduli DEF IInv, Exclusion
  <2>5. Bounds' /\ Exclusion'
    BY <1>t, <2>1, <2>2, <2>4 DEF IInv, Bounds, Exclusion, Early
  <2>6. Indices'
    <3>1. read_index' = At(Size - 1)
      BY <1>t, <2>1, <2>3, Places, Moduli
    <3>2. Gap' = Size - 1
      BY <2>1, <2>2, <2>3 DEF Gap
    <3> QED
      BY <2>1, <3>1, <3>2 DEF Indices, At
  <2>7. Bytes'
    BY <2>1, <2>2 DEF IInv, Bytes, At, Number, Early
  <2>8. Flag'
    BY <2>1, <2>2 DEF IInv, Flag
  <2>9. Consumed'
    BY <2>1, <2>4 DEF IInv, Consumed, Counting, Taken
  <2> QED
    BY <1>t, <2>5, <2>6, <2>7, <2>8, <2>9 DEF IInv
<1>6. CASE PushStoreWriteIndex
  <2>1. /\ prod.pc = "write_index" /\ prod'.pc = "clear_flag"
        /\ write_index' = Advance(write_index)
        /\ next_in' = (next_in + 1) % ByteMod
        /\ UNCHANGED <<buffer, read_index, buffer_is_empty, cons, next_out>>
    BY <1>6, <1>p DEF PushStoreWriteIndex, ProducerAt, ProdType
  <2> DEFINE g == IF Held = Size THEN Size - 1 ELSE Held
  <2>2. g \in 0 .. Size - 1 /\ (Held = 0 => g = 0)
    BY <1>h, Moduli
  <2>w. write_index \in 0 .. Size - 1 /\ next_in \in 0 .. ByteMod - 1
    BY <1>t DEF TypeOK, Slot, Byte
  <2>3. \A k \in 0 .. Size - 1 : Behind(Size, write_index', k + 1) = At(k)
    <3>1. write_index' = After(Size, write_index)
      BY <2>1, <2>w, AdvanceIs DEF After, Slot
    <3> QED
      BY <2>w, <3>1, Moduli, CircleFacts DEF At
  <2>4. \A k \in 0 .. ByteMod - 1 : Behind(ByteMod, next_in', k + 1) = Number(k)
    <3>1. next_in' = After(ByteMod, next_in)
      BY <2>1, <2>w, SuccessorIs DEF After, Byte
    <3> QED
      BY <2>w, <3>1, Moduli, CircleFacts DEF Number
  <2>5. Outstanding' = Outstanding + 1 /\ Outstanding < Limit
    <3>1. Outstanding < Limit
      BY <2>1 DEF IInv, Bounds, Early
    <3>2. Outstanding + 1 \in 0 .. ByteMod - 1 /\ Outstanding \in 0 .. ByteMod - 1
      BY <1>h, <3>1, Moduli
    <3>3. next_out = Behind(ByteMod, next_in', Outstanding + 1)
      BY <1>t, <2>4, <3>2, HeldFacts
    <3>4. /\ next_in' \in 0 .. ByteMod - 1 /\ next_out' = next_out
          /\ next_out \in 0 .. ByteMod - 1
      BY <1>t, <2>1 DEF TypeOK, Byte
    <3>5. Outstanding' = Behind(ByteMod, next_in', next_out)
      BY <3>4, DistanceIs DEF Outstanding, Byte
    <3>6. Outstanding' = Outstanding + 1
      <4>1. Behind(ByteMod, next_in', Behind(ByteMod, next_in', Outstanding + 1))
              = Outstanding + 1
        BY <3>2, <3>4, Moduli, BehindTwice
      <4> QED
        BY <3>3, <3>5, <4>1
    <3> QED
      BY <3>1, <3>6
  <2>6. Held' = g + 1 /\ Held' # 0
    BY <1>h, <2>2, <2>5, Moduli DEF Held
  <2>7. cons.pc # "idle" => use = "lockstep" /\ cons.pc \in Counting /\ Outstanding = 0
    BY <2>1 DEF IInv, Exclusion, Bounds, Early
  <2>8. Bounds'
    BY <1>t, <1>h, <2>1, <2>5, Moduli DEF IInv, Bounds, Early
  <2>9. Exclusion'
    BY <1>t, <2>1, <2>7 DEF Exclusion
  <2>10. read_index = At(g)
    <3>1. cons.pc \notin Advanced
      BY <2>7 DEF Counting, Advanced
    <3> QED
      BY <2>1, <3>1 DEF IInv, Indices, Gap
  <2>11. Indices'
    <3>1. cons'.pc \notin Advanced
      BY <2>1, <2>7 DEF Counting, Advanced
    <3>2. Gap' = g + 1
      BY <2>1, <2>6, <3>1 DEF Gap
    <3>3. read_index' = Behind(Size, write_index', g + 1)
      BY <2>1, <2>2, <2>3, <2>10
    <3>4. read_index' = At(Gap)'
      BY <3>2, <3>3 DEF At
    <3> QED
      BY <2>1, <3>4 DEF Indices
  <2>12. Bytes'
    <3>1. ASSUME NEW k \in 1 .. g + 1
          PROVE  buffer[Behind(Size, write_index', k)] = Behind(ByteMod, next_in', k)
      <4>1. k - 1 \in 0 .. Size - 1 /\ k - 1 \in 0 .. ByteMod - 1 /\ (k - 1) + 1 = k
        <5> HIDE DEF g
        <5> QED
          BY <2>2, Moduli
      <4>2. /\ Behind(Size, write_index', k) = At(k - 1)
            /\ Behind(ByteMod, next_in', k) = Number(k - 1)
        BY <2>3, <2>4, <4>1
      <4>3. CASE k = 1
        <5>1. At(k - 1) = write_index /\ Number(k - 1) = next_in
          BY <1>t, <4>3, Places
        <5> QED
          BY <2>1, <4>2, <5>1 DEF IInv, Bytes, Early
      <4>4. CASE k # 1
        <5>1. k - 1 \in 1 .. Held /\ k - 1 # Size
          BY <1>h, <2>2, <4>4, Moduli
        <5>2. buffer[At(k - 1)] = Number(k - 1)
          BY <5>1 DEF IInv, Bytes
        <5> QED
          BY <4>2, <5>2
      <4> QED
        BY <4>3, <4>4
    <3> HIDE DEF g
    <3> QED
      BY <2>1, <2>6, <3>1 DEF Bytes, At, Number, Early
  <2>13. Flag'
    BY <2>1 DEF Flag
  <2>14. Consumed'
    <3>1. CASE cons.pc = "idle"
      BY <2>1, <3>1 DEF IInv, Consumed, Counting, Taken
    <3>2. CASE cons.pc # "idle"
      <4>1. cons.pc \in Counting /\ Outstanding = 0 /\ Held = 0 /\ g = 0
        BY <1>h, <2>2, <2>7, <3>2
      <4>2. read_index = write_index
        BY <1>t, <2>10, <4>1, Places
      <4>3. cons.pc \in {"gt_r", "lt_r"} => cons.x = read_index
        BY <4>2 DEF IInv, Consumed
      <4>4. Behind(ByteMod, next_in', 1) = Number(0) /\ cons.oldest = Number(0)
        BY <2>4, <3>2, <4>1, Moduli DEF IInv, Consumed
      <4>5. cons.oldest = Number(Held)'
        BY <2>6, <4>1, <4>4 DEF Number
      <4>6. Outstanding' # 0
        BY <2>5, <4>1
      <4> QED
        BY <2>1, <4>1, <4>3, <4>5, <4>6 DEF Consumed, Counting, Taken
    <3> QED
      BY <3>1, <3>2
  <2> QED
    BY <1>t, <2>8, <2>9, <2>11, <2>12, <2>13, <2>14 DEF IInv
<1>7. CASE PushClearFlag
  <2>1. /\ prod.pc = "clear_flag" /\ prod'.pc = "idle" /\ buffer_is_empty' = FALSE
        /\ UNCHANGED <<buffer, read_index, write_index, cons, next_in, next_out>>
    BY <1>7, <1>p DEF PushClearFlag, ProducerAt, ProdType
  <2>2. Outstanding' = Outstanding /\ Held' = Held
    BY <2>1 DEF Outstanding, Held
  <2>3. Held # 0
    BY <1>h, <2>1 DEF IInv, Bounds
  <2>4. Bounds' /\ Exclusion'
    BY <1>t, <2>1, <2>2 DEF IInv, Bounds, Exclusion, Early
  <2>5. Indices'
    BY <2>1, <2>2 DEF IInv, Indices, Gap, At
  <2>6. Bytes'
    BY <2>1, <2>2 DEF IInv, Bytes, At, Number, Early
  <2>7. Flag'
    BY <2>1, <2>2, <2>3 DEF Flag
  <2>8. Consumed'
    BY <2>1, <2>2 DEF IInv, Consumed, Number
  <2> QED
    BY <1>t, <2>4, <2>5, <2>6, <2>7, <2>8 DEF IInv
<1> QED
  BY <1>1, <1>2, <1>3, <1>4, <1>5, <1>6, <1>7 DEF Producer
(* A step of a pop that changes nothing but the consumer's registers. *)
LEMMA ConsumerLooks ==
  ASSUME IInv, TypeOK', UNCHANGED <<use, ring, prod, next_in, next_out>>,
         prod.pc = "idle", cons.pc \in Advanced <=> cons'.pc \in Advanced, Consumed'
  PROVE  IInv'
<1>1. Outstanding' = Outstanding /\ Held' = Held
  BY DEF Outstanding, Held
<1>2. Bounds' /\ Exclusion'
  BY <1>1 DEF IInv, Bounds, Exclusion
<1>3. Indices'
  BY <1>1 DEF IInv, Indices, Gap, At, ring
<1>4. Bytes'
  BY <1>1 DEF IInv, Bytes, ring, At, Number
<1>5. Flag'
  BY <1>1 DEF IInv, Flag, ring
<1> QED
  BY <1>2, <1>3, <1>4, <1>5 DEF IInv

(* What the indices and the flag tell the consumer between two pushes. *)
LEMMA QuietRing ==
  ASSUME IInv, prod.pc = "idle", cons.pc \notin Advanced
  PROVE  /\ read_index = At(Held) /\ Held \in 0 .. Size
         /\ read_index # write_index => Held # 0
         /\ buffer_is_empty = TRUE <=> Held = 0
<1>1. TypeOK
  BY DEF IInv
<1>2. Held \in 0 .. Size /\ At(0) = write_index
  BY <1>1, HeldFacts, Places
<1>3. read_index = At(Held)
  BY DEF IInv, Indices, Gap
<1>4. buffer_is_empty = TRUE <=> Held = 0
  BY DEF IInv, Flag
<1> QED
  BY <1>2, <1>3, <1>4

(* The pop. *)
LEMMA ConsumerIInv ==
  ASSUME IInv, Consumer
  PROVE  IInv'
<1>t. TypeOK' /\ TypeOK /\ use' = use
  BY ConsumerKeepsType DEF IInv, Consumer
<1>c. cons \in ConsType
  BY <1>t DEF TypeOK, ConsType
<1>h. Held \in 0 .. Size /\ (Held = 0 <=> Outstanding = 0) /\ Outstanding \in Nat
  BY <1>t, HeldFacts, Moduli
<1>p. prod.pc = "idle"
  <2>1. \E pc \in ConsumerPC : ConsumerAt(pc)
    BY DEF Consumer, CountLoadWriteIndex, CountTestGreater, CountLoadMinuend, CountSubtract,
           CountLoadLess, CountTestLess, CountTestFlag, PopLoadSlot, PopLoadByte,
           PopLoadReadIndex, PopStoreReadIndex, PopCompareRead, PopCompareWrite,
           PopStoreFlag, Load, Test, ConsumerPC
  <2> QED
    BY <2>1 DEF ConsumerAt, IInv
<1>q. /\ prod.pc = "idle" /\ Held \in 0 .. Size
      /\ cons.pc \notin Advanced => /\ read_index = At(Held)
                                    /\ read_index # write_index => Held # 0
                                    /\ buffer_is_empty = TRUE <=> Held = 0
  BY <1>h, <1>p, QuietRing
<1>s. ASSUME UNCHANGED <<ring, prod, next_in, next_out>>
      PROVE  /\ Outstanding' = Outstanding /\ Held' = Held /\ Number(Held)' = Number(Held)
             /\ read_index' = read_index /\ write_index' = write_index
  BY <1>s DEF Outstanding, Held, Number, ring
<1>1. CASE CountLoadWriteIndex
  <2>1. /\ cons.pc = "idle" /\ cons'.pc = "gt_r" /\ cons'.x = write_index
        /\ cons'.oldest = Oldest /\ cons'.was_empty = (Outstanding = 0)
        /\ UNCHANGED <<ring, prod, next_in, next_out>>
    BY <1>1, <1>c DEF CountLoadWriteIndex, ConsumerAt, ConsType
  <2>2. cons'.oldest = Number(Held)'
    BY <1>t, <1>s, <2>1, HeldFacts
  <2>3. Outstanding' = 0 => cons'.was_empty = TRUE
    BY <1>s, <2>1
  <2>4. Consumed'
    BY <1>s, <2>1, <2>2, <2>3 DEF Consumed, Counting, Taken
  <2> QED
    BY <1>t, <1>q, <2>1, <2>4, ConsumerLooks DEF Advanced
<1>2. CASE CountTestGreater
  <2>1. /\ cons.pc = "gt_r" /\ cons'.pc = IF cons.x > read_index THEN "sub_w" ELSE "lt_w"
        /\ cons'.x = cons.x /\ cons'.y = read_index
        /\ cons'.byte = cons.byte /\ cons'.oldest = cons.oldest /\ cons'.was_empty = cons.was_empty
        /\ UNCHANGED <<ring, prod, next_in, next_out>>
    BY <1>2, <1>c DEF CountTestGreater, Test, ConsumerAt, ConsType
  <2>3. cons.x > read_index => read_index # write_index
    <3>1. cons.x \in {read_index, write_index} /\ read_index \in Nat
      BY <1>t, <2>1 DEF IInv, Consumed, TypeOK, Slot
    <3> QED
      BY <3>1
  <2>4. cons'.pc \in {"sub_w", "lt_w"} /\ (cons'.pc = "sub_w" => read_index # write_index /\ Held # 0)
    BY <1>q, <2>1, <2>3 DEF Advanced
  <2>2. Consumed'
    BY <1>q, <2>1, <1>s, <2>4 DEF IInv, Consumed, Counting, Taken, Number, ring
  <2> QED
    BY <1>t, <1>q, <2>1, <2>2, <2>4, ConsumerLooks DEF Advanced
<1>3. CASE CountLoadMinuend
  <2>1. /\ cons.pc = "sub_w" /\ cons'.pc = "sub_r"
        /\ cons'.x = write_index /\ cons'.y = cons.y
        /\ cons'.byte = cons.byte /\ cons'.oldest = cons.oldest /\ cons'.was_empty = cons.was_empty
        /\ UNCHANGED <<ring, prod, next_in, next_out>>
    BY <1>3, <1>c DEF CountLoadMinuend, Load, ConsumerAt, ConsType
  <2>2. Consumed'
    BY <1>q, <2>1, <1>s DEF IInv, Consumed, Counting, Taken, Number, ring
  <2> QED
    BY <1>t, <1>q, <2>1, <2>2, ConsumerLooks DEF Advanced
<1>4. CASE CountSubtract
  <2>0. cons.pc = "sub_r"
    BY <1>4 DEF CountSubtract, Load, ConsumerAt
  <2>a. cons.x # read_index
    BY <2>0 DEF IInv, Consumed
  <2>1. /\ cons'.pc = "slot" /\ cons'.x = cons.x /\ cons'.y = read_index
        /\ cons'.byte = cons.byte /\ cons'.oldest = cons.oldest
        /\ cons'.was_empty = cons.was_empty
        /\ UNCHANGED <<ring, prod, next_in, next_out>>
    BY <1>4, <1>c, <2>a DEF CountSubtract, Load, ConsType
  <2>2. Consumed'
    BY <1>s, <2>0, <2>1 DEF IInv, Consumed, Counting, Taken
  <2> QED
    BY <1>t, <1>q, <2>0, <2>1, <2>2, ConsumerLooks DEF Advanced
<1>5. CASE CountLoadLess
  <2>1. /\ cons.pc = "lt_w" /\ cons'.pc = "lt_r"
        /\ cons'.x = write_index /\ cons'.y = cons.y
        /\ cons'.byte = cons.byte /\ cons'.oldest = cons.oldest /\ cons'.was_empty = cons.was_empty
        /\ UNCHANGED <<ring, prod, next_in, next_out>>
    BY <1>5, <1>c DEF CountLoadLess, Load, ConsumerAt, ConsType
  <2>2. Consumed'
    BY <1>q, <2>1, <1>s DEF IInv, Consumed, Counting, Taken, Number, ring
  <2> QED
    BY <1>t, <1>q, <2>1, <2>2, ConsumerLooks DEF Advanced
<1>6. CASE CountTestLess
  <2>1. /\ cons.pc = "lt_r" /\ cons'.pc = IF cons.x < read_index THEN "slot" ELSE "empty"
        /\ cons'.x = cons.x /\ cons'.y = read_index
        /\ cons'.byte = cons.byte /\ cons'.oldest = cons.oldest /\ cons'.was_empty = cons.was_empty
        /\ UNCHANGED <<ring, prod, next_in, next_out>>
    BY <1>6, <1>c DEF CountTestLess, Test, ConsumerAt, ConsType
  <2>3. cons.x < read_index => read_index # write_index
    <3>1. cons.x \in {read_index, write_index} /\ read_index \in Nat
      BY <1>t, <2>1 DEF IInv, Consumed, TypeOK, Slot
    <3> QED
      BY <3>1
  <2>4. cons'.pc \in {"slot", "empty"} /\ (cons'.pc = "slot" => Held # 0)
    BY <1>q, <2>1, <2>3 DEF Advanced
  <2>2. Consumed'
    BY <1>q, <2>1, <1>s, <2>4 DEF IInv, Consumed, Counting, Taken, Number, ring
  <2> QED
    BY <1>t, <1>q, <2>1, <2>2, <2>4, ConsumerLooks DEF Advanced
<1>7. CASE CountTestFlag
  <2>0. cons.pc = "empty" /\ UNCHANGED <<ring, prod, next_in, next_out>>
    BY <1>7 DEF CountTestFlag, ConsumerAt, ReturnEmpty
  <2>1. /\ cons'.oldest = cons.oldest /\ cons'.was_empty = cons.was_empty
        /\ IF Held = 0 THEN cons'.pc = "idle" ELSE cons'.pc = "slot"
    <3>1. CASE Held = 0
      <4>1. cons' = [cons EXCEPT !.pc = "idle", !.ret = ERR_EMPTY]
        BY <1>7, <1>q, <2>0, <3>1 DEF CountTestFlag, ReturnEmpty, Advanced
      <4> QED
        BY <1>c, <3>1, <4>1 DEF ConsType
    <3>2. CASE Held # 0
      <4>1. buffer_is_empty = FALSE
        BY <1>t, <1>q, <2>0, <3>2 DEF Advanced, TypeOK
      <4>2. cons' = [cons EXCEPT !.pc = "slot"]
        BY <1>7, <4>1 DEF CountTestFlag
      <4> QED
        BY <1>c, <3>2, <4>2 DEF ConsType
    <3> QED
      BY <3>1, <3>2
  <2>2. Held = 0 => cons.was_empty = TRUE
    BY <1>h, <2>0 DEF IInv, Consumed
  <2>3. Consumed'
    BY <1>s, <2>0, <2>1, <2>2 DEF IInv, Consumed, Counting, Taken
  <2> QED
    BY <1>t, <1>q, <2>0, <2>1, <2>3, ConsumerLooks DEF Advanced
<1>8. CASE PopLoadSlot
  <2>1. /\ cons.pc = "slot" /\ cons'.pc = "byte"
        /\ cons'.x = read_index /\ cons'.y = cons.y
        /\ cons'.byte = cons.byte /\ cons'.oldest = cons.oldest /\ cons'.was_empty = cons.was_empty
        /\ UNCHANGED <<ring, prod, next_in, next_out>>
    BY <1>8, <1>c DEF PopLoadSlot, Load, ConsumerAt, ConsType
  <2>2. Consumed'
    BY <1>q, <2>1, <1>s DEF IInv, Consumed, Counting, Taken, Number, ring
  <2> QED
    BY <1>t, <1>q, <2>1, <2>2, ConsumerLooks DEF Advanced
<1>9. CASE PopLoadByte
  <2>1. /\ cons.pc = "byte" /\ cons'.pc = "next_load"
        /\ cons'.x = cons.x /\ cons'.y = cons.y
        /\ cons'.byte = buffer[cons.x] /\ cons'.oldest = cons.oldest /\ cons'.was_empty = cons.was_empty
        /\ UNCHANGED <<ring, prod, next_in, next_out>>
    BY <1>9, <1>c DEF PopLoadByte, Load, ConsumerAt, ConsType
  <2>3. buffer[cons.x] = cons.oldest
    <3>1. Held # 0 /\ cons.x = At(Held) /\ cons.oldest = Number(Held)
      BY <1>q, <2>1 DEF IInv, Consumed, Counting, Advanced
    <3>2. Held \in 1 .. Held
      BY <1>h, <3>1
    <3> QED
      BY <1>p, <3>1, <3>2 DEF IInv, Bytes, Early
  <2>2. Consumed'
    BY <1>q, <2>1, <1>s, <2>3 DEF IInv, Consumed, Counting, Taken, Number, ring
  <2> QED
    BY <1>t, <1>q, <2>1, <2>2, ConsumerLooks DEF Advanced
<1>10. CASE PopLoadReadIndex
  <2>1. /\ cons.pc = "next_load" /\ cons'.pc = "next_store"
        /\ cons'.x = read_index /\ cons'.y = cons.y
        /\ cons'.byte = cons.byte /\ cons'.oldest = cons.oldest /\ cons'.was_empty = cons.was_empty
        /\ UNCHANGED <<ring, prod, next_in, next_out>>
    BY <1>10, <1>c DEF PopLoadReadIndex, Load, ConsumerAt, ConsType
  <2>2. Consumed'
    BY <1>q, <2>1, <1>s DEF IInv, Consumed, Counting, Taken, Number, ring
  <2> QED
    BY <1>t, <1>q, <2>1, <2>2, ConsumerLooks DEF Advanced
<1>11. CASE PopStoreReadIndex
  <2>1. /\ cons.pc = "next_store" /\ cons'.pc = "cmp_r" /\ read_index' = Advance(cons.x)
        /\ cons'.byte = cons.byte /\ cons'.oldest = cons.oldest
        /\ cons'.was_empty = cons.was_empty
        /\ UNCHANGED <<buffer, write_index, buffer_is_empty, prod, next_in, next_out>>
    BY <1>11, <1>c DEF PopStoreReadIndex, ConsumerAt, ConsType
  <2>2. Outstanding' = Outstanding /\ Held' = Held
    BY <2>1 DEF Outstanding, Held
  <2>3. Held # 0 /\ cons.x = At(Held)
    BY <1>q, <2>1 DEF IInv, Consumed, Counting, Advanced
  <2>4. read_index' = At(Held - 1)
    <3>1. Held \in 1 .. Size
      BY <1>h, <2>3
    <3> QED
      BY <1>t, <2>1, <2>3, <3>1, Places
  <2>5. Indices'
    BY <1>p, <2>1, <2>2, <2>4 DEF Indices, Gap, Advanced, At
  <2>6. Bounds' /\ Exclusion'
    BY <1>t, <1>p, <2>1, <2>2 DEF IInv, Bounds, Exclusion
  <2>7. Bytes'
    BY <2>1, <2>2 DEF IInv, Bytes, At, Number
  <2>8. Flag'
    BY <2>1, <2>2 DEF IInv, Flag
  <2>9. Consumed'
    BY <2>1, <2>2 DEF IInv, Consumed, Counting, Taken, Number
  <2> QED
    BY <1>t, <2>5, <2>6, <2>7, <2>8, <2>9 DEF IInv
<1>12. CASE PopCompareRead
  <2>1. /\ cons.pc = "cmp_r" /\ cons'.pc = "cmp_w"
        /\ cons'.x = read_index /\ cons'.y = cons.y
        /\ cons'.byte = cons.byte /\ cons'.oldest = cons.oldest /\ cons'.was_empty = cons.was_empty
        /\ UNCHANGED <<ring, prod, next_in, next_out>>
    BY <1>12, <1>c DEF PopCompareRead, Load, ConsumerAt, ConsType
  <2>2. Consumed'
    BY <1>q, <2>1, <1>s DEF IInv, Consumed, Counting, Taken, Number, ring
  <2> QED
    BY <1>t, <1>q, <2>1, <2>2, ConsumerLooks DEF Advanced
<1>13. CASE PopCompareWrite
  <2>1. /\ cons.pc = "cmp_w" /\ cons'.pc = "set_flag"
        /\ cons'.x = cons.x /\ cons'.y = write_index
        /\ cons'.byte = cons.byte /\ cons'.oldest = cons.oldest /\ cons'.was_empty = cons.was_empty
        /\ UNCHANGED <<ring, prod, next_in, next_out>>
    BY <1>13, <1>c DEF PopCompareWrite, Load, ConsumerAt, ConsType
  <2>2. Consumed'
    BY <1>q, <2>1, <1>s DEF IInv, Consumed, Counting, Taken, Number, ring
  <2> QED
    BY <1>t, <1>q, <2>1, <2>2, ConsumerLooks DEF Advanced
<1>14. CASE PopStoreFlag
  <2>1. /\ cons.pc = "set_flag" /\ cons'.pc = "idle" /\ cons'.ret = ERR_NONE
        /\ buffer_is_empty' = (cons.x = cons.y) /\ next_out' = (cons.byte + 1) % ByteMod
        /\ UNCHANGED <<buffer, read_index, write_index, prod, next_in>>
    BY <1>14, <1>c DEF PopStoreFlag, ConsumerAt, ConsType
  <2>2. /\ Held \in 1 .. Size /\ cons.x = read_index /\ cons.y = write_index
        /\ cons.byte = Number(Held) /\ read_index = At(Held - 1)
    BY <1>h, <1>p, <2>1 DEF IInv, Consumed, Indices, Gap, Counting, Taken, Advanced
  <2>3. Outstanding' = Held - 1
    <3>1. Held \in 1 .. ByteMod /\ Held - 1 \in 0 .. ByteMod - 1
      BY <2>2, Moduli
    <3>2. next_out' = Behind(ByteMod, next_in, Held - 1)
      BY <1>t, <2>1, <2>2, <3>1, Places DEF Number
    <3>3. /\ next_in \in 0 .. ByteMod - 1 /\ next_in' = next_in
          /\ next_out' \in 0 .. ByteMod - 1
      BY <1>t, <2>1 DEF TypeOK, Byte
    <3>4. Outstanding' = Behind(ByteMod, next_in, next_out')
      BY <3>3, DistanceIs DEF Outstanding, Byte
    <3>5. Behind(ByteMod, next_in, Behind(ByteMod, next_in, Held - 1)) = Held - 1
      BY <3>1, <3>3, Moduli, BehindTwice
    <3> QED
      BY <3>2, <3>4, <3>5
  <2>4. Held' = Held - 1 /\ Held <= Outstanding
    BY <1>h, <2>2, <2>3, Moduli DEF Held
  <2>5. Bounds' /\ Exclusion'
    <3>1. Outstanding' \in Nat /\ Outstanding' <= Outstanding
      BY <1>h, <2>2, <2>3, <2>4
    <3> QED
      BY <1>t, <1>h, <1>p, <2>1, <3>1, Moduli DEF IInv, Bounds, Exclusion, Early
  <2>6. Indices'
    <3>1. Gap' = Held - 1
      BY <1>p, <2>1, <2>4 DEF Gap, Advanced
    <3> QED
      BY <1>p, <2>1, <2>2, <3>1 DEF Indices, At
  <2>7. Bytes'
    <3>1. \A k \in 1 .. Held - 1 : k \in 1 .. Held
      BY <2>2
    <3> QED
      BY <1>p, <2>1, <2>4, <3>1 DEF IInv, Bytes, At, Number, Early
  <2>8. Flag'
    <3>1. read_index = write_index <=> Held - 1 = 0
      <4>1. Held - 1 \in 0 .. Size - 1 /\ 0 \in 0 .. Size - 1
        BY <2>2, Moduli
      <4> QED
        BY <1>t, <2>2, <4>1, Places
    <3> QED
      BY <2>1, <2>2, <2>4, <3>1 DEF Flag
  <2>9. Consumed'
    BY <2>1 DEF Consumed, Counting, Taken
  <2> QED
    BY <1>t, <2>5, <2>6, <2>7, <2>8, <2>9 DEF IInv
<1> QED
  BY <1>1, <1>2, <1>3, <1>4, <1>5, <1>6, <1>7, <1>8, <1>9, <1>10, <1>11, <1>12,
     <1>13, <1>14 DEF Consumer

(* Every step keeps it. *)
LEMMA NextIInv == IInv /\ [Next]_vars => IInv'
<1>1. IInv /\ UNCHANGED vars => IInv'
  <2> SUFFICES ASSUME IInv, UNCHANGED vars PROVE IInv'
    OBVIOUS
  <2>1. UNCHANGED <<use, buffer, read_index, write_index, buffer_is_empty, prod, cons,
                    next_in, next_out>>
    BY DEF vars, ring
  <2> QED
    BY <2>1 DEF IInv, TypeOK, Bounds, Exclusion, Indices, Bytes, Flag, Consumed, Gap, At,
                Number, Held, Outstanding
<1> QED
  BY <1>1, ProducerIInv, ConsumerIInv DEF Next

(* What it says of a pop. *)
LEMMA IInvPops ==
  ASSUME IInv
  PROVE  PopsOldest /\ EmptyMeansEmpty
<1>1. PopsOldest
  <2> SUFFICES ASSUME cons.pc \in Taken
               PROVE  Distance(cons.oldest, cons.byte) <= Distance(cons.oldest, Oldest)
    BY DEF PopsOldest, Taken
  <2>1. TypeOK /\ cons.byte = cons.oldest
    BY DEF IInv, Consumed
  <2>2. cons.oldest = Oldest
    BY <2>1, HeldFacts DEF IInv, Consumed, Taken
  <2>3. Distance(cons.oldest, Oldest) \in Byte
    BY <2>1, <2>2, OutstandingType, DistanceIs
  <2> QED
    BY <2>1, <2>2, <2>3 DEF Byte
<1>2. EmptyMeansEmpty
  BY DEF IInv, Consumed, EmptyMeansEmpty
<1> QED
  BY <1>1, <1>2

(***************************************************************************)
(* Where the main loop masks the interrupt around its calls, or the        *)
(* interrupt waits for its last byte to be popped, circular_buffer_pop_byte*)
(* hands out the oldest byte of the ring, for every size of the ring and   *)
(* every limit on the bytes outstanding, overwritten bytes included.       *)
(***************************************************************************)
THEOREM IsrPopsOldest ==
  ASSUME SafeUses
  PROVE  Spec => []PopsOldest
  BY InitIInv, NextIInv, IInvPops, PTL DEF Spec

(***************************************************************************)
(* Used so, circular_buffer_pop_byte never returns ERR_EMPTY for a ring    *)
(* that held a byte when it was called: the buffer_is_empty flag that both *)
(* sides write is never stale when get_count reads it.                     *)
(***************************************************************************)
THEOREM IsrEmptyMeansEmpty ==
  ASSUME SafeUses
  PROVE  Spec => []EmptyMeansEmpty
  BY InitIInv, NextIInv, IInvPops, PTL DEF Spec
=============================================================================
