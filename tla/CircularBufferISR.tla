------------------------- MODULE CircularBufferISR -------------------------
(***************************************************************************)
(* src/src/collections/circular_buffer.c used as circular_buffer.h offers  *)
(* it: one producer and one consumer, one of them in an interrupt handler. *)
(* Each call is cut at its loads and stores of the shared fields, in       *)
(* program order with operands loaded left to right, as the build (which   *)
(* asks for no optimisation) emits them.  The interrupt may come between   *)
(* any two of them and runs its call to the end, unless the main loop has  *)
(* masked it.                                                              *)
(*                                                                         *)
(* The byte pushed is a running number modulo ByteMod, so that a lost,     *)
(* repeated or misplaced byte shows.                                       *)
(***************************************************************************)
EXTENDS Naturals, ErrorCodes

CONSTANTS
  Size,        \* buffer_max_size of the initialised ring
  Limit,       \* the producer pushes only while fewer bytes than this are
               \* outstanding; more than Size allows overwriting
  ByteMod,     \* number of byte values
  Uses         \* the ways of using the ring that are considered

ASSUME SizeAssumption      == Size \in Nat \ {0}
ASSUME LimitAssumption     == Limit \in Nat \ {0}
ASSUME ByteModAssumption   == ByteMod \in Nat /\ ByteMod > Size + Limit
ASSUME UsesAssumption      ==
  Uses \subseteq {"isr_pushes", "isr_pops", "lockstep", "masked"}

VARIABLES
  use,         \* which call is in the interrupt: "isr_pushes", "isr_pops";
               \* "lockstep": it pushes once the last byte has been popped;
               \* "masked": the main loop masks it around its own calls
  buffer, read_index, write_index, buffer_is_empty,   \* the shared ring
  prod,        \* the producer's call: pc and register
  cons,        \* the consumer's call: pc, registers, its byte and result
  next_in,     \* the next byte the producer pushes
  next_out     \* the byte after the last one popped

ring == <<buffer, read_index, write_index, buffer_is_empty>>
vars == <<use, ring, prod, cons, next_in, next_out>>

Slot == 0 .. Size - 1
Byte == 0 .. ByteMod - 1

ProducerPC == {"idle", "full", "flag", "over_load", "over_store",
               "write_index", "clear_flag"}
ConsumerPC == {"idle", "gt_r", "sub_w", "sub_r", "lt_w", "lt_r", "empty",
               "slot", "byte", "next_load", "next_store", "cmp_r", "cmp_w",
               "set_flag"}

TypeOK ==
  /\ use \in Uses
  /\ buffer \in [Slot -> Byte]
  /\ read_index \in Slot
  /\ write_index \in Slot
  /\ buffer_is_empty \in BOOLEAN
  /\ prod \in [pc : ProducerPC, r : Slot]
  /\ cons \in [pc : ConsumerPC, x : Slot, y : Slot, byte : Byte,
               ret : ErrorCode, oldest : Byte, was_empty : BOOLEAN]
  /\ next_in \in Byte
  /\ next_out \in Byte

(* Faulty variant: the index runs past the end of the ring. *)
AdvanceWithoutWrap(index) == index + 1

Advance(index) == (index + 1) % Size

(* How far byte b comes after byte a in push order. *)
Distance(a, b) == (b + (ByteMod - a)) % ByteMod

(* Bytes pushed since the last one popped, overwritten ones included. *)
Outstanding == Distance(next_out, next_in)

(* The byte a pop has to return: the oldest not yet popped or overwritten. *)
Oldest == IF Outstanding > Size THEN Distance(Size, next_in) ELSE next_out

(* The state circular_buffer_init leaves, both sides outside any call. *)
Init ==
  /\ use \in Uses
  /\ buffer = [s \in Slot |-> ByteMod - 1]
  /\ read_index = 0
  /\ write_index = 0
  /\ buffer_is_empty = TRUE
  /\ prod = [pc |-> "idle", r |-> 0]
  /\ cons = [pc |-> "idle", x |-> 0, y |-> 0, byte |-> 0,
             ret |-> ERR_NONE, oldest |-> 0, was_empty |-> TRUE]
  /\ next_in = 0
  /\ next_out = 0

-----------------------------------------------------------------------------
(* circular_buffer_push_byte, in the order of its shared accesses.  Only   *)
(* the producer writes write_index, so its loads of it need no step.       *)

ProducerAt(pc) ==
  /\ prod.pc = pc
  /\ use \in {"isr_pops", "masked"} => cons.pc = "idle"

(* buffer[write_index] = byte *)
PushStoreByte ==
  /\ ProducerAt("idle")
  /\ Outstanding < IF use = "lockstep" THEN 1 ELSE Limit
  /\ buffer' = [buffer EXCEPT ![write_index] = next_in]
  /\ prod' = [prod EXCEPT !.pc = "full"]
  /\ UNCHANGED <<read_index, write_index, buffer_is_empty, cons,
                 next_in, next_out>>

(* write_index == read_index && ... *)
PushTestIndices ==
  /\ ProducerAt("full")
  /\ prod' = [prod EXCEPT !.pc = IF write_index = read_index
                                   THEN "flag" ELSE "write_index"]
  /\ UNCHANGED <<ring, cons, next_in, next_out>>

(* ... !buffer_is_empty *)
PushTestFlag ==
  /\ ProducerAt("flag")
  /\ prod' = [prod EXCEPT !.pc = IF buffer_is_empty
                                   THEN "write_index" ELSE "over_load"]
  /\ UNCHANGED <<ring, cons, next_in, next_out>>

(* read_index = (read_index + 1) % buffer_max_size *)
PushLoadReadIndex ==
  /\ ProducerAt("over_load")
  /\ prod' = [pc |-> "over_store", r |-> read_index]
  /\ UNCHANGED <<ring, cons, next_in, next_out>>

(* Faulty variant: the overwritten byte stays the next one to be read. *)
PushKeepsReadIndex ==
  /\ ProducerAt("over_store")
  /\ prod' = [prod EXCEPT !.pc = "write_index"]
  /\ UNCHANGED <<ring, cons, next_in, next_out>>

PushStoreReadIndex ==
  /\ ProducerAt("over_store")
  /\ read_index' = Advance(prod.r)
  /\ prod' = [prod EXCEPT !.pc = "write_index"]
  /\ UNCHANGED <<buffer, write_index, buffer_is_empty, cons,
                 next_in, next_out>>

(* The store that publishes the byte. *)
PushStoreWriteIndex ==
  /\ ProducerAt("write_index")
  /\ write_index' = Advance(write_index)
  /\ next_in' = (next_in + 1) % ByteMod
  /\ prod' = [prod EXCEPT !.pc = "clear_flag"]
  /\ UNCHANGED <<buffer, read_index, buffer_is_empty, cons, next_out>>

(* Faulty variant: the flag set by init or a pop outlives a push. *)
PushLeavesFlag ==
  /\ ProducerAt("clear_flag")
  /\ prod' = [prod EXCEPT !.pc = "idle"]
  /\ UNCHANGED <<ring, cons, next_in, next_out>>

PushClearFlag ==
  /\ ProducerAt("clear_flag")
  /\ buffer_is_empty' = FALSE
  /\ prod' = [prod EXCEPT !.pc = "idle"]
  /\ UNCHANGED <<buffer, read_index, write_index, cons, next_in, next_out>>

Producer ==
  /\ \/ PushStoreByte
     \/ PushTestIndices
     \/ PushTestFlag
     \/ PushLoadReadIndex
     \/ PushStoreReadIndex
     \/ PushStoreWriteIndex
     \/ PushClearFlag
  /\ UNCHANGED use

-----------------------------------------------------------------------------
(* circular_buffer_pop_byte, with the circular_buffer_get_count it calls   *)
(* first.  The producer may write every field, so each load is a step.     *)

ConsumerAt(pc) ==
  /\ cons.pc = pc
  /\ use \in {"isr_pushes", "lockstep", "masked"} => prod.pc = "idle"

Load(from, to, field, value) ==
  /\ ConsumerAt(from)
  /\ cons' = [cons EXCEPT !.pc = to, ![field] = value]
  /\ UNCHANGED <<ring, prod, next_in, next_out>>

(* Load the second operand of a test of (x, value); go on where it says. *)
Test(from, value, then(_, _)) ==
  /\ ConsumerAt(from)
  /\ cons' = [cons EXCEPT !.pc = then(cons.x, value), !.y = value]
  /\ UNCHANGED <<ring, prod, next_in, next_out>>

(* The call returns ERR_EMPTY. *)
ReturnEmpty ==
  /\ cons' = [cons EXCEPT !.pc = "idle", !.ret = ERR_EMPTY]
  /\ UNCHANGED <<ring, prod, next_in, next_out>>

(* write_index > read_index *)
CountLoadWriteIndex ==
  /\ ConsumerAt("idle")
  /\ cons' = [cons EXCEPT !.pc = "gt_r", !.x = write_index,
                          !.oldest = Oldest, !.was_empty = Outstanding = 0]
  /\ UNCHANGED <<ring, prod, next_in, next_out>>

CountTestGreater ==
  Test("gt_r", read_index, LAMBDA w, r : IF w > r THEN "sub_w" ELSE "lt_w")

(* write_index - read_index, compared with 0 by the caller *)
CountLoadMinuend == Load("sub_w", "sub_r", "x", write_index)

CountSubtract ==
  IF cons.x = read_index
    THEN ConsumerAt("sub_r") /\ ReturnEmpty
    ELSE Load("sub_r", "slot", "y", read_index)

(* write_index < read_index; the sum taken when it is can never be 0 *)
CountLoadLess == Load("lt_w", "lt_r", "x", write_index)

(* Faulty variant: a write index that has wrapped counts as nothing. *)
CountIgnoresWrap ==
  IF cons.x < read_index
    THEN ConsumerAt("lt_r") /\ ReturnEmpty
    ELSE Load("lt_r", "empty", "y", read_index)

CountTestLess ==
  Test("lt_r", read_index, LAMBDA w, r : IF w < r THEN "slot" ELSE "empty")

(* buffer_is_empty ? 0 : buffer_max_size *)
CountTestFlag ==
  /\ ConsumerAt("empty")
  /\ IF buffer_is_empty
       THEN ReturnEmpty
       ELSE /\ cons' = [cons EXCEPT !.pc = "slot"]
            /\ UNCHANGED <<ring, prod, next_in, next_out>>

(* *byte = buffer[read_index] *)
PopLoadSlot == Load("slot", "byte", "x", read_index)
PopLoadByte == Load("byte", "next_load", "byte", buffer[cons.x])

(* read_index = (read_index + 1) % buffer_max_size *)
PopLoadReadIndex == Load("next_load", "next_store", "x", read_index)

PopStoreReadIndex ==
  /\ ConsumerAt("next_store")
  /\ read_index' = Advance(cons.x)
  /\ cons' = [cons EXCEPT !.pc = "cmp_r"]
  /\ UNCHANGED <<buffer, write_index, buffer_is_empty, prod,
                 next_in, next_out>>

(* buffer_is_empty = (read_index == write_index) *)
PopCompareRead  == Load("cmp_r", "cmp_w", "x", read_index)
PopCompareWrite == Load("cmp_w", "set_flag", "y", write_index)

PopStoreFlag ==
  /\ ConsumerAt("set_flag")
  /\ buffer_is_empty' = (cons.x = cons.y)
  /\ next_out' = (cons.byte + 1) % ByteMod
  /\ cons' = [cons EXCEPT !.pc = "idle", !.ret = ERR_NONE]
  /\ UNCHANGED <<buffer, read_index, write_index, prod, next_in>>

Consumer ==
  /\ \/ CountLoadWriteIndex \/ CountTestGreater
     \/ CountLoadMinuend    \/ CountSubtract
     \/ CountLoadLess       \/ CountTestLess
     \/ CountTestFlag
     \/ PopLoadSlot         \/ PopLoadByte
     \/ PopLoadReadIndex    \/ PopStoreReadIndex
     \/ PopCompareRead      \/ PopCompareWrite
     \/ PopStoreFlag
  /\ UNCHANGED use

Next == Producer \/ Consumer

(***************************************************************************)
(* The main loop keeps polling, and a push that has begun is finished; no  *)
(* push has to begin.                                                      *)
(***************************************************************************)
Fairness ==
  /\ WF_vars(Consumer)
  /\ WF_vars(prod.pc # "idle" /\ Producer)

Spec == Init /\ [][Next]_vars /\ Fairness

-----------------------------------------------------------------------------
(***************************************************************************)
(* A pop hands out the oldest byte of the ring at some moment of the call: *)
(* none is repeated, invented or passed over except by being overwritten.  *)
(***************************************************************************)
PopsOldest ==
  cons.pc \in {"next_load", "next_store", "cmp_r", "cmp_w", "set_flag"} =>
    Distance(cons.oldest, cons.byte) <= Distance(cons.oldest, Oldest)

(***************************************************************************)
(* pop_byte returns ERR_EMPTY only if the ring was empty when it was       *)
(* called: get_count never reports 0 for a ring that holds bytes.          *)
(***************************************************************************)
EmptyMeansEmpty ==
  cons.pc = "idle" /\ cons.ret = ERR_EMPTY => cons.was_empty

(***************************************************************************)
(* A byte that waits to be popped is eventually popped: the flag the two   *)
(* sides both write never hides it from the polling consumer for good.     *)
(***************************************************************************)
Delivered ==
  \A b \in Byte : next_out = b /\ next_in # b ~> next_out # b
=============================================================================
