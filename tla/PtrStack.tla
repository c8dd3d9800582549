------------------------------ MODULE PtrStack ------------------------------
(***************************************************************************)
(* src/src/collections/ptr_stack.c: a bounded stack of pointers.  The      *)
(* stack is the record of its owner; "stack" holds the entries below       *)
(* stack_top, the only ones the code reads, so stack_top is its length.    *)
(***************************************************************************)
EXTENDS Naturals, Sequences, ErrorCodes

ptr_stack_get_remaining_count(s) == s.max_item_count - Len(s.stack)

(* With no items the stack is left as it was and the caller is told so. *)
ptr_stack_init(s, stack_item_count) ==
  IF stack_item_count = 0
    THEN s
    ELSE [stack |-> <<>>, max_item_count |-> stack_item_count]

ptr_stack_deinit == [stack |-> <<>>, max_item_count |-> 0]

(* Faulty variant: the room is not checked. *)
PushUnchecked(s, value) == [s EXCEPT !.stack = Append(@, value)]

(* The stack after a push; a full one is left as it was. *)
ptr_stack_push(s, value) ==
  IF ptr_stack_get_remaining_count(s) = 0
    THEN s
    ELSE [s EXCEPT !.stack = Append(@, value)]

(* ptr_stack_pop: whether it returns ERR_EMPTY, what it stores in *value   *)
(* and the stack it leaves.                                                *)
PopRefused(s) == ptr_stack_get_remaining_count(s) = s.max_item_count
Popped(s)     == s.stack[Len(s.stack)]
AfterPop(s)   == [s EXCEPT !.stack = SubSeq(@, 1, Len(@) - 1)]
=============================================================================
