---------------------------- MODULE BsearchIter ----------------------------
(***************************************************************************)
(* src/src/search_algos/bsearch_iter.c: a binary search that hands its     *)
(* client one index at a time and is told how the element there compares.  *)
(* An element that cannot be fetched is skipped: the iterator then probes  *)
(* around the pivot, at +1, -1, +2, -2, ..., until one can be.             *)
(*                                                                         *)
(* The client's sorted array is reduced to what a search can tell apart:   *)
(* the elements before match_lo are smaller than the wanted one, those     *)
(* from match_hi on are larger, those in between match it.                 *)
(***************************************************************************)
EXTENDS Integers, FiniteSets, ErrorCodes

CONSTANT
  IntMax     \* INT32_MAX

ASSUME IntMaxAssumption == IntMax \in Nat \ {0}

VARIABLES
  status, left_idx, right_idx, pivot_idx, pivot_offset,  \* the iterator
  start_idx, stop_idx,          \* the range of the last init
  match_lo, match_hi,           \* the client's array
  unreadable,                   \* the indices that cannot be fetched
  checked,                      \* the indices the client has looked at
  quit,                         \* the client aborted or deinitialised
  ret                           \* the last code init returned

iter   == <<status, left_idx, right_idx, pivot_idx, pivot_offset>>
client == <<start_idx, stop_idx, match_lo, match_hi, unreadable>>
vars   == <<iter, client, checked, quit, ret>>

BSEARCH_CONTINUE       == "BSEARCH_CONTINUE"
BSEARCH_DONE_NOT_FOUND == "BSEARCH_DONE_NOT_FOUND"
BSEARCH_DONE_FOUND     == "BSEARCH_DONE_FOUND"
Status == {BSEARCH_CONTINUE, BSEARCH_DONE_NOT_FOUND, BSEARCH_DONE_FOUND}

BSEARCH_NOTIFY_LEFT      == "BSEARCH_NOTIFY_LEFT"
BSEARCH_NOTIFY_RIGHT     == "BSEARCH_NOTIFY_RIGHT"
BSEARCH_NOTIFY_EQ        == "BSEARCH_NOTIFY_EQ"
BSEARCH_NOTIFY_ERR_SKIP  == "BSEARCH_NOTIFY_ERR_SKIP"
BSEARCH_NOTIFY_ERR_ABORT == "BSEARCH_NOTIFY_ERR_ABORT"
Notification == {BSEARCH_NOTIFY_LEFT, BSEARCH_NOTIFY_RIGHT, BSEARCH_NOTIFY_EQ,
                 BSEARCH_NOTIFY_ERR_SKIP, BSEARCH_NOTIFY_ERR_ABORT}

(* The indices of an array; the client makes no search of a range that     *)
(* begins below 0, which init would accept.                                *)
Index == 0 .. IntMax

TypeOK ==
  /\ status \in Status
  /\ left_idx \in Index
  /\ right_idx \in Index
  /\ pivot_idx \in Index
  /\ pivot_offset \in -IntMax .. IntMax
  /\ start_idx \in Index
  /\ stop_idx \in Index
  /\ match_lo \in Nat
  /\ match_hi \in Nat
  /\ unreadable \subseteq Index
  /\ checked \subseteq Index
  /\ quit \in BOOLEAN
  /\ ret \in {ERR_NONE, ERR_INVALID_ARG}

(***************************************************************************)
(* The results an int32_t sum may have: an overflow is undefined, and a    *)
(* build computes it either wide or modulo 2^32.                           *)
(***************************************************************************)
Int32(x) == IF x > IntMax THEN {x, x - 2 * (IntMax + 1)} ELSE {x}

(* Faulty variant: the probing never leaves the pivot's neighbours. *)
NextPivotOffsetStuck(offset) ==
  IF offset = 0 THEN 1 ELSE -offset

bsearch_get_next_pivot_offset(offset) ==
  IF offset = 0 THEN 1 ELSE IF offset > 0 THEN -offset ELSE -offset + 1

(* Faulty variant: a search that takes the range one element at a time. *)
LeftmostAsMidpoint(left, right) == left

bsearch_get_midpoint_safe(left, right) == left + ((right - left) \div 2)

bsearch_iter_get_check_index == pivot_idx + pivot_offset

bsearch_iter_get_found_index ==
  IF status = BSEARCH_DONE_FOUND THEN pivot_idx + pivot_offset ELSE -1

-----------------------------------------------------------------------------
(* The fields init sets for an accepted range. *)
Begin(start, stop) ==
  /\ status' = BSEARCH_CONTINUE
  /\ left_idx' = start
  /\ right_idx' = stop
  /\ pivot_idx' = bsearch_get_midpoint_safe(start, stop)
  /\ pivot_offset' = 0

bsearch_iter_init(start, stop) ==
  IF start >= stop
    THEN /\ ret' = ERR_INVALID_ARG
         /\ UNCHANGED <<iter, client, checked, quit>>
    ELSE /\ Begin(start, stop)
         /\ start_idx' = start
         /\ stop_idx' = stop
         /\ checked' = {}
         /\ quit' = FALSE
         /\ ret' = ERR_NONE
         /\ UNCHANGED <<match_lo, match_hi, unreadable>>

bsearch_iter_deinit ==
  /\ status' = IF status = BSEARCH_CONTINUE THEN BSEARCH_DONE_NOT_FOUND
                                            ELSE status
  /\ quit' = (quit \/ status = BSEARCH_CONTINUE)
  /\ UNCHANGED <<left_idx, right_idx, pivot_idx, pivot_offset, client,
                 checked, ret>>

(* A search with any range over any array, just begun. *)
Init ==
  /\ \E start, stop \in Index :
       /\ start < stop
       /\ start_idx = start
       /\ stop_idx = stop
       /\ left_idx = start
       /\ right_idx = stop
       /\ pivot_idx = bsearch_get_midpoint_safe(start, stop)
  /\ status = BSEARCH_CONTINUE
  /\ pivot_offset = 0
  /\ match_lo \in 0 .. IntMax + 1
  /\ match_hi \in match_lo .. IntMax + 1
  /\ unreadable \in SUBSET Index
  /\ checked = {}
  /\ quit = FALSE
  /\ ret = ERR_NONE

-----------------------------------------------------------------------------
(* The part of the range still to be searched changes to left..right. *)
Narrow(left, right) ==
  /\ left_idx' = left
  /\ right_idx' = right
  /\ pivot_idx' = bsearch_get_midpoint_safe(left, right)
  /\ pivot_offset' = 0
  /\ UNCHANGED status

Finish(result) ==
  /\ status' = result
  /\ UNCHANGED <<left_idx, right_idx, pivot_idx, pivot_offset>>

(* Faulty variant: one element too many is given up. *)
NextRightTooFar ==
  IF pivot_offset > 0
    THEN pivot_idx + bsearch_get_next_pivot_offset(pivot_offset) - 1
    ELSE pivot_idx + pivot_offset - 1

NextRight ==
  IF pivot_offset > 0
    THEN pivot_idx + bsearch_get_next_pivot_offset(pivot_offset)
    ELSE pivot_idx + pivot_offset - 1

NextLeft ==
  IF pivot_offset < 0
    THEN Int32(pivot_idx + bsearch_get_next_pivot_offset(pivot_offset))
    ELSE Int32(pivot_idx + pivot_offset + 1)

(* Faulty variant: the left bound is not compared. *)
NotifyLeftUnbounded ==
  IF NextRight >= right_idx
    THEN Finish(BSEARCH_DONE_NOT_FOUND)
    ELSE Narrow(left_idx, NextRight)

NotifyLeft ==
  IF NextRight >= right_idx \/ NextRight < left_idx
    THEN Finish(BSEARCH_DONE_NOT_FOUND)
    ELSE Narrow(left_idx, NextRight)

NotifyRight ==
  \E next \in NextLeft :
    IF next <= left_idx \/ next > right_idx
      THEN Finish(BSEARCH_DONE_NOT_FOUND)
      ELSE Narrow(next, right_idx)

(* Faulty variant: the probing may go one past the right bound. *)
NotifySkipLate ==
  /\ pivot_offset' = bsearch_get_next_pivot_offset(pivot_offset)
  /\ \E next \in Int32(pivot_idx + pivot_offset') :
       status' = IF next > right_idx + 1 \/ next < left_idx
                   THEN BSEARCH_DONE_NOT_FOUND ELSE status
  /\ UNCHANGED <<left_idx, right_idx, pivot_idx>>

NotifySkip ==
  /\ pivot_offset' = bsearch_get_next_pivot_offset(pivot_offset)
  /\ \E next \in Int32(pivot_idx + pivot_offset') :
       status' = IF next > right_idx \/ next < left_idx
                   THEN BSEARCH_DONE_NOT_FOUND ELSE status
  /\ UNCHANGED <<left_idx, right_idx, pivot_idx>>

bsearch_iter_notify(notification) ==
  IF status # BSEARCH_CONTINUE
    THEN UNCHANGED vars
    ELSE /\ \/ /\ notification = BSEARCH_NOTIFY_EQ
               /\ Finish(BSEARCH_DONE_FOUND)
            \/ notification = BSEARCH_NOTIFY_LEFT  /\ NotifyLeft
            \/ notification = BSEARCH_NOTIFY_RIGHT /\ NotifyRight
            \/ notification = BSEARCH_NOTIFY_ERR_SKIP /\ NotifySkip
            \/ /\ notification = BSEARCH_NOTIFY_ERR_ABORT
               /\ Finish(BSEARCH_DONE_NOT_FOUND)
         /\ checked' = checked \cup {bsearch_iter_get_check_index}
         /\ quit' = (notification = BSEARCH_NOTIFY_ERR_ABORT)
         /\ UNCHANGED <<client, ret>>

(* What the client sees of element i. *)
Answer(i) ==
  IF i \in unreadable THEN BSEARCH_NOTIFY_ERR_SKIP
  ELSE IF i < match_lo THEN BSEARCH_NOTIFY_RIGHT
  ELSE IF i >= match_hi THEN BSEARCH_NOTIFY_LEFT
  ELSE BSEARCH_NOTIFY_EQ

(* The client reports what it sees, or gives up. *)
Step ==
  \E n \in {Answer(bsearch_iter_get_check_index), BSEARCH_NOTIFY_ERR_ABORT} :
    bsearch_iter_notify(n)

Next ==
  \/ \E start, stop \in Index : bsearch_iter_init(start, stop)
  \/ Step
  \/ bsearch_iter_deinit

Spec == Init /\ [][Next]_vars

-----------------------------------------------------------------------------
(* The indices probed around the current pivot before the check index. *)
Probed ==
  IF pivot_offset > 0
    THEN pivot_idx - (pivot_offset - 1) .. pivot_idx + (pivot_offset - 1)
    ELSE IF pivot_offset < 0
      THEN pivot_idx + pivot_offset + 1 .. pivot_idx - pivot_offset
      ELSE {}

(* A readable element of the range that equals the wanted one. *)
Match(i) ==
  /\ i \in start_idx .. stop_idx
  /\ match_lo <= i
  /\ i < match_hi
  /\ i \notin unreadable

(***************************************************************************)
(* While a search runs, its window lies in the range, the pivot is its     *)
(* middle, exactly the probed elements of the window have been looked at   *)
(* and none of them was readable, and every match of the range is in the   *)
(* window: the inductive invariant of notify.                              *)
(***************************************************************************)
WindowInv ==
  status = BSEARCH_CONTINUE =>
    /\ start_idx <= left_idx
    /\ left_idx <= right_idx
    /\ right_idx <= stop_idx
    /\ pivot_idx = bsearch_get_midpoint_safe(left_idx, right_idx)
    /\ bsearch_iter_get_check_index \in left_idx .. right_idx
    /\ Probed \subseteq unreadable
    /\ checked \cap (left_idx .. right_idx) = Probed
    /\ \A i \in start_idx .. stop_idx :
         Match(i) => i \in left_idx .. right_idx

(***************************************************************************)
(* The index the client is told to look at is in the range it gave to init *)
(* and has not been looked at in this search: no access outside the array, *)
(* and at most stop - start + 1 rounds whatever cannot be read.            *)
(***************************************************************************)
ChecksFreshIndex ==
  status = BSEARCH_CONTINUE =>
    /\ bsearch_iter_get_check_index \in start_idx .. stop_idx
    /\ bsearch_iter_get_check_index \notin checked

(***************************************************************************)
(* The answer is right: the found index is that of a readable match, and a *)
(* search that ends without one (the client did not give up) has left no   *)
(* readable match, however many elements had to be skipped.                *)
(***************************************************************************)
ResultIsRight ==
  /\ status = BSEARCH_DONE_FOUND => Match(bsearch_iter_get_found_index)
  /\ status = BSEARCH_DONE_NOT_FOUND /\ ~quit =>
       ~ \E i \in start_idx .. stop_idx : Match(i)

(***************************************************************************)
(* Without unreadable elements every round at least halves the window, so  *)
(* a search takes no more rounds than the range has binary digits (the     *)
(* tests allow 32).                                                        *)
(***************************************************************************)
Halves ==
  unreadable = {} =>
    /\ 2 ^ Cardinality(checked) <= 2 * (stop_idx - start_idx + 1)
    /\ status = BSEARCH_CONTINUE =>
         2 ^ Cardinality(checked) * (right_idx - left_idx + 1)
           <= stop_idx - start_idx + 1

(***************************************************************************)
(* The header's example searches an array of stop_idx elements: the index  *)
(* it is told to look at is one of them.                                   *)
(***************************************************************************)
ExampleStaysInArray ==
  status = BSEARCH_CONTINUE => bsearch_iter_get_check_index < stop_idx
=============================================================================
