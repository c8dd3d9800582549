------------------------- MODULE BsearchIter_proofs -------------------------
(***************************************************************************)
(* The properties of BsearchIter for every IntMax, every array and every   *)
(* sequence of calls.                                                      *)
(***************************************************************************)
EXTENDS BsearchIter, FiniteSetTheorems, FunctionTheorems, TLAPS

(***************************************************************************)
(* bsearch_get_midpoint_safe returns an index of the window whose right    *)
(* part is as long as its left part, or one longer: what makes the probing *)
(* at +1, -1, +2, -2, ... leave the window only when all of it is probed.  *)
(***************************************************************************)
LEMMA Midpoint ==
  ASSUME NEW l \in Index, NEW r \in Index, l <= r
  PROVE  /\ bsearch_get_midpoint_safe(l, r) \in Index
         /\ l <= bsearch_get_midpoint_safe(l, r)
         /\ bsearch_get_midpoint_safe(l, r) <= r
         /\ bsearch_get_midpoint_safe(l, r) - l
              <= r - bsearch_get_midpoint_safe(l, r)
         /\ r - bsearch_get_midpoint_safe(l, r)
              <= bsearch_get_midpoint_safe(l, r) - l + 1
  BY IntMaxAssumption DEF bsearch_get_midpoint_safe, Index

(***************************************************************************)
(* The conjunction the steps preserve.  ResultIsRight speaks of finished   *)
(* searches only; WindowInv carries what a running one has excluded.       *)
(***************************************************************************)
IInv == TypeOK /\ WindowInv /\ ResultIsRight

USE DEF BSEARCH_CONTINUE, BSEARCH_DONE_FOUND, BSEARCH_DONE_NOT_FOUND

(* A search just begun satisfies it: nothing is looked at yet. *)
LEMMA InitIInv == Init => IInv
<1> SUFFICES ASSUME Init PROVE IInv
  OBVIOUS
<1>1. PICK start \in Index, stop \in Index :
         /\ start < stop
         /\ start_idx = start
         /\ stop_idx = stop
         /\ left_idx = start
         /\ right_idx = stop
         /\ pivot_idx = bsearch_get_midpoint_safe(start, stop)
  BY DEF Init
<1>2. pivot_idx \in Index /\ start <= pivot_idx /\ pivot_idx <= stop
  BY <1>1, Midpoint, IntMaxAssumption DEF Index
<1>3. TypeOK
  <2>1. /\ status \in Status /\ pivot_offset \in -IntMax .. IntMax
        /\ match_lo \in Nat /\ match_hi \in Nat
        /\ unreadable \subseteq Index
    BY IntMaxAssumption DEF Init, Status, Index
  <2>2. checked \subseteq Index /\ quit \in BOOLEAN
        /\ ret \in {ERR_NONE, ERR_INVALID_ARG}
    BY Zenon DEF Init
  <2> QED
    BY <1>1, <1>2, <2>1, <2>2 DEF TypeOK
<1>4. WindowInv
  BY <1>1, <1>2 DEF Init, WindowInv, Probed, bsearch_iter_get_check_index, Index
<1>5. ResultIsRight
  BY DEF Init, ResultIsRight
<1> QED
  BY <1>3, <1>4, <1>5 DEF IInv

(***************************************************************************)
(* A window that begins with its pivot in the middle satisfies WindowInv   *)
(* if nothing in it has been looked at and every match is in it.           *)
(***************************************************************************)
LEMMA FreshWindow ==
  ASSUME TypeOK, NEW l \in Index, NEW r \in Index, l <= r,
         left_idx' = l, right_idx' = r, pivot_offset' = 0,
         pivot_idx' = bsearch_get_midpoint_safe(l, r),
         start_idx' <= l, r <= stop_idx',
         checked' \cap (l .. r) = {},
         \A i \in start_idx' .. stop_idx' : Match(i)' => i \in l .. r
  PROVE  WindowInv'
<1>1. pivot_idx' \in l .. r
  BY Midpoint, IntMaxAssumption DEF Index
<1>2. bsearch_iter_get_check_index' \in l .. r
  BY <1>1 DEF bsearch_iter_get_check_index, Index
<1>3. Probed' = {}
  BY DEF Probed
<1> QED
  BY <1>2, <1>3 DEF WindowInv

(* A call of init begins such a search or, refused, changes no field. *)
LEMMA InitCallIInv ==
  ASSUME IInv, NEW start \in Index, NEW stop \in Index,
         bsearch_iter_init(start, stop)
  PROVE  IInv'
<1>1. CASE start >= stop
  BY <1>1 DEF IInv, TypeOK, WindowInv, ResultIsRight, bsearch_iter_init, iter,
     client, Match, Probed, bsearch_iter_get_check_index,
     bsearch_iter_get_found_index, ERR_INVALID_ARG
<1>2. CASE ~(start >= stop)
  <2>1. start < stop
    BY <1>2, IntMaxAssumption DEF Index
  <2>2. /\ Begin(start, stop) /\ start_idx' = start /\ stop_idx' = stop
        /\ checked' = {} /\ quit' = FALSE /\ ret' = ERR_NONE
        /\ UNCHANGED <<match_lo, match_hi, unreadable>>
    BY <1>2 DEF bsearch_iter_init
  <2>3. pivot_idx' \in Index
    BY <2>1, <2>2, Midpoint, IntMaxAssumption DEF Begin, Index
  <2>4. TypeOK'
    <3>1. status' \in Status /\ pivot_offset' \in -IntMax .. IntMax
      BY <2>2, IntMaxAssumption DEF Begin, Status
    <3>2. checked' \subseteq Index /\ quit' \in BOOLEAN
          /\ ret' \in {ERR_NONE, ERR_INVALID_ARG}
      BY <2>2, Zenon
    <3> QED
      BY <2>2, <2>3, <3>1, <3>2 DEF IInv, TypeOK, Begin
  <2>5. WindowInv'
    BY <2>1, <2>2, FreshWindow, IntMaxAssumption
    DEF Begin, IInv, Match, Index
  <2>6. ResultIsRight'
    BY <2>2 DEF Begin, ResultIsRight
  <2> QED
    BY <2>4, <2>5, <2>6 DEF IInv
<1> QED
  BY <1>1, <1>2

(* deinit ends a search without claiming that there is no match. *)
LEMMA DeinitIInv ==
  ASSUME IInv, bsearch_iter_deinit
  PROVE  IInv'
<1>1. TypeOK'
  BY DEF IInv, TypeOK, bsearch_iter_deinit, client, Status
<1>2. WindowInv'
  BY DEF IInv, WindowInv, bsearch_iter_deinit, client, Match, Probed,
     bsearch_iter_get_check_index
<1>3. ResultIsRight'
  BY DEF IInv, TypeOK, ResultIsRight, bsearch_iter_deinit, client, Match,
     bsearch_iter_get_found_index
<1> QED
  BY <1>1, <1>2, <1>3 DEF IInv

(***************************************************************************)
(* What holds when a running search is told about the check index c: all   *)
(* that NotifyLeft, NotifyRight and NotifySkip rely on, in plain form.     *)
(***************************************************************************)
Running ==
  /\ status = BSEARCH_CONTINUE
  /\ left_idx \in Index /\ right_idx \in Index /\ pivot_idx \in Index
  /\ start_idx \in Index /\ stop_idx \in Index
  /\ pivot_offset \in Int
  /\ start_idx <= left_idx /\ right_idx <= stop_idx
  /\ left_idx <= pivot_idx /\ pivot_idx <= right_idx
  /\ pivot_idx - left_idx <= right_idx - pivot_idx
  /\ right_idx - pivot_idx <= pivot_idx - left_idx + 1
  /\ left_idx <= pivot_idx + pivot_offset
  /\ pivot_idx + pivot_offset <= right_idx
  /\ match_lo \in Nat /\ match_hi \in Nat
  /\ Probed \subseteq unreadable
  /\ checked \cap (left_idx .. right_idx) = Probed
  /\ \A i \in start_idx .. stop_idx : Match(i) => i \in left_idx .. right_idx

(* The invariant implies it, with the midpoint's bounds spelled out. *)
LEMMA RunningHolds ==
  ASSUME IInv, status = BSEARCH_CONTINUE
  PROVE  Running
<1>1. /\ start_idx <= left_idx /\ left_idx <= right_idx /\ right_idx <= stop_idx
      /\ pivot_idx = bsearch_get_midpoint_safe(left_idx, right_idx)
      /\ pivot_idx + pivot_offset \in left_idx .. right_idx
      /\ Probed \subseteq unreadable
      /\ checked \cap (left_idx .. right_idx) = Probed
      /\ \A i \in start_idx .. stop_idx : Match(i) => i \in left_idx .. right_idx
  BY DEF IInv, WindowInv, bsearch_iter_get_check_index
<1>2. /\ left_idx \in Index /\ right_idx \in Index /\ pivot_idx \in Index
      /\ start_idx \in Index /\ stop_idx \in Index
      /\ pivot_offset \in Int /\ match_lo \in Nat /\ match_hi \in Nat
  BY IntMaxAssumption DEF IInv, TypeOK
<1>3. /\ left_idx <= pivot_idx /\ pivot_idx <= right_idx
      /\ pivot_idx - left_idx <= right_idx - pivot_idx
      /\ right_idx - pivot_idx <= pivot_idx - left_idx + 1
  BY <1>1, <1>2, Midpoint
<1>4. left_idx <= pivot_idx + pivot_offset /\ pivot_idx + pivot_offset <= right_idx
  BY <1>1, <1>2 DEF Index
<1> QED
  BY <1>1, <1>2, <1>3, <1>4 DEF Running

(***************************************************************************)
(* After LEFT, every match of the range lies in left_idx .. NextRight, and *)
(* none of that has been looked at.                                        *)
(***************************************************************************)
LEMMA LeftNarrows ==
  ASSUME Running, pivot_idx + pivot_offset \notin unreadable,
         pivot_idx + pivot_offset >= match_hi
  PROVE  /\ NextRight \in Int
         /\ NextRight < right_idx
         /\ (checked \cup {pivot_idx + pivot_offset})
              \cap (left_idx .. NextRight) = {}
         /\ \A i \in start_idx .. stop_idx :
              Match(i) => i \in left_idx .. NextRight
<1>1. NextRight \in Int /\ NextRight < pivot_idx + pivot_offset
  BY IntMaxAssumption DEF Running, NextRight, bsearch_get_next_pivot_offset, Index
<1>2. \A i \in Probed : i \in Int /\ i > NextRight
  BY IntMaxAssumption
  DEF Running, NextRight, bsearch_get_next_pivot_offset, Index, Probed
<1>3. \A i \in Int : NextRight < i /\ i < pivot_idx + pivot_offset => i \in Probed
  BY IntMaxAssumption
  DEF Running, NextRight, bsearch_get_next_pivot_offset, Index, Probed
<1>4. NextRight < right_idx
  BY <1>1 DEF Running, Index
<1>5. ASSUME NEW i \in checked \cup {pivot_idx + pivot_offset},
             i \in left_idx .. NextRight
      PROVE  FALSE
  <2>1. i \in left_idx .. right_idx /\ i <= NextRight /\ i \in Int
    BY <1>1, <1>4, <1>5 DEF Running, Index
  <2>2. CASE i \in checked
    <3>1. i \in Probed
      BY <2>1, <2>2 DEF Running
    <3> QED
      BY <1>1, <1>2, <2>1, <3>1
  <2>3. CASE i = pivot_idx + pivot_offset
    BY <1>1, <2>1, <2>3 DEF Running, Index
  <2> QED
    BY <2>2, <2>3
<1>6. ASSUME NEW i \in start_idx .. stop_idx, Match(i)
      PROVE  i \in left_idx .. NextRight
  <2>1. i \in left_idx .. right_idx /\ i \in Int
    BY <1>6 DEF Running, Index
  <2>2. i < pivot_idx + pivot_offset
    BY <1>6, <2>1 DEF Running, Match, Index
  <2>3. i \notin Probed
    BY <1>6 DEF Running, Match
  <2> QED
    BY <1>1, <1>3, <2>1, <2>2, <2>3 DEF Running, Index
<1> QED
  BY <1>1, <1>4, <1>5, <1>6

(***************************************************************************)
(* After RIGHT the same of next .. right_idx, for either result of an      *)
(* overflowing sum: both are outside the window, which then holds nothing. *)
(***************************************************************************)
LEMMA RightNarrows ==
  ASSUME Running, pivot_idx + pivot_offset \notin unreadable,
         pivot_idx + pivot_offset < match_lo, NEW next \in NextLeft
  PROVE  /\ next \in Int
         /\ next <= left_idx \/ next > right_idx =>
              ~ \E i \in start_idx .. stop_idx : Match(i)
         /\ left_idx < next =>
              /\ (checked \cup {pivot_idx + pivot_offset})
                   \cap (next .. right_idx) = {}
              /\ \A i \in start_idx .. stop_idx :
                   Match(i) => i \in next .. right_idx
<1> DEFINE sum == IF pivot_offset < 0 THEN pivot_idx - pivot_offset + 1
                                      ELSE pivot_idx + pivot_offset + 1
<1>1. sum \in Int /\ pivot_idx + pivot_offset < sum
  BY IntMaxAssumption DEF Running, Index
<1>2. \A i \in Probed : i \in Int /\ i < sum
  BY IntMaxAssumption DEF Running, Index, Probed
<1>3. \A i \in Int : pivot_idx + pivot_offset < i /\ i < sum => i \in Probed
  BY IntMaxAssumption DEF Running, Index, Probed
<1>4. ASSUME NEW i \in checked \cup {pivot_idx + pivot_offset},
             i \in sum .. right_idx
      PROVE  FALSE
  <2>1. i \in left_idx .. right_idx /\ sum <= i /\ i \in Int
    BY <1>1, <1>4 DEF Running, Index
  <2>2. CASE i \in checked
    <3>1. i \in Probed
      BY <2>1, <2>2 DEF Running
    <3> QED
      BY <1>1, <1>2, <2>1, <3>1
  <2>3. CASE i = pivot_idx + pivot_offset
    BY <1>1, <2>1, <2>3 DEF Running, Index
  <2> QED
    BY <2>2, <2>3
<1>5. ASSUME NEW i \in start_idx .. stop_idx, Match(i)
      PROVE  i \in sum .. right_idx
  <2>1. i \in left_idx .. right_idx /\ i \in Int
    BY <1>5 DEF Running, Index
  <2>2. pivot_idx + pivot_offset < i
    BY <1>5, <2>1 DEF Running, Match, Index
  <2>3. i \notin Probed
    BY <1>5 DEF Running, Match
  <2> QED
    BY <1>1, <1>3, <2>1, <2>2, <2>3 DEF Running, Index
<1>6. next \in Int32(sum)
  BY DEF NextLeft, bsearch_get_next_pivot_offset, Running, Index
<1>7. sum <= 2 * IntMax + 1 /\ left_idx < sum
  BY IntMaxAssumption DEF Running, Index
<1>8. \/ next = sum
      \/ next \in Int /\ next <= left_idx /\ sum > right_idx
  BY <1>1, <1>6, <1>7, IntMaxAssumption DEF Int32, Running, Index
<1> HIDE DEF sum
<1>9. next <= left_idx \/ next > right_idx => sum > right_idx
  BY <1>1, <1>7, <1>8 DEF Running, Index
<1>10. left_idx < next => next = sum
  BY <1>8 DEF Running, Index
<1>11. next \in Int
  BY <1>1, <1>8
<1>12. sum > right_idx => ~ \E i \in start_idx .. stop_idx : Match(i)
  BY <1>1, <1>5 DEF Running, Index
<1> QED
  BY <1>4, <1>5, <1>9, <1>10, <1>11, <1>12

(***************************************************************************)
(* A SKIP adds the check index to the probed ones; the next check index is *)
(* outside the window only when the whole window has been probed.          *)
(***************************************************************************)
LEMMA SkipProbes ==
  ASSUME Running, pivot_idx + pivot_offset \in unreadable,
         NEW next, NEW offset,
         offset = bsearch_get_next_pivot_offset(pivot_offset),
         next \in Int32(pivot_idx + offset)
  PROVE  /\ offset \in -IntMax .. IntMax
         /\ next > right_idx \/ next < left_idx =>
              \A i \in left_idx .. right_idx : i \in unreadable
         /\ ~(next > right_idx \/ next < left_idx) =>
              pivot_idx + offset \in left_idx .. right_idx
<1>1. offset \in -IntMax .. IntMax /\ offset \in Int
  BY IntMaxAssumption DEF Running, Index, bsearch_get_next_pivot_offset
<1>2. next > right_idx \/ next < left_idx
        <=> pivot_idx + offset > right_idx \/ pivot_idx + offset < left_idx
  BY <1>1, IntMaxAssumption DEF Running, Index, Int32
<1>3. ASSUME pivot_idx + offset > right_idx \/ pivot_idx + offset < left_idx,
             NEW i \in left_idx .. right_idx
      PROVE  i \in unreadable
  <2>1. i \in Probed \/ i = pivot_idx + pivot_offset
    BY <1>1, <1>3, IntMaxAssumption
    DEF Running, Index, bsearch_get_next_pivot_offset, Probed
  <2> QED
    BY <2>1 DEF Running
<1>4. ~(pivot_idx + offset > right_idx \/ pivot_idx + offset < left_idx)
        => pivot_idx + offset \in left_idx .. right_idx
  BY <1>1 DEF Running, Index
<1> QED
  BY <1>1, <1>2, <1>3, <1>4

(***************************************************************************)
(* A report of the client keeps the invariant: one step per notification.  *)
(***************************************************************************)
LEMMA NotifyIInv ==
  ASSUME IInv, status = BSEARCH_CONTINUE, NEW n,
         n \in {Answer(bsearch_iter_get_check_index), BSEARCH_NOTIFY_ERR_ABORT},
         bsearch_iter_notify(n)
  PROVE  IInv'
<1> USE DEF BSEARCH_NOTIFY_LEFT, BSEARCH_NOTIFY_RIGHT, BSEARCH_NOTIFY_EQ,
            BSEARCH_NOTIFY_ERR_SKIP, BSEARCH_NOTIFY_ERR_ABORT
<1> DEFINE c == pivot_idx + pivot_offset
<1>r. Running
  BY RunningHolds
<1>c. /\ c \in Index /\ c \in start_idx .. stop_idx
      /\ checked' = checked \cup {c}
      /\ quit' = (n = BSEARCH_NOTIFY_ERR_ABORT)
      /\ UNCHANGED <<start_idx, stop_idx, match_lo, match_hi, unreadable, ret>>
  BY <1>r, IntMaxAssumption
  DEF bsearch_iter_notify, Running, Index, bsearch_iter_get_check_index, client
<1>m. \A i : Match(i)' <=> Match(i)
  BY <1>c DEF Match
<1>t. ASSUME status' \in Status, left_idx' \in Index, right_idx' \in Index,
             pivot_idx' \in Index, pivot_offset' \in -IntMax .. IntMax
      PROVE  TypeOK'
  <2>1. checked' \subseteq Index
    BY <1>c DEF IInv, TypeOK
  <2>2. quit' \in BOOLEAN
    BY <1>c, Zenon
  <2> QED
    BY <1>c, <1>t, <2>1, <2>2 DEF IInv, TypeOK
<1>f. ASSUME NEW result \in Status, Finish(result)
      PROVE  TypeOK'
  BY <1>t, <1>f DEF Finish, IInv, TypeOK
<1>n. ASSUME NEW l \in Index, NEW r \in Index, l <= r, Narrow(l, r)
      PROVE  TypeOK'
  <2>1. pivot_idx' \in Index
    BY <1>n, Midpoint DEF Narrow
  <2> QED
    BY <1>t, <1>n, <2>1, IntMaxAssumption DEF Narrow, IInv, TypeOK
<1>1. CASE n = BSEARCH_NOTIFY_EQ
  <2>1. Finish(BSEARCH_DONE_FOUND)
    BY <1>1 DEF bsearch_iter_notify
  <2>2. c \notin unreadable /\ ~(c < match_lo) /\ ~(c >= match_hi)
    BY <1>1 DEF Answer, bsearch_iter_get_check_index
  <2>3. Match(c)
    BY <1>c, <1>r, <2>2 DEF Match, Running, Index
  <2>4. ResultIsRight' /\ WindowInv'
    BY <1>m, <2>1, <2>3
    DEF ResultIsRight, WindowInv, Finish, bsearch_iter_get_found_index
  <2> QED
    BY <1>f, <2>1, <2>4 DEF IInv, Status
<1>2. CASE n = BSEARCH_NOTIFY_LEFT
  <2>1. NotifyLeft
    BY <1>2 DEF bsearch_iter_notify
  <2>2. c \notin unreadable /\ c >= match_hi
    BY <1>2 DEF Answer, bsearch_iter_get_check_index
  <2>3. /\ NextRight \in Int
        /\ NextRight < right_idx
        /\ checked' \cap (left_idx .. NextRight) = {}
        /\ \A i \in start_idx .. stop_idx : Match(i) => i \in left_idx .. NextRight
    BY <1>c, <1>r, <2>2, LeftNarrows
  <2>4. CASE NextRight < left_idx
    <3>1. Finish(BSEARCH_DONE_NOT_FOUND)
      BY <2>1, <2>4 DEF NotifyLeft
    <3>2. ~ \E i \in start_idx .. stop_idx : Match(i)
      BY <2>3, <2>4, <1>r DEF Running, Index
    <3>3. ResultIsRight' /\ WindowInv'
      BY <1>c, <1>m, <3>1, <3>2 DEF ResultIsRight, WindowInv, Finish
    <3> QED
      BY <1>f, <3>1, <3>3 DEF IInv, Status
  <2>5. CASE ~(NextRight < left_idx)
    <3>1. left_idx <= NextRight /\ NextRight \in Index
      BY <1>r, <2>3, <2>5, IntMaxAssumption DEF Running, Index
    <3>2. Narrow(left_idx, NextRight)
      BY <1>r, <2>1, <2>3, <2>5 DEF NotifyLeft, Running, Index
    <3>3. NextRight <= stop_idx
      BY <1>r, <2>3 DEF Running, Index
    <3>4. WindowInv'
      BY <1>c, <1>m, <1>r, <2>3, <3>1, <3>2, <3>3, FreshWindow
      DEF IInv, Narrow, Running
    <3>5. ResultIsRight'
      BY <3>2 DEF ResultIsRight, Narrow
    <3> QED
      BY <1>n, <1>r, <3>1, <3>2, <3>4, <3>5 DEF IInv, Running
  <2> QED
    BY <2>4, <2>5
<1>3. CASE n = BSEARCH_NOTIFY_RIGHT
  <2>1. PICK next \in NextLeft :
          IF next <= left_idx \/ next > right_idx
            THEN Finish(BSEARCH_DONE_NOT_FOUND)
            ELSE Narrow(next, right_idx)
    BY <1>3 DEF bsearch_iter_notify, NotifyRight
  <2>2. c \notin unreadable /\ c < match_lo
    BY <1>3 DEF Answer, bsearch_iter_get_check_index
  <2>3. /\ next \in Int
        /\ next <= left_idx \/ next > right_idx =>
             ~ \E i \in start_idx .. stop_idx : Match(i)
        /\ left_idx < next =>
             /\ checked' \cap (next .. right_idx) = {}
             /\ \A i \in start_idx .. stop_idx : Match(i) => i \in next .. right_idx
    BY <1>c, <1>r, <2>2, RightNarrows
  <2>4. CASE next <= left_idx \/ next > right_idx
    <3>1. Finish(BSEARCH_DONE_NOT_FOUND)
      BY <2>1, <2>4
    <3>2. ResultIsRight' /\ WindowInv'
      BY <1>c, <1>m, <2>3, <2>4, <3>1 DEF ResultIsRight, WindowInv, Finish
    <3> QED
      BY <1>f, <3>1, <3>2 DEF IInv, Status
  <2>5. CASE ~(next <= left_idx \/ next > right_idx)
    <3>1. left_idx < next /\ next <= right_idx /\ next \in Index
      BY <1>r, <2>3, <2>5, IntMaxAssumption DEF Running, Index
    <3>2. Narrow(next, right_idx)
      BY <2>1, <2>5
    <3>3. start_idx <= next
      BY <1>r, <3>1 DEF Running, Index
    <3>4. WindowInv'
      BY <1>c, <1>m, <1>r, <2>3, <3>1, <3>2, <3>3, FreshWindow
      DEF IInv, Narrow, Running
    <3>5. ResultIsRight'
      BY <3>2 DEF ResultIsRight, Narrow
    <3> QED
      BY <1>n, <1>r, <3>1, <3>2, <3>4, <3>5 DEF IInv, Running
  <2> QED
    BY <2>4, <2>5
<1>4. CASE n = BSEARCH_NOTIFY_ERR_SKIP
  <2>1. NotifySkip
    BY <1>4 DEF bsearch_iter_notify
  <2>2. PICK next \in Int32(pivot_idx + pivot_offset') :
          status' = IF next > right_idx \/ next < left_idx
                      THEN BSEARCH_DONE_NOT_FOUND ELSE status
    BY <2>1 DEF NotifySkip
  <2>3. c \in unreadable
    BY <1>4 DEF Answer, bsearch_iter_get_check_index
  <2>4. /\ pivot_offset' = bsearch_get_next_pivot_offset(pivot_offset)
        /\ UNCHANGED <<left_idx, right_idx, pivot_idx>>
    BY <2>1 DEF NotifySkip
  <2>5. /\ pivot_offset' \in -IntMax .. IntMax
        /\ next > right_idx \/ next < left_idx =>
             \A i \in left_idx .. right_idx : i \in unreadable
        /\ ~(next > right_idx \/ next < left_idx) =>
             pivot_idx + pivot_offset' \in left_idx .. right_idx
    BY <1>r, <2>2, <2>3, <2>4, SkipProbes
  <2>6. TypeOK'
    <3>1. status' \in Status
      BY <2>2 DEF Status
    <3> QED
      BY <1>t, <2>4, <2>5, <3>1 DEF IInv, TypeOK
  <2>7. CASE next > right_idx \/ next < left_idx
    <3>1. ~ \E i \in start_idx .. stop_idx : Match(i)
      BY <1>r, <2>5, <2>7 DEF Running, Match
    <3>2. ResultIsRight' /\ WindowInv'
      BY <1>c, <1>m, <2>2, <2>7, <3>1 DEF ResultIsRight, WindowInv
    <3> QED
      BY <2>6, <3>2 DEF IInv
  <2>8. CASE ~(next > right_idx \/ next < left_idx)
    <3>1. Probed' = Probed \cup {c}
      BY <1>r, <2>4, IntMaxAssumption
      DEF Probed, Running, Index, bsearch_get_next_pivot_offset
    <3>2. checked' \cap (left_idx .. right_idx) = Probed'
      BY <1>c, <1>r, <3>1 DEF Running, Index
    <3>3. bsearch_iter_get_check_index' \in left_idx .. right_idx
      BY <2>4, <2>5, <2>8 DEF bsearch_iter_get_check_index
    <3>4. WindowInv'
      <4>1. Probed' \subseteq unreadable
        BY <1>r, <2>3, <3>1 DEF Running
      <4>2. pivot_idx' = bsearch_get_midpoint_safe(left_idx', right_idx')
        BY <2>4 DEF IInv, WindowInv
      <4> QED
        BY <1>c, <1>m, <2>4, <3>2, <3>3, <4>1, <4>2 DEF IInv, WindowInv
    <3>5. ResultIsRight'
      BY <2>2, <2>8 DEF ResultIsRight
    <3> QED
      BY <2>6, <3>4, <3>5 DEF IInv
  <2> QED
    BY <2>7, <2>8
<1>5. CASE n = BSEARCH_NOTIFY_ERR_ABORT
  <2>1. Finish(BSEARCH_DONE_NOT_FOUND) /\ quit'
    BY <1>5, <1>c DEF bsearch_iter_notify
  <2>2. ResultIsRight' /\ WindowInv'
    BY <2>1 DEF ResultIsRight, WindowInv, Finish
  <2> QED
    BY <1>f, <2>1, <2>2 DEF IInv, Status
<1> QED
  BY <1>1, <1>2, <1>3, <1>4, <1>5 DEF Answer

(* The invariant is preserved by every call a client may make. *)
LEMMA NextIInv == IInv /\ [Next]_vars => IInv'
<1> SUFFICES ASSUME IInv, [Next]_vars PROVE IInv'
  OBVIOUS
<1>1. ASSUME UNCHANGED vars PROVE IInv'
  BY <1>1 DEF IInv, TypeOK, WindowInv, ResultIsRight, vars, iter, client, Match,
     Probed, bsearch_iter_get_check_index, bsearch_iter_get_found_index
<1>2. ASSUME NEW start \in Index, NEW stop \in Index,
             bsearch_iter_init(start, stop)
      PROVE  IInv'
  BY <1>2, InitCallIInv
<1>3. CASE bsearch_iter_deinit
  BY <1>3, DeinitIInv
<1>4. CASE Step
  <2>1. PICK n \in {Answer(bsearch_iter_get_check_index),
                    BSEARCH_NOTIFY_ERR_ABORT} : bsearch_iter_notify(n)
    BY <1>4 DEF Step
  <2>2. CASE status = BSEARCH_CONTINUE
    BY <2>1, <2>2, NotifyIInv
  <2>3. CASE status # BSEARCH_CONTINUE
    BY <1>1, <2>1, <2>3 DEF bsearch_iter_notify
  <2> QED
    BY <2>2, <2>3
<1> QED
  BY <1>1, <1>2, <1>3, <1>4 DEF Next

(***************************************************************************)
(* Every index and offset that bsearch_iter.c stores is within the         *)
(* non-negative int32_t range, even where a sum it computes overflows.     *)
(***************************************************************************)
THEOREM SearchTypeCorrect == Spec => []TypeOK
<1>1. IInv => TypeOK
  BY DEF IInv
<1> QED
  BY <1>1, InitIInv, NextIInv, PTL DEF Spec

(***************************************************************************)
(* bsearch_iter.c keeps a window in the middle of the range that holds     *)
(* every match, and probes it without repetition.                          *)
(***************************************************************************)
THEOREM WindowHolds == Spec => []WindowInv
<1>1. IInv => WindowInv
  BY DEF IInv
<1> QED
  BY <1>1, InitIInv, NextIInv, PTL DEF Spec

(***************************************************************************)
(* The index bsearch_iter_get_check_index returns is in the range given to *)
(* init and new in this search, for every range and set of unreadable      *)
(* elements: every search ends, after at most stop - start + 1 rounds.     *)
(***************************************************************************)
THEOREM FreshIndex == Spec => []ChecksFreshIndex
<1>1. IInv => ChecksFreshIndex
  <2> SUFFICES ASSUME IInv, status = BSEARCH_CONTINUE
               PROVE  /\ pivot_idx + pivot_offset \in start_idx .. stop_idx
                      /\ pivot_idx + pivot_offset \notin checked
    BY DEF ChecksFreshIndex, bsearch_iter_get_check_index
  <2>1. Running
    BY RunningHolds
  <2>2. pivot_idx + pivot_offset \in start_idx .. stop_idx
    BY <2>1 DEF Running, Index
  <2>3. pivot_idx + pivot_offset \in left_idx .. right_idx
    BY <2>1 DEF Running, Index
  <2>4. pivot_idx + pivot_offset \notin Probed
    BY <2>1 DEF Running, Index, Probed
  <2> QED
    BY <2>1, <2>2, <2>3, <2>4 DEF Running
<1> QED
  BY <1>1, InitIInv, NextIInv, PTL DEF Spec

(***************************************************************************)
(* The result of a search is right, for every array and every set of       *)
(* unreadable elements, INT32_MAX as the last index included.              *)
(***************************************************************************)
THEOREM SearchCorrect == Spec => []ResultIsRight
<1>1. IInv => ResultIsRight
  BY DEF IInv
<1> QED
  BY <1>1, InitIInv, NextIInv, PTL DEF Spec

-----------------------------------------------------------------------------
(***************************************************************************)
(* One element more doubles the number of subsets.  As this number is      *)
(* 2^Cardinality(S), it is how a power of two gets to the next one.        *)
(***************************************************************************)
LEMMA PowerDoubles ==
  ASSUME NEW S, IsFiniteSet(S), NEW x, x \notin S
  PROVE  /\ 2 ^ Cardinality(S) \in Nat
         /\ 2 ^ Cardinality(S \cup {x}) = 2 * 2 ^ Cardinality(S)
<1> DEFINE Without == SUBSET S
           With    == {T \in SUBSET (S \cup {x}) : x \in T}
           f       == [T \in Without |-> T \cup {x}]
<1>1. /\ IsFiniteSet(Without) /\ Cardinality(Without) = 2 ^ Cardinality(S)
      /\ Cardinality(Without) \in Nat
  BY FS_SUBSET, FS_CardinalityType
<1>2. Cardinality(SUBSET (S \cup {x})) = 2 ^ Cardinality(S \cup {x})
  BY FS_AddElement, FS_SUBSET
<1>3. SUBSET (S \cup {x}) = Without \cup With /\ Without \cap With = {}
  OBVIOUS
<1>4. f \in Bijection(Without, With)
  <2>1. f \in [Without -> With]
    OBVIOUS
  <2>2. ASSUME NEW A \in Without, NEW B \in Without, f[A] = f[B] PROVE A = B
    <3>1. A \cup {x} = B \cup {x} /\ x \notin A /\ x \notin B
      BY <2>2
    <3> QED
      BY <3>1
  <2>3. ASSUME NEW T \in With PROVE \E A \in Without : f[A] = T
    <3>1. T \ {x} \in Without /\ (T \ {x}) \cup {x} = T
      OBVIOUS
    <3> QED
      BY <3>1
  <2> QED
    BY <2>1, <2>2, <2>3, Fun_IsBij
<1>5. IsFiniteSet(With) /\ Cardinality(With) = Cardinality(Without)
  <2>1. ExistsBijection(Without, With)
    BY <1>4, Fun_ExistsBij
  <2> QED
    BY <1>1, <2>1, FS_Bijection
<1>6. Cardinality(Without \cup With) = Cardinality(Without) + Cardinality(With) - 0
  <2>1. Cardinality(Without \cup With) =
          Cardinality(Without) + Cardinality(With) - Cardinality(Without \cap With)
    BY <1>1, <1>5, FS_Union
  <2> QED
    BY <1>3, <2>1, FS_EmptySet
<1>7. 2 ^ Cardinality(S \cup {x}) = Cardinality(Without) + Cardinality(Without) - 0
  BY <1>2, <1>3, <1>5, <1>6
<1>8. 2 * Cardinality(Without) = Cardinality(Without) + Cardinality(Without) - 0
  BY <1>1
<1> HIDE DEF Without
<1> QED
  BY <1>1, <1>7, <1>8

(* Before the first round. *)
LEMMA PowerOfNone == 2 ^ Cardinality({}) = 1
<1>1. Cardinality({}) = 0
  BY FS_EmptySet
<1>2. 2 ^ 0 = 1
  OBVIOUS
<1> QED
  BY <1>1, <1>2, Zenon

(* What is checked is a finite set. *)
LEMMA CheckedFinite ==
  ASSUME TypeOK
  PROVE  IsFiniteSet(checked)
<1>1. IsFiniteSet(Index)
  BY FS_Interval, IntMaxAssumption DEF Index
<1> QED
  BY <1>1, FS_Subset DEF TypeOK

(* A window of at most half the width allows one round more. *)
LEMMA HalfWindow ==
  ASSUME NEW p \in Nat, NEW w \in Nat, NEW v \in Nat, NEW n \in Nat,
         2 * v <= w, p * w <= n
  PROVE  (2 * p) * v <= n
<1>1. p * (w - 2 * v) >= 0
  OBVIOUS
<1>2. p * (w - 2 * v) = p * w - (2 * p) * v
  OBVIOUS
<1> QED
  BY <1>1, <1>2

(* A round of a search that can read everything. *)
LEMMA NotifyHalves ==
  ASSUME IInv, Halves, unreadable = {}, status = BSEARCH_CONTINUE, NEW n,
         n \in {Answer(bsearch_iter_get_check_index), BSEARCH_NOTIFY_ERR_ABORT},
         bsearch_iter_notify(n)
  PROVE  Halves'
<1> USE DEF BSEARCH_NOTIFY_LEFT, BSEARCH_NOTIFY_RIGHT, BSEARCH_NOTIFY_EQ,
            BSEARCH_NOTIFY_ERR_SKIP, BSEARCH_NOTIFY_ERR_ABORT
<1> DEFINE p == 2 ^ Cardinality(checked)
           w == right_idx - left_idx + 1
           m == stop_idx - start_idx + 1
<1>0. Running /\ TypeOK
  BY RunningHolds DEF IInv
<1>1. pivot_offset = 0 /\ pivot_idx \notin checked
  <2>1. Probed = {}
    BY <1>0 DEF Running
  <2>2. pivot_offset = 0
    BY <1>0, <2>1 DEF Running, Probed, Index
  <2>3. pivot_idx \in left_idx .. right_idx
    BY <1>0 DEF Running, Index
  <2> QED
    BY <1>0, <2>1, <2>2, <2>3 DEF Running
<1>2. /\ checked' = checked \cup {pivot_idx} /\ UNCHANGED <<start_idx, stop_idx>>
  <2>1. pivot_idx + pivot_offset = pivot_idx
    BY <1>0, <1>1 DEF Running, Index
  <2> QED
    BY <2>1 DEF bsearch_iter_notify, bsearch_iter_get_check_index, client
<1>3. p \in Nat /\ 2 ^ Cardinality(checked') = 2 * p
  BY <1>0, <1>1, <1>2, CheckedFinite, PowerDoubles
<1>4. w \in Nat \ {0} /\ m \in Nat /\ p * w <= m
  <2>1. w \in Nat \ {0} /\ m \in Nat
    BY <1>0, IntMaxAssumption DEF Running, Index
  <2>2. p * w <= m
    BY DEF Halves
  <2> QED
    BY <2>1, <2>2
<1>5. 2 * p <= 2 * m
  <2> HIDE DEF p, w, m
  <2>1. p * (w - 1) >= 0 /\ p * (w - 1) = p * w - p
    BY <1>3, <1>4
  <2> QED
    BY <1>3, <1>4, <2>1
<1>6. ASSUME status' = BSEARCH_CONTINUE
      PROVE  (2 * p) * (right_idx' - left_idx' + 1) <= m
  <2>1. /\ pivot_idx = bsearch_get_midpoint_safe(left_idx, right_idx)
        /\ left_idx \in Int /\ right_idx \in Int /\ pivot_idx \in Int
        /\ left_idx <= pivot_idx /\ pivot_idx <= right_idx
        /\ pivot_idx - left_idx <= right_idx - pivot_idx
        /\ right_idx - pivot_idx <= pivot_idx - left_idx + 1
    BY <1>0, Midpoint DEF IInv, WindowInv, Running, Index
  <2>2. CASE n = BSEARCH_NOTIFY_LEFT
    <3>1. NotifyLeft
      BY <2>2 DEF bsearch_iter_notify
    <3>2. Narrow(left_idx, NextRight) /\ left_idx <= NextRight
      BY <1>0, <1>1, <1>6, <2>1, <3>1 DEF NotifyLeft, Finish, NextRight
    <3>3. right_idx' = pivot_idx - 1 /\ left_idx' = left_idx /\ left_idx <= pivot_idx - 1
      BY <1>1, <2>1, <3>2 DEF Narrow, NextRight
    <3>4. right_idx' - left_idx' + 1 \in Nat /\ 2 * (right_idx' - left_idx' + 1) <= w
      BY <2>1, <3>3
    <3> HIDE DEF p, w, m
    <3> QED
      BY <1>3, <1>4, <3>4, HalfWindow
  <2>3. CASE n = BSEARCH_NOTIFY_RIGHT
    <3>1. NotifyRight
      BY <2>3 DEF bsearch_iter_notify
    <3>2. PICK next \in NextLeft :
            left_idx < next /\ next <= right_idx /\ Narrow(next, right_idx)
      <4>1. PICK next \in NextLeft : IF next <= left_idx \/ next > right_idx
                                       THEN Finish(BSEARCH_DONE_NOT_FOUND)
                                       ELSE Narrow(next, right_idx)
        BY <3>1 DEF NotifyRight
      <4>2. next \in Int
        BY <1>1, <2>1, IntMaxAssumption DEF NextLeft, Int32
      <4> QED
        BY <1>6, <2>1, <4>1, <4>2 DEF Finish
    <3>3. next = pivot_idx + 1
      BY <1>0, <1>1, <2>1, <3>2, IntMaxAssumption DEF NextLeft, Int32, Running, Index
    <3>4. left_idx' = pivot_idx + 1 /\ right_idx' = right_idx
      BY <3>2, <3>3 DEF Narrow
    <3>5. right_idx' - left_idx' + 1 \in Nat /\ 2 * (right_idx' - left_idx' + 1) <= w
      BY <2>1, <3>2, <3>3, <3>4
    <3> HIDE DEF p, w, m
    <3> QED
      BY <1>3, <1>4, <3>5, HalfWindow
  <2>4. n \in {BSEARCH_NOTIFY_LEFT, BSEARCH_NOTIFY_RIGHT}
    <3>1. n # BSEARCH_NOTIFY_ERR_SKIP
      <4>1. Answer(bsearch_iter_get_check_index) # BSEARCH_NOTIFY_ERR_SKIP
        BY DEF Answer
      <4> QED
        BY <4>1
    <3>2. n # BSEARCH_NOTIFY_EQ /\ n # BSEARCH_NOTIFY_ERR_ABORT
      BY <1>6 DEF bsearch_iter_notify, Finish
    <3> QED
      BY <3>1, <3>2 DEF Answer
  <2> QED
    BY <2>2, <2>3, <2>4
<1> HIDE DEF p
<1> QED
  BY <1>2, <1>3, <1>5, <1>6 DEF Halves

(* Every step keeps the count of rounds below the binary digits. *)
LEMMA NextHalves == IInv /\ Halves /\ [Next]_vars => Halves'
<1> SUFFICES ASSUME IInv, Halves, [Next]_vars PROVE Halves'
  OBVIOUS
<1>1. ASSUME UNCHANGED vars PROVE Halves'
  BY <1>1 DEF Halves, vars, iter, client
<1>2. ASSUME NEW start \in Index, NEW stop \in Index, bsearch_iter_init(start, stop)
      PROVE  Halves'
  <2>1. CASE start >= stop
    BY <1>2, <2>1 DEF bsearch_iter_init, iter, client, Halves
  <2>2. CASE ~(start >= stop)
    <3>1. /\ checked' = {} /\ start_idx' = start /\ stop_idx' = stop
          /\ left_idx' = start /\ right_idx' = stop
      BY <1>2, <2>2 DEF bsearch_iter_init, Begin
    <3>2. 2 ^ Cardinality(checked') = 1
      BY <3>1, PowerOfNone, Zenon
    <3> QED
      BY <2>2, <3>1, <3>2 DEF Halves, Index
  <2> QED
    BY <2>1, <2>2
<1>3. CASE bsearch_iter_deinit
  BY <1>3 DEF bsearch_iter_deinit, client, Halves
<1>4. CASE Step
  <2>1. PICK n \in {Answer(bsearch_iter_get_check_index),
                    BSEARCH_NOTIFY_ERR_ABORT} : bsearch_iter_notify(n)
    BY <1>4 DEF Step
  <2>2. CASE status = BSEARCH_CONTINUE /\ unreadable = {}
    BY <2>1, <2>2, NotifyHalves
  <2>3. CASE status # BSEARCH_CONTINUE
    BY <1>1, <2>1, <2>3 DEF bsearch_iter_notify
  <2>4. CASE unreadable # {}
    <3>1. unreadable' = unreadable
      BY <2>1 DEF bsearch_iter_notify, vars, client
    <3> QED
      BY <2>4, <3>1 DEF Halves
  <2> QED
    BY <2>2, <2>3, <2>4
<1> QED
  BY <1>1, <1>2, <1>3, <1>4 DEF Next

(***************************************************************************)
(* When every element can be read, each round of bsearch_iter.c halves the *)
(* window: a search of stop - start + 1 elements takes no more rounds than *)
(* that number has binary digits, for every range.                         *)
(***************************************************************************)
THEOREM SearchIsLogarithmic == Spec => []Halves
<1>1. Init => Halves
  <2> SUFFICES ASSUME Init PROVE Halves
    OBVIOUS
  <2>1. checked = {} /\ left_idx = start_idx /\ right_idx = stop_idx
        /\ start_idx \in Int /\ stop_idx \in Int /\ start_idx < stop_idx
    BY DEF Init, Index
  <2>2. 2 ^ Cardinality(checked) = 1
    BY <2>1, PowerOfNone, Zenon
  <2> QED
    BY <2>1, <2>2 DEF Halves
<1> QED
  BY <1>1, InitIInv, NextIInv, NextHalves, PTL DEF Spec
=============================================================================
