---------------------------- MODULE BoundedFifo -----------------------------
(***************************************************************************)
(* What the copy queue promises: a queue that refuses an element when it   *)
(* is full and lets the client look at the next one.  All but the full     *)
(* case is as in OverwritingFifo.                                          *)
(***************************************************************************)
EXTENDS OverwritingFifo

Refuse(code) ==
  /\ ret' = code
  /\ UNCHANGED <<capacity, contents, out>>

Peek ==
  /\ contents # <<>>
  /\ out' = Head(contents)
  /\ ret' = ERR_NONE
  /\ UNCHANGED <<capacity, contents>>

BoundedNext ==
  \/ \E n \in Accepted : Accept(n)
  \/ Refuse(ERR_INVALID_ARG)
  \/ Deinit
  \/ Len(contents) < capacity /\ \E e \in Byte : Push(e)
  \/ Len(contents) = capacity /\ Refuse(ERR_NO_MEM)
  \/ Pop
  \/ Peek
  \/ PopRefused

BoundedSpec == Init /\ [][BoundedNext]_vars
=============================================================================
