--------------------------- MODULE OverwritingFifo ---------------------------
(***************************************************************************)
(* What a byte ring of this library promises its client: "a queue with     *)
(* override for the oldest values".  The ring is the sequence of the bytes *)
(* it holds, oldest first, and a capacity, 0 when it is deinitialised.     *)
(* CircularBuffer and FastCircularBuffer implement this specification.     *)
(***************************************************************************)
EXTENDS Naturals, Sequences, ErrorCodes

CONSTANTS
  Byte,       \* the values that may be pushed
  Offered,    \* the buffer sizes a client may pass to init
  Accepted    \* the ones among them that init must accept

VARIABLES
  capacity,   \* number of bytes the ring can hold
  contents,   \* the bytes it holds, oldest first
  out,        \* the client's variable that pop writes to
  ret         \* what the last call returned

vars == <<capacity, contents, out, ret>>

Init ==
  /\ capacity = 0
  /\ contents = <<>>
  /\ out \in Byte
  /\ ret = ERR_NONE

Accept(n) ==
  /\ n \in Accepted
  /\ capacity' = n
  /\ contents' = <<>>
  /\ ret' = ERR_NONE
  /\ UNCHANGED out

Reject(n) ==
  /\ n \notin Accepted
  /\ ret' = ERR_INVALID_ARG
  /\ UNCHANGED <<capacity, contents, out>>

Deinit ==
  /\ capacity' = 0
  /\ contents' = <<>>
  /\ UNCHANGED <<out, ret>>

(* A push never fails on a ring in use: a full one gives up its oldest byte. *)
Push(b) ==
  /\ capacity # 0
  /\ contents' = Append(IF Len(contents) = capacity THEN Tail(contents)
                                                    ELSE contents, b)
  /\ ret' = ERR_NONE
  /\ UNCHANGED <<capacity, out>>

PushRefused ==
  /\ capacity = 0
  /\ ret' = ERR_NO_MEM
  /\ UNCHANGED <<capacity, contents, out>>

Pop ==
  /\ contents # <<>>
  /\ out' = Head(contents)
  /\ contents' = Tail(contents)
  /\ ret' = ERR_NONE
  /\ UNCHANGED capacity

PopRefused ==
  /\ contents = <<>>
  /\ ret' = ERR_EMPTY
  /\ UNCHANGED <<capacity, contents, out>>

Next ==
  \/ \E n \in Offered : Accept(n) \/ Reject(n)
  \/ Deinit
  \/ \E b \in Byte : Push(b)
  \/ PushRefused
  \/ Pop
  \/ PopRefused

Spec == Init /\ [][Next]_vars
=============================================================================
