------------------------ MODULE Dispatchers_proofs --------------------------
(***************************************************************************)
(* Proofs about simple_fsm.c for every number of states, every transition  *)
(* limit and every depth of nested calls, and about                        *)
(* static_event_publisher.c for every set of subscribers, every choice of  *)
(* lists and every number of events.                                       *)
(***************************************************************************)
EXTENDS Dispatchers, SequenceTheorems, FiniteSetTheorems, TLAPS

(* What the kinds of the handlers are. *)
LEMMA KindFacts ==
  /\ Kind("first_entry") = "entry" /\ Kind("entry") = "entry"
  /\ Kind("exit") = "exit" /\ Kind("stop_exit") = "exit"
  /\ Kind("event") = "event"
  BY DEF Kind

(* A stack with a frame put on it. *)
LEMMA Pushed ==
  ASSUME NEW S, NEW f \in S, NEW rest \in Seq(S)
  PROVE  /\ <<f>> \o rest \in Seq(S)
         /\ Len(<<f>> \o rest) = Len(rest) + 1
         /\ (<<f>> \o rest)[1] = f
         /\ \A i \in 2 .. Len(rest) + 1 : (<<f>> \o rest)[i] = rest[i - 1]
         /\ Head(<<f>> \o rest) = f
         /\ <<f>> \o rest # <<>>
<1>1. <<f>> \in Seq(S) /\ Len(<<f>>) = 1 /\ <<f>>[1] = f
  OBVIOUS
<1>2. /\ <<f>> \o rest \in Seq(S) /\ Len(<<f>> \o rest) = 1 + Len(rest)
      /\ \A i \in 1 .. 1 + Len(rest) :
           (<<f>> \o rest)[i] = IF i <= 1 THEN <<f>>[i] ELSE rest[i - 1]
  BY <1>1, ConcatProperties
<1>3. Len(rest) \in Nat
  BY LenProperties
<1> QED
  BY <1>1, <1>2, <1>3, EmptySeq, HeadTailProperties

(* A stack with the top frame taken off. *)
LEMMA Popped ==
  ASSUME NEW S, NEW s \in Seq(S), s # <<>>
  PROVE  /\ Tail(s) \in Seq(S) /\ Head(s) \in S /\ Head(s) = s[1]
         /\ Len(s) \in Nat \ {0} /\ Len(Tail(s)) = Len(s) - 1
         /\ \A i \in 1 .. Len(s) - 1 : Tail(s)[i] = s[i + 1]
<1>1. Len(s) \in Nat \ {0}
  BY LenProperties, EmptySeq
<1> QED
  BY <1>1, HeadTailProperties, ElementOfSeq

-----------------------------------------------------------------------------
(* A frame whose transitions are below the limit. *)
Live == {f \in Frame : f.transitions < config.max_transition_count}

(* The type invariant with it is inductive. *)
IType == TypeOK /\ stack \in Seq(Live)

(* A configuration the machine can have. *)
LEMMA ConfigFacts ==
  ASSUME TypeOK
  PROVE  /\ config.state_count \in 1 .. MaxStates
         /\ config.initial_state \in 0 .. config.state_count - 1
         /\ config.max_transition_count \in 1 .. MaxLimit
         /\ 0 .. config.state_count - 1 \subseteq State
         /\ MaxStates \in Nat /\ MaxLimit \in Nat /\ MaxDepth \in Nat \ {0}
<1>1. /\ config.state_count \in 0 .. MaxStates
      /\ config.initial_state \in 0 .. MaxStates
      /\ config.max_transition_count \in 0 .. MaxLimit
      /\ config.state_count # 0 /\ config.max_transition_count # 0
      /\ config.initial_state < config.state_count
  BY DEF TypeOK, Config, ValidConfig
<1> QED
  BY <1>1, MaxStatesAssumption, MaxLimitAssumption, MaxDepthAssumption DEF State

(* What a new frame and one that goes on are. *)
LEMMA FrameFacts ==
  ASSUME TypeOK
  PROVE  /\ \A op \in {"start", "on_event", "force_stop"}, h \in Handler :
              NewFrame(op, h) \in Live
         /\ \A f \in Live : [f EXCEPT !.in = "entry"] \in Live
         /\ \A f \in Live, n \in 0 .. MaxStates, t \in Nat :
              t < config.max_transition_count =>
                [f EXCEPT !.in = "exit", !.next = n, !.transitions = t] \in Live
<1>1. config.max_transition_count \in 1 .. MaxLimit /\ MaxStates \in Nat /\ MaxLimit \in Nat
  BY ConfigFacts
<1>2. \A op \in {"start", "on_event", "force_stop"}, h \in Handler :
        NewFrame(op, h) \in Live
  BY <1>1 DEF NewFrame, Live, Frame
<1>3. \A f \in Live : [f EXCEPT !.in = "entry"] \in Live
  BY <1>1 DEF Live, Frame, Handler
<1>4. ASSUME NEW f \in Live, NEW n \in 0 .. MaxStates, NEW t \in Nat,
             t < config.max_transition_count
      PROVE  [f EXCEPT !.in = "exit", !.next = n, !.transitions = t] \in Live
  <2> DEFINE g == [f EXCEPT !.in = "exit", !.next = n, !.transitions = t]
  <2>1. f \in Frame /\ t \in 0 .. MaxLimit
    BY <1>1, <1>4 DEF Live
  <2>2. g \in Frame
    BY <2>1 DEF Frame, Handler
  <2>3. g.transitions = t
    BY <2>1 DEF Frame
  <2> QED
    BY <1>4, <2>2, <2>3 DEF Live
<1> QED
  BY <1>2, <1>3, <1>4

(* Calling a handler keeps the type. *)
LEMMA CallKeepsType ==
  ASSUME IType, NEW s \in State, NEW f \in Live, NEW rest \in Seq(Live),
         Len(rest) < MaxDepth, Call(s, f, rest), client' = client,
         state' \in 0 .. config.state_count - 1, started' \in BOOLEAN
  PROVE  IType'
<1>1. stack' = <<f>> \o rest /\ config' = config /\ ret' = ret /\ must_reset' = must_reset
  BY DEF Call
<1>2. stack' \in Seq(Live) /\ Len(stack') <= MaxDepth
  <2>1. stack' \in Seq(Live) /\ Len(stack') = Len(rest) + 1 /\ Len(rest) \in Nat
    BY <1>1, Pushed, LenProperties
  <2> QED
    BY <2>1, ConfigFacts DEF IType
<1>3. open' \in [State -> Int]
  <2>1. open \in [State -> Int]
    BY DEF IType, TypeOK
  <2>2. \/ open' = [open EXCEPT ![s] = @ + 1]
        \/ open' = [open EXCEPT ![s] = @ - 1]
        \/ open' = open
    BY DEF Call
  <2> QED
    BY <2>1, <2>2
<1>4. Live' = Live
  BY <1>1 DEF Live
<1>5. Seq(Live) \subseteq Seq(Frame)
  BY DEF Live
<1>6. stack' \in Seq(Live') /\ stack' \in Seq(Frame)
  BY <1>2, <1>4, <1>5
<1> QED
  BY <1>1, <1>2, <1>3, <1>6 DEF IType, TypeOK

(* So does the return of a call. *)
LEMMA ReturnKeepsType ==
  ASSUME IType, NEW op, NEW code \in ErrorCode, NEW rest \in Seq(Live),
         Len(rest) <= MaxDepth, Return(op, code, rest),
         UNCHANGED <<client, config, state, open>>
  PROVE  IType'
<1>1. stack' = rest /\ ret' = code
  BY DEF Return
<1>2. must_reset' \in BOOLEAN
  BY Zenon DEF Return
<1>3. started' \in BOOLEAN
  <2>1. started \in BOOLEAN
    BY DEF IType, TypeOK
  <2>2. started' = FALSE \/ started' = started
    BY Zenon DEF Return
  <2> QED
    BY <2>1, <2>2
<1>4. Live' = Live
  BY DEF Live
<1>5. Seq(Live) \subseteq Seq(Frame)
  BY DEF Live
<1>6. stack' \in Seq(Live') /\ stack' \in Seq(Frame)
  BY <1>1, <1>4, <1>5
<1> QED
  BY <1>1, <1>2, <1>3, <1>6 DEF IType, TypeOK

(* And a call that is refused. *)
LEMMA RefusedKeepsType ==
  ASSUME IType, NEW code \in ErrorCode, Refused(code), client' = client
  PROVE  IType'
<1>1. UNCHANGED <<client, config, state, started, stack, must_reset, open>> /\ ret' = code
  BY DEF Refused, fsm
<1> QED
  BY <1>1 DEF IType, TypeOK, Live

(* And a machine that is set up or cleared. *)
LEMMA ResetKeepsType ==
  ASSUME IType, stack = <<>>, UNCHANGED <<client, stack>>, ret' \in ErrorCode,
         config' \in Config, ValidConfig(config'), state' = config'.initial_state,
         started' = FALSE, must_reset' = FALSE, open' = NoneOpen
  PROVE  IType'
<1>1. config'.initial_state \in 0 .. config'.state_count - 1
  BY MaxStatesAssumption DEF Config, ValidConfig
<1>2. open' \in [State -> Int]
  BY DEF NoneOpen
<1>3. stack' \in Seq(Live') /\ stack' \in Seq(Frame) /\ Len(stack') <= MaxDepth
  BY MaxDepthAssumption DEF Live
<1> QED
  BY <1>1, <1>2, <1>3 DEF IType, TypeOK

-----------------------------------------------------------------------------
(* The loop of simple_fsm_resolve_transitions keeps the type. *)
LEMMA LoopKeepsType ==
  ASSUME IType, stack # <<>>, NEW v \in 0 .. MaxStates, NEW t \in Nat,
         Loop(Head(stack), v, t), client' = client
  PROVE  IType'
<1>0. /\ Head(stack) \in Live /\ Tail(stack) \in Seq(Live) /\ Len(stack) \in Nat
      /\ Len(Tail(stack)) = Len(stack) - 1 /\ Len(stack) <= MaxDepth
      /\ config.max_transition_count \in Nat /\ MaxDepth \in Nat
      /\ 0 .. config.state_count - 1 \subseteq State
  BY Popped, ConfigFacts DEF IType, TypeOK
<1>1. CASE v # state /\ t < config.max_transition_count
  <2> DEFINE f == [Head(stack) EXCEPT !.in = "exit", !.next = v, !.transitions = t]
  <2>1. Call(state, f, Tail(stack)) /\ UNCHANGED <<state, started>>
    BY <1>1 DEF Loop
  <2>2. f \in Live
    BY <1>0, <1>1, FrameFacts DEF IType
  <2>3. /\ state \in State /\ state' \in 0 .. config.state_count - 1
        /\ started' \in BOOLEAN /\ Len(Tail(stack)) < MaxDepth
    BY <1>0, <2>1 DEF IType, TypeOK
  <2> HIDE DEF f
  <2> QED
    BY <1>0, <2>1, <2>2, <2>3, CallKeepsType
<1>2. CASE ~(v # state /\ t < config.max_transition_count)
  <2>1. PICK code \in {ERR_TIMEOUT, ERR_NONE} :
               Return(Head(stack).op, code, Tail(stack))
               /\ UNCHANGED <<config, state, open>>
    BY <1>2 DEF Loop
  <2>2. code \in ErrorCode /\ Len(Tail(stack)) <= MaxDepth
    BY <1>0 DEF ErrorCode
  <2> QED
    BY <1>0, <2>1, <2>2, ReturnKeepsType
<1> QED
  BY <1>1, <1>2

(* So does the rest of its body. *)
LEMMA ExitKeepsType ==
  ASSUME IType, stack # <<>>, NEW v \in 0 .. MaxStates,
         AfterExit(Head(stack), v), client' = client
  PROVE  IType'
<1>0. /\ Head(stack) \in Live /\ Tail(stack) \in Seq(Live) /\ Len(stack) \in Nat
      /\ Len(Tail(stack)) = Len(stack) - 1 /\ Len(stack) <= MaxDepth
      /\ MaxDepth \in Nat /\ MaxStates \in Nat /\ config.state_count \in Nat
      /\ 0 .. config.state_count - 1 \subseteq State
  BY Popped, ConfigFacts DEF IType, TypeOK
<1> DEFINE f == Head(stack)
           requested == IF v = state THEN f.next ELSE v
<1>1. requested \in Nat
  <2>1. f.next \in 0 .. MaxStates
    BY <1>0 DEF Live, Frame
  <2> QED
    BY <1>0, <2>1
<1>2. CASE requested >= config.state_count
  <2>1. Return(f.op, ERR_OUT_OF_BOUNDS, Tail(stack)) /\ UNCHANGED <<config, state, open>>
    BY <1>2 DEF AfterExit
  <2>2. ERR_OUT_OF_BOUNDS \in ErrorCode /\ Len(Tail(stack)) <= MaxDepth
    BY <1>0 DEF ErrorCode
  <2> QED
    BY <1>0, <2>1, <2>2, ReturnKeepsType
<1>3. CASE ~(requested >= config.state_count)
  <2>1. /\ Call(requested, [f EXCEPT !.in = "entry"], Tail(stack))
        /\ state' = requested /\ UNCHANGED started
    BY <1>3 DEF AfterExit
  <2>2. [f EXCEPT !.in = "entry"] \in Live
    BY <1>0, FrameFacts DEF IType
  <2>3. /\ requested \in 0 .. config.state_count - 1 /\ requested \in State
        /\ started' \in BOOLEAN /\ Len(Tail(stack)) < MaxDepth
    BY <1>0, <1>1, <1>3, <2>1 DEF IType, TypeOK
  <2> HIDE DEF requested, f
  <2> QED
    BY <1>0, <2>1, <2>2, <2>3, CallKeepsType
<1> QED
  BY <1>2, <1>3

(* The return of a handler keeps the type. *)
LEMMA ResumeKeepsType ==
  ASSUME IType, Resume
  PROVE  IType'
<1>1. PICK v \in Returned : HandlerReturns(v)
  BY DEF Resume
<1>0. client' = client /\ stack # <<>> /\ v \in 0 .. MaxStates
  <2>1. v \in 0 .. config.state_count
    BY ConfigFacts DEF Returned, IType
  <2> QED
    BY <1>1, <2>1, ConfigFacts DEF Resume, HandlerReturns, IType
<1>2. /\ Head(stack) \in Live /\ Head(stack).transitions \in Nat
      /\ Head(stack).in \in Handler /\ Tail(stack) \in Seq(Live)
      /\ Len(Tail(stack)) <= MaxDepth
  <2>1. /\ Head(stack) \in Live /\ Tail(stack) \in Seq(Live) /\ Len(stack) \in Nat
        /\ Len(Tail(stack)) = Len(stack) - 1 /\ Len(stack) <= MaxDepth /\ MaxDepth \in Nat
    BY <1>0, Popped, ConfigFacts DEF IType, TypeOK
  <2> QED
    BY <2>1 DEF Live, Frame
<1>3. CASE Head(stack).in \in {"first_entry", "event"}
  <2>1. Loop(Head(stack), v, 0)
    BY <1>1, <1>3 DEF HandlerReturns
  <2> QED
    BY <1>0, <2>1, LoopKeepsType
<1>4. CASE Head(stack).in = "entry"
  <2>1. Loop(Head(stack), v, Head(stack).transitions + 1)
    BY <1>1, <1>4 DEF HandlerReturns
  <2>2. Head(stack).transitions + 1 \in Nat
    BY <1>2
  <2> QED
    BY <1>0, <2>1, <2>2, LoopKeepsType
<1>5. CASE Head(stack).in = "exit"
  <2>1. AfterExit(Head(stack), v)
    BY <1>1, <1>5 DEF HandlerReturns
  <2> QED
    BY <1>0, <2>1, ExitKeepsType
<1>6. CASE Head(stack).in = "stop_exit"
  <2>1. PICK code \in {ERR_NONE, ERR_INCOMPLETE} :
               Return(Head(stack).op, code, Tail(stack))
               /\ UNCHANGED <<config, state, open>>
    BY <1>1, <1>6 DEF HandlerReturns
  <2>2. code \in ErrorCode
    BY DEF ErrorCode
  <2> QED
    BY <1>0, <1>2, <2>1, <2>2, ReturnKeepsType
<1> QED
  BY <1>2, <1>3, <1>4, <1>5, <1>6 DEF Handler

(* Every step keeps the type. *)
LEMMA NextKeepsType == IType /\ [Next]_vars => IType'
<1> SUFFICES ASSUME IType, [Next]_vars PROVE IType'
  OBVIOUS
<1>0. /\ stack \in Seq(Live) /\ Len(stack) \in Nat /\ Len(stack) <= MaxDepth
      /\ MaxDepth \in Nat \ {0} /\ state \in State
      /\ state \in 0 .. config.state_count - 1 /\ started \in BOOLEAN
      /\ config \in Config /\ ValidConfig(config) /\ ret \in ErrorCode
      /\ config.initial_state \in 0 .. config.state_count - 1
      /\ config.initial_state \in State
  BY ConfigFacts, LenProperties DEF IType, TypeOK
<1>c. ERR_INVALID_ARG \in ErrorCode /\ ERR_NOOP \in ErrorCode
      /\ ERR_NOT_INITIALISED \in ErrorCode /\ ERR_NONE \in ErrorCode
  BY DEF ErrorCode
<1>d. ASSUME NEW op, FromClient \/ FromHandler(op) PROVE Len(stack) < MaxDepth
  <2>1. CASE FromClient
    BY <1>0, <2>1 DEF FromClient
  <2>2. CASE FromHandler(op)
    BY <2>2 DEF FromHandler
  <2> QED
    BY <1>d, <2>1, <2>2
<1>1. ASSUME client' = client, NEW c \in Config, simple_fsm_init(c) PROVE IType'
  <2>1. CASE ValidConfig(c)
    <3>1. /\ stack = <<>> /\ config' = c /\ state' = c.initial_state /\ started' = FALSE
          /\ ret' = ERR_NONE /\ must_reset' = FALSE /\ open' = NoneOpen /\ stack' = stack
      BY <1>1, <2>1 DEF simple_fsm_init
    <3>2. UNCHANGED <<client, stack>> /\ ret' \in ErrorCode /\ config' \in Config
          /\ ValidConfig(config') /\ state' = config'.initial_state
      BY <1>1, <1>c, <2>1, <3>1
    <3> QED
      BY <3>1, <3>2, ResetKeepsType
  <2>2. CASE ~ValidConfig(c)
    <3>1. Refused(ERR_INVALID_ARG)
      BY <1>1, <2>2 DEF simple_fsm_init
    <3> QED
      BY <1>1, <1>c, <3>1, RefusedKeepsType
  <2> QED
    BY <2>1, <2>2
<1>2. ASSUME client' = client, simple_fsm_deinit PROVE IType'
  <2>1. /\ stack = <<>> /\ config' = config /\ state' = config.initial_state
        /\ started' = FALSE /\ must_reset' = FALSE /\ open' = NoneOpen
        /\ stack' = stack /\ ret' = ret
    BY <1>2 DEF simple_fsm_deinit
  <2>2. UNCHANGED <<client, stack>> /\ ret' \in ErrorCode /\ config' \in Config
        /\ ValidConfig(config') /\ state' = config'.initial_state
    BY <1>0, <1>2, <2>1
  <2> QED
    BY <2>1, <2>2, ResetKeepsType
<1>3. ASSUME client' = client, simple_fsm_start PROVE IType'
  <2>0. Len(stack) < MaxDepth
    BY <1>3, <1>d DEF simple_fsm_start
  <2>1. CASE started
    <3>1. Refused(ERR_NOOP)
      BY <1>3, <2>1 DEF simple_fsm_start
    <3> QED
      BY <1>3, <1>c, <3>1, RefusedKeepsType
  <2>2. CASE ~started
    <3>1. started' = TRUE /\ state' = config.initial_state
          /\ Call(state', NewFrame("start", "first_entry"), stack)
      BY <1>3, <2>2 DEF simple_fsm_start
    <3>2. Call(config.initial_state, NewFrame("start", "first_entry"), stack)
      BY <3>1 DEF Call
    <3>3. NewFrame("start", "first_entry") \in Live
      BY FrameFacts DEF IType, Handler
    <3>4. state' \in 0 .. config.state_count - 1 /\ started' \in BOOLEAN
      BY <1>0, <3>1
    <3> QED
      BY <1>0, <1>3, <2>0, <3>2, <3>3, <3>4, CallKeepsType
  <2> QED
    BY <2>1, <2>2
<1>4. ASSUME client' = client, simple_fsm_on_event PROVE IType'
  <2>0. Len(stack) < MaxDepth
    BY <1>4, <1>d DEF simple_fsm_on_event
  <2>1. CASE ~started
    <3>1. Refused(ERR_NOT_INITIALISED)
      BY <1>4, <2>1 DEF simple_fsm_on_event
    <3> QED
      BY <1>4, <1>c, <3>1, RefusedKeepsType
  <2>2. CASE started
    <3>1. Call(state, NewFrame("on_event", "event"), stack) /\ UNCHANGED <<state, started>>
      BY <1>4, <2>2 DEF simple_fsm_on_event
    <3>2. NewFrame("on_event", "event") \in Live
      BY FrameFacts DEF IType, Handler
    <3>3. state' \in 0 .. config.state_count - 1 /\ started' \in BOOLEAN
      BY <1>0, <3>1
    <3> QED
      BY <1>0, <1>4, <2>0, <3>1, <3>2, <3>3, CallKeepsType
  <2> QED
    BY <2>1, <2>2
<1>5. ASSUME client' = client, simple_fsm_force_stop PROVE IType'
  <2>0. Len(stack) < MaxDepth
    BY <1>5, <1>d DEF simple_fsm_force_stop
  <2>1. CASE ~started
    <3>1. Refused(ERR_NOOP)
      BY <1>5, <2>1 DEF simple_fsm_force_stop
    <3> QED
      BY <1>5, <1>c, <3>1, RefusedKeepsType
  <2>2. CASE started
    <3>1. Call(state, NewFrame("force_stop", "stop_exit"), stack)
          /\ UNCHANGED <<state, started>>
      BY <1>5, <2>2 DEF simple_fsm_force_stop
    <3>2. NewFrame("force_stop", "stop_exit") \in Live
      BY FrameFacts DEF IType, Handler
    <3>3. state' \in 0 .. config.state_count - 1 /\ started' \in BOOLEAN
      BY <1>0, <3>1
    <3> QED
      BY <1>0, <1>5, <2>0, <3>1, <3>2, <3>3, CallKeepsType
  <2> QED
    BY <2>1, <2>2
<1>6. CASE UNCHANGED vars
  BY <1>6 DEF vars, fsm, IType, TypeOK, Live
<1>7. CASE Called
  BY <1>7, <1>1, <1>2, <1>3, <1>4, <1>5 DEF Called
<1> QED
  BY <1>6, <1>7, ResumeKeepsType DEF Next

(* The fresh machine has it. *)
LEMMA InitHasType == Init => IType
<1> SUFFICES ASSUME Init PROVE IType
  OBVIOUS
<1>1. config \in Config /\ ValidConfig(config) /\ state = config.initial_state
  BY DEF Init
<1>2. state \in 0 .. config.state_count - 1
  BY <1>1, MaxStatesAssumption DEF Config, ValidConfig
<1>3. open \in [State -> Int] /\ ret \in ErrorCode
  BY DEF Init, NoneOpen, ErrorCode
<1>4. stack \in Seq(Live) /\ stack \in Seq(Frame) /\ Len(stack) <= MaxDepth
  BY MaxDepthAssumption DEF Init
<1> QED
  BY <1>1, <1>2, <1>3, <1>4 DEF Init, IType, TypeOK

(***************************************************************************)
(* simple_fsm.c keeps the current state below state_count and the number   *)
(* of transitions below the limit whatever its handlers return, also when  *)
(* entry and event handlers call start and on_event and event handlers     *)
(* call force_stop.                                                        *)
(***************************************************************************)
THEOREM FsmTypeCorrect == Spec => []TypeOK
<1>1. IType => TypeOK
  BY DEF IType
<1> QED
  BY <1>1, InitHasType, NextKeepsType, PTL DEF Spec

-----------------------------------------------------------------------------
(***************************************************************************)
(* A client the machine is safe with: no handler calls force_stop, exit    *)
(* handlers call nothing (FromHandler), and the client clears a machine    *)
(* that a call has left between two states.                                *)
(***************************************************************************)
SafeClient ==
  /\ Clients \subseteq {"straying", "nesting"}
  /\ {ERR_TIMEOUT, ERR_OUT_OF_BOUNDS} \subseteq ResetAfter

(* A frame of such a client. *)
Good == {f \in Live : /\ f.in = "stop_exit" <=> f.op = "force_stop"
                      /\ client = "nesting" => f.next < config.state_count}

(***************************************************************************)
(* How calls nest: only on_event is called from a handler, and never from  *)
(* an exit handler.                                                        *)
(***************************************************************************)
Nested ==
  /\ stack \in Seq(Good)
  /\ \A i \in 1 .. Len(stack) - 1 : stack[i].op = "on_event"
  /\ \A i \in 2 .. Len(stack) : Kind(stack[i].in) # "exit"
  /\ client # "nesting" => Len(stack) <= 1

(* While a call is in progress the machine runs. *)
Running == stack # <<>> => started = TRUE /\ must_reset = FALSE

IInv == IType /\ Nested /\ Running /\ EntriesMatchExits /\ HandlersInTurn

(* A frame is put on top. *)
LEMMA PushNests ==
  ASSUME Nested, NEW f \in Good, stack' = <<f>> \o stack, UNCHANGED <<client, config>>,
         \/ stack = <<>>
         \/ f.op = "on_event" /\ Kind(Head(stack).in) # "exit" /\ client = "nesting"
  PROVE  Nested' /\ stack' # <<>> /\ Head(stack') = f
<1>1. stack \in Seq(Good) /\ Len(stack) \in Nat
  BY LenProperties DEF Nested
<1>2. /\ stack' \in Seq(Good) /\ Len(stack') = Len(stack) + 1 /\ stack'[1] = f
      /\ \A i \in 2 .. Len(stack) + 1 : stack'[i] = stack[i - 1]
      /\ stack' # <<>> /\ Head(stack') = f
  BY <1>1, Pushed
<1>3. Good' = Good
  BY DEF Good, Live
<1>4. ASSUME NEW i \in 1 .. Len(stack') - 1 PROVE stack'[i].op = "on_event"
  <2>1. i \in 1 .. Len(stack) /\ Len(stack) # 0
    BY <1>1, <1>2
  <2>2. stack # <<>>
    BY <2>1
  <2>3. CASE i = 1
    BY <1>2, <2>2, <2>3
  <2>4. CASE i # 1
    <3>1. i \in 2 .. Len(stack) + 1 /\ i - 1 \in 1 .. Len(stack) - 1
      BY <1>1, <2>1, <2>4
    <3> QED
      BY <1>2, <3>1 DEF Nested
  <2> QED
    BY <2>3, <2>4
<1>5. ASSUME NEW i \in 2 .. Len(stack') PROVE Kind(stack'[i].in) # "exit"
  <2>1. i \in 2 .. Len(stack) + 1 /\ i - 1 \in 1 .. Len(stack) /\ Len(stack) # 0
    BY <1>1, <1>2
  <2>2. stack # <<>>
    BY <2>1
  <2>3. stack'[i] = stack[i - 1]
    BY <1>2, <2>1
  <2>4. CASE i = 2
    <3>1. Head(stack) = stack[1] /\ i - 1 = 1
      BY <1>1, <2>2, <2>4, Popped
    <3> QED
      BY <2>2, <2>3, <3>1
  <2>5. CASE i # 2
    <3>1. i - 1 \in 2 .. Len(stack)
      BY <1>1, <2>1, <2>5
    <3> QED
      BY <2>3, <3>1 DEF Nested
  <2> QED
    BY <2>4, <2>5
<1>6. client' # "nesting" => Len(stack') <= 1
  <2>1. CASE stack = <<>>
    BY <1>1, <1>2, <2>1
  <2>2. CASE stack # <<>>
    BY <2>2
  <2> QED
    BY <2>1, <2>2
<1> QED
  BY <1>2, <1>3, <1>4, <1>5, <1>6 DEF Nested

(* The top frame goes on. *)
LEMMA ReplaceNests ==
  ASSUME Nested, stack # <<>>, NEW f \in Good, stack' = <<f>> \o Tail(stack),
         UNCHANGED <<client, config>>, f.op = Head(stack).op
  PROVE  Nested' /\ stack' # <<>> /\ Head(stack') = f
<1>1. /\ stack \in Seq(Good) /\ Tail(stack) \in Seq(Good) /\ Head(stack) = stack[1]
      /\ Len(stack) \in Nat \ {0} /\ Len(Tail(stack)) = Len(stack) - 1
      /\ \A i \in 1 .. Len(stack) - 1 : Tail(stack)[i] = stack[i + 1]
  BY Popped DEF Nested
<1>2. /\ stack' \in Seq(Good) /\ Len(stack') = Len(Tail(stack)) + 1 /\ stack'[1] = f
      /\ \A i \in 2 .. Len(Tail(stack)) + 1 : stack'[i] = Tail(stack)[i - 1]
      /\ stack' # <<>> /\ Head(stack') = f
  BY <1>1, Pushed
<1>3. /\ Len(stack') = Len(stack)
      /\ \A i \in 2 .. Len(stack) : stack'[i] = stack[i]
  <2>1. Len(stack') = Len(stack) /\ Len(Tail(stack)) + 1 = Len(stack)
    BY <1>1, <1>2
  <2>2. ASSUME NEW i \in 2 .. Len(stack) PROVE stack'[i] = stack[i]
    <3>1. i - 1 \in 1 .. Len(stack) - 1 /\ (i - 1) + 1 = i
      BY <1>1
    <3> QED
      BY <1>1, <1>2, <2>1, <3>1
  <2> QED
    BY <2>1, <2>2
<1>4. Good' = Good
  BY DEF Good, Live
<1>5. ASSUME NEW i \in 1 .. Len(stack') - 1 PROVE stack'[i].op = "on_event"
  <2>1. i \in 1 .. Len(stack) - 1 /\ (i # 1 => i \in 2 .. Len(stack))
    BY <1>1, <1>3
  <2>2. stack[i].op = "on_event"
    BY <2>1 DEF Nested
  <2> QED
    BY <1>1, <1>2, <1>3, <2>1, <2>2
<1> QED
  BY <1>2, <1>3, <1>4, <1>5 DEF Nested

(* The top frame is taken off. *)
LEMMA PopNests ==
  ASSUME Nested, stack # <<>>, stack' = Tail(stack), UNCHANGED <<client, config>>
  PROVE  /\ Nested'
         /\ stack' # <<>> => /\ Kind(Head(stack').in) # "exit"
                            /\ Head(stack).op = "on_event" /\ client = "nesting"
<1>1. /\ stack \in Seq(Good) /\ stack' \in Seq(Good) /\ Head(stack) = stack[1]
      /\ Len(stack) \in Nat \ {0} /\ Len(stack') = Len(stack) - 1
      /\ \A i \in 1 .. Len(stack) - 1 : stack'[i] = stack[i + 1]
  BY Popped DEF Nested
<1>2. Good' = Good
  BY DEF Good, Live
<1>3. \A i \in 1 .. Len(stack') - 1 : stack'[i].op = "on_event"
  <2> TAKE i \in 1 .. Len(stack') - 1
  <2>1. i \in 1 .. Len(stack) - 1 /\ i + 1 \in 1 .. Len(stack) - 1
    BY <1>1
  <2> QED
    BY <1>1, <2>1 DEF Nested
<1>4. \A i \in 1 .. Len(stack') : Kind(stack'[i].in) # "exit"
  <2> TAKE i \in 1 .. Len(stack')
  <2>1. i \in 1 .. Len(stack) - 1 /\ i + 1 \in 2 .. Len(stack)
    BY <1>1
  <2> QED
    BY <1>1, <2>1 DEF Nested
<1>5. \A i \in 2 .. Len(stack') : Kind(stack'[i].in) # "exit"
  BY <1>1, <1>4
<1>6. client' # "nesting" => Len(stack') <= 1
  BY <1>1 DEF Nested
<1>7. ASSUME stack' # <<>>
      PROVE  /\ Kind(Head(stack').in) # "exit"
             /\ Head(stack).op = "on_event" /\ client = "nesting"
  <2>1. Head(stack') = stack'[1] /\ Len(stack') \in Nat \ {0}
    BY <1>1, <1>7, Popped
  <2>2. 1 \in 1 .. Len(stack') /\ 1 \in 1 .. Len(stack) - 1 /\ ~(Len(stack) <= 1)
    BY <1>1, <2>1
  <2> QED
    BY <1>1, <1>4, <2>1, <2>2 DEF Nested
<1> QED
  BY <1>1, <1>2, <1>3, <1>5, <1>6, <1>7 DEF Nested

-----------------------------------------------------------------------------
(* Entering and leaving a state. *)
LEMMA OpenFacts ==
  ASSUME NEW s \in State
  PROVE  /\ [[NoneOpen EXCEPT ![s] = 1] EXCEPT ![s] = @ - 1] = NoneOpen
         /\ [NoneOpen EXCEPT ![s] = @ + 1] = [NoneOpen EXCEPT ![s] = 1]
  BY DEF NoneOpen

(* What a call of a handler does to open. *)
LEMMA CallOpens ==
  ASSUME NEW s \in State, NEW f, NEW rest, Call(s, f, rest)
  PROVE  /\ Kind(f.in) = "entry" /\ open = NoneOpen => open' = [NoneOpen EXCEPT ![s] = 1]
         /\ Kind(f.in) = "exit" /\ OnlyOpen(s) => open' = NoneOpen
         /\ Kind(f.in) = "event" => open' = open
<1>1. ASSUME Kind(f.in) = "entry", open = NoneOpen
      PROVE  open' = [NoneOpen EXCEPT ![s] = 1]
  <2>1. open' = [open EXCEPT ![s] = @ + 1]
    BY <1>1 DEF Call
  <2> QED
    BY <1>1, <2>1, OpenFacts
<1>2. ASSUME Kind(f.in) = "exit", OnlyOpen(s) PROVE open' = NoneOpen
  <2>1. open' = [open EXCEPT ![s] = @ - 1]
    BY <1>2 DEF Call
  <2> QED
    BY <1>2, <2>1, OpenFacts DEF OnlyOpen
<1>3. ASSUME Kind(f.in) = "event" PROVE open' = open
  BY <1>3 DEF Call
<1> QED
  BY <1>1, <1>2, <1>3

(* A call that returns leaves a running machine to the handler it came from. *)
LEMMA ReturnLeaves ==
  ASSUME IInv, stack # <<>>, NEW code, Return(Head(stack).op, code, Tail(stack)),
         UNCHANGED <<client, config>>
  PROVE  /\ Nested' /\ Running'
         /\ stack' = <<>> /\ code \in ResetAfter => must_reset' = TRUE
         /\ stack' # <<>> => /\ Kind(Head(stack').in) # "exit"
                            /\ Head(stack).op = "on_event" /\ client = "nesting"
         /\ started' = IF Head(stack).op = "force_stop"
                            \/ (Head(stack).op = "start" /\ code # ERR_NONE)
                         THEN FALSE ELSE TRUE
<1>0. stack' = Tail(stack) /\ Nested /\ started = TRUE /\ must_reset = FALSE
  BY DEF Return, IInv, Running
<1>1. /\ Nested'
      /\ stack' # <<>> => /\ Kind(Head(stack').in) # "exit"
                         /\ Head(stack).op = "on_event" /\ client = "nesting"
  BY <1>0, PopNests
<1>2. started' = IF Head(stack).op = "force_stop"
                      \/ (Head(stack).op = "start" /\ code # ERR_NONE)
                   THEN FALSE ELSE TRUE
  BY <1>0 DEF Return
<1>3. stack' = <<>> /\ code \in ResetAfter => must_reset' = TRUE
  BY <1>0, Zenon DEF Return
<1>4. stack' # <<>> => must_reset' = FALSE
  BY <1>0, Zenon DEF Return
<1> QED
  BY <1>1, <1>2, <1>3, <1>4 DEF Running

(* The loop leaves the machine in its state, or goes on to leave it. *)
LEMMA LoopKeepsIInv ==
  ASSUME SafeClient, IInv, IType', stack # <<>>, Kind(Head(stack).in) # "exit",
         NEW v \in Returned, NEW t \in Nat, Loop(Head(stack), v, t), client' = client
  PROVE  IInv'
<1>0. /\ Nested /\ Head(stack) \in Good /\ OnlyOpen(state) /\ state \in State
      /\ config.state_count \in Nat /\ v \in Nat /\ Head(stack).in # "stop_exit"
      /\ client = "nesting" => v < config.state_count
  <2>1. Nested /\ Head(stack) \in Good /\ OnlyOpen(state)
    BY Popped DEF IInv, Nested, HandlersInTurn
  <2>2. TypeOK /\ config.state_count \in Nat /\ 0 .. config.state_count - 1 \subseteq State
    BY ConfigFacts DEF IInv, IType
  <2>3. v \in Nat /\ (client = "nesting" => v < config.state_count)
    BY <2>2 DEF Returned
  <2>4. state \in State
    BY <2>2 DEF TypeOK
  <2> QED
    BY <2>1, <2>2, <2>3, <2>4, KindFacts
<1>1. CASE v # state /\ t < config.max_transition_count
  <2> DEFINE f == [Head(stack) EXCEPT !.in = "exit", !.next = v, !.transitions = t]
  <2>1. /\ Call(state, f, Tail(stack)) /\ UNCHANGED <<state, started>>
        /\ stack' = <<f>> \o Tail(stack) /\ UNCHANGED <<config, must_reset>>
    BY <1>1 DEF Loop, Call
  <2>2. f \in Good /\ f.op = Head(stack).op /\ f.in = "exit"
    <3>1. v \in 0 .. MaxStates
      BY ConfigFacts DEF IInv, IType, Returned
    <3>2. f \in Live
      BY <1>0, <1>1, <3>1, FrameFacts DEF IInv, IType, Good
    <3>3. f.op = Head(stack).op /\ f.in = "exit" /\ f.next = v
      BY <1>0 DEF Good, Live, Frame
    <3> QED
      BY <1>0, <3>2, <3>3 DEF Good
  <2> HIDE DEF f
  <2>3. Nested' /\ stack' # <<>> /\ Head(stack') = f
    BY <1>0, <2>1, <2>2, ReplaceNests
  <2>4. open' = NoneOpen
    BY <1>0, <2>1, <2>2, CallOpens, KindFacts
  <2>5. Running'
    BY <2>1 DEF Running, IInv
  <2> QED
    BY <2>2, <2>3, <2>4, <2>5, KindFacts DEF IInv, EntriesMatchExits, HandlersInTurn
<1>2. CASE ~(v # state /\ t < config.max_transition_count)
  <2>1. PICK code \in {ERR_TIMEOUT, ERR_NONE} :
               Return(Head(stack).op, code, Tail(stack))
               /\ UNCHANGED <<config, state, open>>
    BY <1>2 DEF Loop
  <2>2. /\ Nested' /\ Running'
        /\ stack' = <<>> /\ code \in ResetAfter => must_reset' = TRUE
        /\ stack' # <<>> => Kind(Head(stack').in) # "exit"
        /\ started' = IF Head(stack).op = "force_stop"
                           \/ (Head(stack).op = "start" /\ code # ERR_NONE)
                        THEN FALSE ELSE TRUE
    BY <2>1, ReturnLeaves
  <2>3. OnlyOpen(state)'
    BY <1>0, <2>1 DEF OnlyOpen, NoneOpen
  <2>4. HandlersInTurn'
    BY <2>2, <2>3 DEF HandlersInTurn
  <2>5. EntriesMatchExits'
    <3>1. CASE started' = TRUE
      BY <2>3, <3>1 DEF EntriesMatchExits
    <3>2. CASE started' # TRUE
      <4>1. Head(stack).op # "force_stop"
        BY <1>0 DEF Good
      <4>2. code = ERR_TIMEOUT
        BY <2>1, <2>2, <3>2, <4>1
      <4>3. stack' = <<>> => must_reset' = TRUE
        BY <2>2, <4>2 DEF SafeClient
      <4> QED
        BY <4>3 DEF EntriesMatchExits
    <3> QED
      BY <3>1, <3>2
  <2> QED
    BY <2>2, <2>4, <2>5 DEF IInv
<1> QED
  BY <1>1, <1>2

(* The rest of its body enters the next state, or leaves the machine to be *)
(* cleared.                                                                *)
LEMMA ExitKeepsIInv ==
  ASSUME SafeClient, IInv, IType', stack # <<>>, Head(stack).in = "exit",
         NEW v \in Returned, AfterExit(Head(stack), v), client' = client
  PROVE  IInv'
<1> DEFINE f == Head(stack)
           requested == IF v = state THEN f.next ELSE v
<1>0. /\ Nested /\ f \in Good /\ open = NoneOpen /\ f.op # "force_stop"
      /\ config.state_count \in Nat /\ 0 .. config.state_count - 1 \subseteq State
      /\ requested \in Nat /\ (client = "nesting" => requested < config.state_count)
      /\ client \in {"straying", "nesting"}
  <2>1. Nested /\ f \in Good /\ open = NoneOpen
    BY Popped, KindFacts DEF IInv, Nested, HandlersInTurn
  <2>2. /\ config.state_count \in Nat /\ v \in Nat /\ MaxStates \in Nat
        /\ (client = "nesting" => v < config.state_count)
        /\ 0 .. config.state_count - 1 \subseteq State /\ client \in Clients
    BY ConfigFacts DEF IInv, IType, TypeOK, Returned
  <2>3. f.next \in Nat /\ (client = "nesting" => f.next < config.state_count)
        /\ f.op # "force_stop"
    BY <2>1, <2>2 DEF Good, Live, Frame
  <2> QED
    BY <2>1, <2>2, <2>3 DEF SafeClient
<1>1. CASE requested >= config.state_count
  <2>1. Return(f.op, ERR_OUT_OF_BOUNDS, Tail(stack)) /\ UNCHANGED <<config, state, open>>
    BY <1>1 DEF AfterExit
  <2>2. client # "nesting"
    BY <1>0, <1>1
  <2>3. /\ Nested' /\ Running' /\ stack' = <<>>
        /\ (stack' = <<>> /\ ERR_OUT_OF_BOUNDS \in ResetAfter => must_reset' = TRUE)
    BY <2>1, <2>2, ReturnLeaves
  <2>4. must_reset' = TRUE
    BY <2>3 DEF SafeClient
  <2> QED
    BY <2>3, <2>4 DEF IInv, EntriesMatchExits, HandlersInTurn
<1>2. CASE ~(requested >= config.state_count)
  <2> DEFINE g == [f EXCEPT !.in = "entry"]
  <2>1. /\ Call(requested, g, Tail(stack)) /\ state' = requested /\ UNCHANGED started
        /\ stack' = <<g>> \o Tail(stack) /\ UNCHANGED <<config, must_reset>>
    BY <1>2 DEF AfterExit, Call
  <2>2. g \in Good /\ g.op = f.op /\ g.in = "entry"
    <3>1. g \in Live
      BY <1>0, FrameFacts DEF IInv, IType, Good
    <3>2. g.op = f.op /\ g.in = "entry" /\ g.next = f.next
      BY <1>0 DEF Good, Live, Frame
    <3> QED
      BY <1>0, <3>1, <3>2 DEF Good
  <2>3. requested \in State
    BY <1>0, <1>2
  <2> HIDE DEF g
  <2>4. Nested' /\ stack' # <<>> /\ Head(stack') = g
    BY <1>0, <2>1, <2>2, ReplaceNests
  <2> HIDE DEF requested
  <2>5. open' = [NoneOpen EXCEPT ![requested] = 1]
    BY <1>0, <2>1, <2>2, <2>3, CallOpens, KindFacts
  <2>6. OnlyOpen(state)'
    BY <2>1, <2>5 DEF OnlyOpen, NoneOpen
  <2>7. Running'
    BY <2>1 DEF Running, IInv
  <2> QED
    BY <2>2, <2>4, <2>6, <2>7, KindFacts DEF IInv, EntriesMatchExits, HandlersInTurn
<1> QED
  BY <1>1, <1>2

(* The return of a handler keeps the invariant. *)
LEMMA ResumeKeepsIInv ==
  ASSUME SafeClient, IInv, IType', Resume
  PROVE  IInv'
<1>1. PICK v \in Returned : HandlerReturns(v)
  BY DEF Resume
<1>2. client' = client /\ stack # <<>>
  BY <1>1 DEF Resume, HandlerReturns
<1>3. /\ Head(stack) \in Good /\ Head(stack).in \in Handler
      /\ Head(stack).transitions + 1 \in Nat
  <2>1. Head(stack) \in Good
    BY <1>2, Popped DEF IInv, Nested
  <2> QED
    BY <2>1, MaxLimitAssumption DEF Good, Live, Frame
<1>4. CASE Head(stack).in \in {"first_entry", "event"}
  <2>1. Loop(Head(stack), v, 0) /\ Kind(Head(stack).in) # "exit"
    BY <1>1, <1>4, KindFacts DEF HandlerReturns
  <2> QED
    BY <1>2, <2>1, LoopKeepsIInv
<1>5. CASE Head(stack).in = "entry"
  <2>1. Loop(Head(stack), v, Head(stack).transitions + 1) /\ Kind(Head(stack).in) # "exit"
    BY <1>1, <1>5, KindFacts DEF HandlerReturns
  <2> QED
    BY <1>2, <1>3, <2>1, LoopKeepsIInv
<1>6. CASE Head(stack).in = "exit"
  <2>1. AfterExit(Head(stack), v)
    BY <1>1, <1>6 DEF HandlerReturns
  <2> QED
    BY <1>2, <1>6, <2>1, ExitKeepsIInv
<1>7. CASE Head(stack).in = "stop_exit"
  <2>1. PICK code \in {ERR_NONE, ERR_INCOMPLETE} :
               Return(Head(stack).op, code, Tail(stack))
               /\ UNCHANGED <<config, state, open>>
    BY <1>1, <1>7 DEF HandlerReturns
  <2>2. Head(stack).op = "force_stop" /\ open = NoneOpen
    BY <1>2, <1>3, <1>7, KindFacts DEF Good, IInv, HandlersInTurn
  <2>3. Nested' /\ Running' /\ stack' = <<>> /\ started' = FALSE
    BY <1>2, <2>1, <2>2, ReturnLeaves
  <2>4. open' = NoneOpen
    BY <2>1, <2>2
  <2> QED
    BY <2>3, <2>4 DEF IInv, EntriesMatchExits, HandlersInTurn, NoneOpen
<1> QED
  BY <1>3, <1>4, <1>5, <1>6, <1>7 DEF Handler

(* What a call of the API finds. *)
LEMMA CalledFromFacts ==
  ASSUME SafeClient, IInv, NEW op \in {"start", "on_event", "force_stop"},
         FromClient \/ FromHandler(op)
  PROVE  /\ stack # <<>> => /\ Kind(Head(stack).in) # "exit" /\ client = "nesting"
                           /\ op # "force_stop"
         /\ started = TRUE => OnlyOpen(state)
         /\ started # TRUE => stack = <<>> /\ open = NoneOpen
         /\ must_reset = FALSE
<1>0. started \in BOOLEAN /\ must_reset \in BOOLEAN /\ client \in {"straying", "nesting"}
  BY DEF IInv, IType, TypeOK, SafeClient
<1>1. CASE stack = <<>>
  <2>1. ~must_reset
    BY <1>1 DEF FromClient, FromHandler
  <2>2. IF started THEN OnlyOpen(state) ELSE open = NoneOpen
    BY <1>1, <2>1 DEF IInv, EntriesMatchExits
  <2> QED
    BY <1>0, <1>1, <2>1, <2>2
<1>2. CASE stack # <<>>
  <2>1. /\ client = "nesting" /\ Kind(Head(stack).in) \in {"entry", "event"}
        /\ op \in {"start", "on_event"}
    BY <1>0, <1>2 DEF FromClient, FromHandler
  <2>2. started = TRUE /\ must_reset = FALSE
    BY <1>2 DEF IInv, Running
  <2>3. OnlyOpen(state)
    BY <1>2, <2>1 DEF IInv, HandlersInTurn
  <2> QED
    BY <2>1, <2>2, <2>3
<1> QED
  BY <1>1, <1>2

(* A refused call changes nothing the invariant speaks of. *)
LEMMA RefusedKeepsIInv ==
  ASSUME IInv, IType', NEW code, Refused(code), client' = client
  PROVE  IInv'
<1>1. UNCHANGED <<client, config, state, started, stack, must_reset, open>>
  BY DEF Refused, fsm
<1>2. Nested'
  BY <1>1 DEF IInv, Nested, Good, Live
<1>3. Running' /\ EntriesMatchExits' /\ HandlersInTurn'
  BY <1>1 DEF IInv, Running, EntriesMatchExits, HandlersInTurn, OnlyOpen, NoneOpen
<1> QED
  BY <1>2, <1>3 DEF IInv

(* A machine that is set up or cleared satisfies it. *)
LEMMA ResetKeepsIInv ==
  ASSUME IType', stack' = <<>>, started' = FALSE, open' = NoneOpen
  PROVE  IInv'
<1>1. Nested'
  BY DEF Nested
<1>2. Running' /\ HandlersInTurn' /\ EntriesMatchExits'
  BY DEF Running, HandlersInTurn, EntriesMatchExits, NoneOpen
<1> QED
  BY <1>1, <1>2 DEF IInv

(* Every step keeps the invariant. *)
LEMMA NextKeepsIInv ==
  ASSUME SafeClient
  PROVE  IInv /\ [Next]_vars => IInv'
<1> SUFFICES ASSUME IInv, [Next]_vars PROVE IInv'
  OBVIOUS
<1>0. IType' /\ Nested /\ TypeOK
  BY NextKeepsType DEF IInv, IType
<1>g. ASSUME NEW op \in {"start", "on_event", "force_stop"}, NEW h \in Handler,
             (h = "stop_exit") <=> (op = "force_stop")
      PROVE  NewFrame(op, h) \in Good /\ NewFrame(op, h).op = op /\ NewFrame(op, h).in = h
  <2>1. NewFrame(op, h) \in Live
    BY <1>0, FrameFacts
  <2>2. config.state_count \in Nat \ {0}
    BY <1>0, ConfigFacts
  <2>3. /\ NewFrame(op, h).in = h /\ NewFrame(op, h).op = op
        /\ NewFrame(op, h).next = 0
    BY DEF NewFrame
  <2> QED
    BY <1>g, <2>1, <2>2, <2>3 DEF Good
<1>1. ASSUME client' = client, NEW c \in Config, simple_fsm_init(c) PROVE IInv'
  <2>1. CASE ValidConfig(c)
    <3>1. stack' = <<>> /\ started' = FALSE /\ open' = NoneOpen
      BY <1>1, <2>1 DEF simple_fsm_init
    <3> QED
      BY <1>0, <3>1, ResetKeepsIInv
  <2>2. CASE ~ValidConfig(c)
    <3>1. Refused(ERR_INVALID_ARG)
      BY <1>1, <2>2 DEF simple_fsm_init
    <3> QED
      BY <1>0, <1>1, <3>1, RefusedKeepsIInv
  <2> QED
    BY <2>1, <2>2
<1>2. ASSUME client' = client, simple_fsm_deinit PROVE IInv'
  <2>1. stack' = <<>> /\ started' = FALSE /\ open' = NoneOpen
    BY <1>2 DEF simple_fsm_deinit
  <2> QED
    BY <1>0, <2>1, ResetKeepsIInv
<1>3. ASSUME client' = client, simple_fsm_start PROVE IInv'
  <2>1. CASE started
    <3>1. Refused(ERR_NOOP)
      BY <1>3, <2>1 DEF simple_fsm_start
    <3> QED
      BY <1>0, <1>3, <3>1, RefusedKeepsIInv
  <2>2. CASE ~started
    <3> DEFINE f == NewFrame("start", "first_entry")
               s == config.initial_state
    <3>1. started' = TRUE /\ state' = s /\ Call(state', f, stack)
          /\ (FromClient \/ FromHandler("start"))
      BY <1>3, <2>2 DEF simple_fsm_start
    <3>2. /\ Call(s, f, stack) /\ stack' = <<f>> \o stack
          /\ UNCHANGED <<config, must_reset>>
      BY <3>1 DEF Call
    <3>3. stack = <<>> /\ open = NoneOpen /\ must_reset = FALSE
      BY <2>2, <3>1, CalledFromFacts
    <3>4. f \in Good /\ f.in = "first_entry" /\ s \in State
      BY <1>0, <1>g, ConfigFacts DEF Handler
    <3> HIDE DEF f, s
    <3>5. Nested' /\ stack' # <<>> /\ Head(stack') = f
      BY <1>0, <1>3, <3>2, <3>3, <3>4, PushNests
    <3>6. open' = [NoneOpen EXCEPT ![s] = 1]
      BY <3>2, <3>3, <3>4, CallOpens, KindFacts
    <3>7. OnlyOpen(state)' /\ Running'
      BY <3>1, <3>2, <3>3, <3>6 DEF OnlyOpen, NoneOpen, Running
    <3> QED
      BY <1>0, <3>4, <3>5, <3>7, KindFacts DEF IInv, EntriesMatchExits, HandlersInTurn
  <2> QED
    BY <2>1, <2>2
<1>4. ASSUME client' = client, simple_fsm_on_event PROVE IInv'
  <2>1. CASE ~started
    <3>1. Refused(ERR_NOT_INITIALISED)
      BY <1>4, <2>1 DEF simple_fsm_on_event
    <3> QED
      BY <1>0, <1>4, <3>1, RefusedKeepsIInv
  <2>2. CASE started
    <3> DEFINE f == NewFrame("on_event", "event")
    <3>1. /\ Call(state, f, stack) /\ UNCHANGED <<state, started>>
          /\ stack' = <<f>> \o stack /\ UNCHANGED <<config, must_reset>>
          /\ FromClient \/ FromHandler("on_event")
      BY <1>4, <2>2 DEF simple_fsm_on_event, Call
    <3>2. /\ started = TRUE /\ must_reset = FALSE /\ OnlyOpen(state)
          /\ stack # <<>> => Kind(Head(stack).in) # "exit" /\ client = "nesting"
      BY <1>0, <2>2, <3>1, CalledFromFacts DEF TypeOK
    <3>3. f \in Good /\ f.in = "event" /\ f.op = "on_event" /\ state \in State
      BY <1>0, <1>g, ConfigFacts DEF Handler, TypeOK
    <3> HIDE DEF f
    <3>4. Nested' /\ stack' # <<>> /\ Head(stack') = f
      BY <1>0, <1>4, <3>1, <3>2, <3>3, PushNests
    <3>5. open' = open
      BY <3>1, <3>3, CallOpens, KindFacts
    <3>6. OnlyOpen(state)' /\ Running'
      BY <3>1, <3>2, <3>5 DEF OnlyOpen, NoneOpen, Running
    <3> QED
      BY <1>0, <3>3, <3>4, <3>6, KindFacts DEF IInv, EntriesMatchExits, HandlersInTurn
  <2> QED
    BY <2>1, <2>2
<1>5. ASSUME client' = client, simple_fsm_force_stop PROVE IInv'
  <2>1. CASE ~started
    <3>1. Refused(ERR_NOOP)
      BY <1>5, <2>1 DEF simple_fsm_force_stop
    <3> QED
      BY <1>0, <1>5, <3>1, RefusedKeepsIInv
  <2>2. CASE started
    <3> DEFINE f == NewFrame("force_stop", "stop_exit")
    <3>1. /\ Call(state, f, stack) /\ UNCHANGED <<state, started>>
          /\ stack' = <<f>> \o stack /\ UNCHANGED <<config, must_reset>>
          /\ FromClient \/ FromHandler("force_stop")
      BY <1>5, <2>2 DEF simple_fsm_force_stop, Call
    <3>2. started = TRUE /\ must_reset = FALSE /\ OnlyOpen(state) /\ stack = <<>>
      BY <1>0, <2>2, <3>1, CalledFromFacts DEF TypeOK
    <3>3. f \in Good /\ f.in = "stop_exit" /\ state \in State
      BY <1>0, <1>g, ConfigFacts DEF Handler, TypeOK
    <3> HIDE DEF f
    <3>4. Nested' /\ stack' # <<>> /\ Head(stack') = f
      BY <1>0, <1>5, <3>1, <3>2, <3>3, PushNests
    <3>5. open' = NoneOpen
      BY <3>1, <3>2, <3>3, CallOpens, KindFacts
    <3>6. Running'
      BY <3>1, <3>2 DEF Running
    <3> QED
      BY <1>0, <3>3, <3>4, <3>5, <3>6, KindFacts
      DEF IInv, EntriesMatchExits, HandlersInTurn, NoneOpen
  <2> QED
    BY <2>1, <2>2
<1>6. CASE UNCHANGED vars
  <2>1. UNCHANGED <<client, config, state, started, stack, must_reset, open>>
    BY <1>6 DEF vars, fsm
  <2>2. Nested' /\ Running' /\ EntriesMatchExits' /\ HandlersInTurn'
    BY <2>1 DEF IInv, Nested, Good, Live, Running, EntriesMatchExits, HandlersInTurn,
                OnlyOpen, NoneOpen
  <2> QED
    BY <1>0, <2>2 DEF IInv
<1>7. CASE Called
  BY <1>7, <1>1, <1>2, <1>3, <1>4, <1>5 DEF Called
<1>8. CASE Resume
  BY <1>0, <1>8, ResumeKeepsIInv
<1> QED
  BY <1>6, <1>7, <1>8 DEF Next

(* It holds in every reachable state. *)
LEMMA FsmInductive ==
  ASSUME SafeClient
  PROVE  Spec => []IInv
<1>1. Init => IInv
  <2> SUFFICES ASSUME Init PROVE IInv
    OBVIOUS
  <2>1. stack = <<>> /\ started = FALSE /\ open = NoneOpen
    BY DEF Init
  <2>2. Nested /\ Running /\ EntriesMatchExits /\ HandlersInTurn
    BY <2>1 DEF Nested, Running, EntriesMatchExits, HandlersInTurn
  <2> QED
    BY <2>2, InitHasType DEF IInv
<1> QED
  BY <1>1, NextKeepsIInv, PTL DEF Spec

(***************************************************************************)
(* For every such client of simple_fsm.c, whose entry and event handlers   *)
(* may call start and on_event, a machine at rest has entered exactly its  *)
(* current state, or none if it is stopped.                                *)
(***************************************************************************)
THEOREM FsmEntriesMatchExits ==
  ASSUME SafeClient
  PROVE  Spec => []EntriesMatchExits
<1>1. IInv => EntriesMatchExits
  BY DEF IInv
<1> QED
  BY <1>1, FsmInductive, PTL

(***************************************************************************)
(* For those clients every handler simple_fsm.c calls runs in turn, at any *)
(* depth of on_event calls from entry and event handlers.                  *)
(***************************************************************************)
THEOREM FsmHandlersInTurn ==
  ASSUME SafeClient
  PROVE  Spec => []HandlersInTurn
<1>1. IInv => HandlersInTurn
  BY DEF IInv
<1> QED
  BY <1>1, FsmInductive, PTL

-----------------------------------------------------------------------------
(* A handler is called only by a machine that runs. *)
LEMMA CallsWhileStarted ==
  ASSUME IInv, [Next]_vars
  PROVE  [stack' # stack /\ Len(stack') >= Len(stack) => started']_vars
<1>1. CASE Resume
  <2>1. PICK v \in Returned : HandlerReturns(v)
    BY <1>1 DEF Resume
  <2>2. /\ stack # <<>> /\ started = TRUE
        /\ Len(stack) \in Nat /\ Len(Tail(stack)) = Len(stack) - 1
        /\ Head(stack).in \in Handler
    <3>1. stack # <<>>
      BY <2>1 DEF HandlerReturns
    <3>2. Head(stack) \in Good /\ Len(stack) \in Nat /\ Len(Tail(stack)) = Len(stack) - 1
      BY <3>1, Popped DEF IInv, Nested
    <3> QED
      BY <3>1, <3>2 DEF IInv, Running, Good, Live, Frame
  <2>3. started' = started \/ stack' = Tail(stack)
    <3>1. ASSUME NEW t, Loop(Head(stack), v, t) PROVE started' = started \/ stack' = Tail(stack)
      BY <3>1 DEF Loop, Return
    <3>2. ASSUME AfterExit(Head(stack), v) PROVE started' = started \/ stack' = Tail(stack)
      BY <3>2 DEF AfterExit, Return
    <3>3. Head(stack).in = "stop_exit" => stack' = Tail(stack)
      BY <2>1 DEF HandlerReturns, Return
    <3> QED
      BY <2>1, <2>2, <3>1, <3>2, <3>3 DEF HandlerReturns, Handler
  <2>4. CASE started' = started
    BY <2>2, <2>4
  <2>5. CASE stack' = Tail(stack)
    <3>1. ~(Len(stack') >= Len(stack))
      BY <2>2, <2>5
    <3> QED
      BY <3>1
  <2> QED
    BY <2>3, <2>4, <2>5
<1>2. CASE Called
  <2>1. ASSUME simple_fsm_start PROVE stack' = stack \/ started' = TRUE
    BY <2>1 DEF simple_fsm_start, Refused
  <2>2. ASSUME simple_fsm_on_event PROVE stack' = stack \/ started' = TRUE
    <3>1. started = TRUE \/ started = FALSE
      BY DEF IInv, IType, TypeOK
    <3> QED
      BY <2>2, <3>1 DEF simple_fsm_on_event, Refused
  <2>3. ASSUME simple_fsm_force_stop PROVE stack' = stack \/ started' = TRUE
    <3>1. started = TRUE \/ started = FALSE
      BY DEF IInv, IType, TypeOK
    <3> QED
      BY <2>3, <3>1 DEF simple_fsm_force_stop, Refused
  <2>4. ASSUME NEW c \in Config, simple_fsm_init(c) PROVE stack' = stack
    BY <2>4 DEF simple_fsm_init, Refused
  <2>5. ASSUME simple_fsm_deinit PROVE stack' = stack
    BY <2>5 DEF simple_fsm_deinit
  <2>6. stack' = stack \/ started' = TRUE
    BY <1>2, <2>1, <2>2, <2>3, <2>4, <2>5 DEF Called
  <2> QED
    BY <2>6
<1>3. CASE UNCHANGED vars
  BY <1>3
<1> QED
  BY <1>1, <1>2, <1>3 DEF Next

(***************************************************************************)
(* For those clients simple_fsm.c calls no handler of a machine that has   *)
(* been stopped.                                                           *)
(***************************************************************************)
THEOREM FsmQuietWhenStopped ==
  ASSUME SafeClient
  PROVE  Spec => QuietWhenStopped
  BY FsmInductive, CallsWhileStarted, PTL DEF Spec, QuietWhenStopped

-----------------------------------------------------------------------------
(***************************************************************************)
(* The event publisher.                                                    *)
(***************************************************************************)
(* The lists passed to static_event_publisher_init. *)
LEMMA ListFacts ==
  ASSUME NEW list \in List
  PROVE  /\ list \in Seq(Subscriber) /\ Len(list) \in Nat
         /\ \A i \in 1 .. Len(list) : list[i] \in Subscriber
         /\ \A i, j \in 1 .. Len(list) : list[i] = list[j] => i = j
         /\ Len(list) <= Publisher!Cardinality(Subscriber)
         /\ Publisher!Cardinality(Subscriber) \in Nat
         /\ list # <<>> <=> Len(list) # 0
<1>1. /\ list \in Seq(Subscriber) /\ Publisher!IsInjective(list)
      /\ Publisher!IsFiniteSet(Subscriber)
  BY DispatchersAssumption DEF Publisher!PublisherConstants
<1>2. Len(list) \in Nat /\ DOMAIN list = 1 .. Len(list) /\ list \in [1 .. Len(list) -> Subscriber]
  BY <1>1, LenProperties
<1>3. \A i, j \in 1 .. Len(list) : list[i] = list[j] => i = j
  BY <1>1, <1>2 DEF Publisher!IsInjective
<1>4. IsFiniteSet(Subscriber)
  BY <1>1 DEF Publisher!IsFiniteSet, IsFiniteSet
<1>5. Cardinality(Subscriber) = Publisher!Cardinality(Subscriber)
  BY DEF Publisher!Cardinality, Cardinality
<1>6. list \in Injection(1 .. Len(list), Subscriber)
  BY <1>2, <1>3 DEF Injection, IsInjective
<1>7. Cardinality(1 .. Len(list)) <= Cardinality(Subscriber)
  BY <1>4, <1>6, FS_Injection
<1>8. Cardinality(1 .. Len(list)) = Len(list)
  <2>1. 1 \in Int /\ Len(list) \in Int
    BY <1>2
  <2>2. Cardinality(1 .. Len(list)) = IF 1 > Len(list) THEN 0 ELSE Len(list) - 1 + 1
    BY <2>1, FS_Interval
  <2> QED
    BY <1>2, <2>2
<1>9. Cardinality(Subscriber) \in Nat
  BY <1>4, FS_CardinalityType
<1>10. list # <<>> <=> Len(list) # 0
  BY <1>1, EmptySeq
<1> QED
  BY <1>1, <1>2, <1>3, <1>5, <1>7, <1>8, <1>9, <1>10

(* The loop of notify_subscribers, entered with idx and what is below it   *)
(* on the stack, keeps the types of the stack and of what was heard.       *)
LEMMA LoopTypes ==
  ASSUME subscribers \in List, seen \in [Subscriber -> Seq(Publisher!Event)],
         NEW e \in Publisher!Event, NEW idx \in Nat \ {0},
         NEW rest \in Seq(Publisher!Frame), Publisher!Loop(e, idx, rest)
  PROVE  pub_stack' \in Seq(Publisher!Frame) /\ seen' \in [Subscriber -> Seq(Publisher!Event)]
<1>0. /\ Len(subscribers) \in Nat
      /\ \A i \in 1 .. Len(subscribers) : subscribers[i] \in Subscriber
      /\ Len(subscribers) <= Publisher!Cardinality(Subscriber)
      /\ Publisher!Cardinality(Subscriber) \in Nat
  BY ListFacts
<1>1. CASE idx <= Len(subscribers)
  <2>1. /\ pub_stack' = <<[event |-> e, idx |-> idx]>> \o rest
        /\ seen' = [seen EXCEPT ![subscribers[idx]] = Append(@, e)]
    BY <1>1 DEF Publisher!Loop
  <2>2. [event |-> e, idx |-> idx] \in Publisher!Frame /\ subscribers[idx] \in Subscriber
    BY <1>0, <1>1 DEF Publisher!Frame
  <2>3. pub_stack' \in Seq(Publisher!Frame)
    BY <2>1, <2>2, Pushed
  <2>4. Append(seen[subscribers[idx]], e) \in Seq(Publisher!Event)
    BY <2>2, AppendProperties
  <2> QED
    BY <2>1, <2>2, <2>3, <2>4
<1>2. CASE ~(idx <= Len(subscribers))
  BY <1>2 DEF Publisher!Loop
<1> QED
  BY <1>1, <1>2

(* What Disturb leaves. *)
LEMMA Disturbed ==
  ASSUME NEW E, log \in Seq([audience : List, during : E, disturbed : BOOLEAN]),
         Publisher!Disturb
  PROVE  /\ log' \in Seq([audience : List, during : E, disturbed : BOOLEAN])
         /\ Len(log') = Len(log)
         /\ \A e \in 1 .. Len(log) :
              /\ log'[e].audience = log[e].audience /\ log'[e].during = log[e].during
              /\ log'[e].disturbed = FALSE =>
                   log[e].disturbed = FALSE /\ e \notin Publisher!InProgress
<1> DEFINE Rec == [audience : List, during : E, disturbed : BOOLEAN]
<1>1. DOMAIN log = 1 .. Len(log) /\ Len(log) \in Nat /\ \A e \in 1 .. Len(log) : log[e] \in Rec
  BY LenProperties, ElementOfSeq
<1> DEFINE New(e) == [log[e] EXCEPT !.disturbed = log[e].disturbed \/ e \in Publisher!InProgress]
<1>2. log' = [e \in 1 .. Len(log) |-> New(e)]
  BY <1>1 DEF Publisher!Disturb
<1>3. ASSUME NEW e \in 1 .. Len(log)
      PROVE  /\ New(e) \in Rec /\ New(e).audience = log[e].audience
             /\ New(e).during = log[e].during
             /\ New(e).disturbed = FALSE =>
                  log[e].disturbed = FALSE /\ e \notin Publisher!InProgress
  <2>1. log[e] \in Rec
    BY <1>1
  <2>2. (log[e].disturbed \/ e \in Publisher!InProgress) \in BOOLEAN
    OBVIOUS
  <2>3. New(e).disturbed = (log[e].disturbed \/ e \in Publisher!InProgress)
    BY <2>1
  <2>4. New(e) \in Rec /\ New(e).audience = log[e].audience /\ New(e).during = log[e].during
    BY <2>1, <2>2
  <2>5. log[e].disturbed \in BOOLEAN
    BY <2>1
  <2> QED
    BY <2>3, <2>4, <2>5
<1> HIDE DEF New, Rec
<1>4. log' \in [1 .. Len(log) -> Rec]
  BY <1>2, <1>3
<1>5. log' \in Seq(Rec) /\ Len(log') = Len(log)
  BY <1>1, <1>4, SeqDef, LenProperties
<1> QED
  BY <1>2, <1>3, <1>5 DEF Rec

(***************************************************************************)
(* static_event_publisher.c keeps its types, whatever its callbacks call:  *)
(* a running loop never has an index past the longest list there can be.   *)
(***************************************************************************)
THEOREM PublisherTypeCorrect == DispatchersSpec => []PublisherTypeOK
<1>1. DispatchersInit => Publisher!TypeOK
  <2> SUFFICES ASSUME Publisher!Init PROVE Publisher!TypeOK
    BY DEF DispatchersInit
  <2>1. <<>> \in List
    BY DispatchersAssumption DEF Publisher!PublisherConstants
  <2>2. \A S : <<>> \in Seq(S)
    BY EmptySeq
  <2>3. pub_ret \in Publisher!ErrorCode
    BY DEF Publisher!Init, Publisher!ErrorCode
  <2> QED
    BY <2>1, <2>2, <2>3 DEF Publisher!Init, Publisher!TypeOK
<1>2. Publisher!TypeOK /\ [DispatchersNext]_all => Publisher!TypeOK'
  <2> SUFFICES ASSUME Publisher!TypeOK, [DispatchersNext]_all PROVE Publisher!TypeOK'
    OBVIOUS
  <2> DEFINE Rec == [audience : List, during : Seq(Publisher!Frame), disturbed : BOOLEAN]
  <2>0. /\ callbacks \in Callbacks /\ subscribers \in List /\ pub_stack \in Seq(Publisher!Frame)
        /\ seen \in [Subscriber -> Seq(Publisher!Event)] /\ log \in Seq(Rec)
        /\ pub_ret \in Publisher!ErrorCode /\ <<>> \in List
    BY DispatchersAssumption DEF Publisher!TypeOK, Publisher!PublisherConstants
  <2>c. {Publisher!ERR_NONE, Publisher!ERR_INVALID_ARG} \subseteq Publisher!ErrorCode
    BY DEF Publisher!ErrorCode
  <2>1. CASE UNCHANGED publisher
    BY <2>1 DEF publisher, Publisher!TypeOK
  <2>2. ASSUME NEW list \in List, Publisher!static_event_publisher_init(list),
               UNCHANGED callbacks
        PROVE  Publisher!TypeOK'
    <3>1. CASE list = <<>>
      BY <2>0, <2>2, <2>c, <3>1
      DEF Publisher!static_event_publisher_init, Publisher!TypeOK
    <3>2. CASE list # <<>>
      <4>1. /\ subscribers' = list /\ pub_ret' = Publisher!ERR_NONE /\ Publisher!Disturb
            /\ UNCHANGED <<pub_stack, seen>>
        BY <2>2, <3>2 DEF Publisher!static_event_publisher_init
      <4>2. log' \in Seq(Rec)
        BY <2>0, <4>1, Disturbed
      <4> QED
        BY <2>0, <2>2, <2>c, <4>1, <4>2 DEF Publisher!TypeOK
    <3> QED
      BY <3>1, <3>2
  <2>3. ASSUME Publisher!static_event_publisher_deinit, UNCHANGED callbacks
        PROVE  Publisher!TypeOK'
    <3>1. /\ subscribers' = <<>> /\ Publisher!Disturb
          /\ UNCHANGED <<pub_stack, seen, pub_ret>>
      BY <2>3 DEF Publisher!static_event_publisher_deinit
    <3>2. log' \in Seq(Rec)
      BY <2>0, <3>1, Disturbed
    <3> QED
      BY <2>0, <2>3, <3>1, <3>2 DEF Publisher!TypeOK
  <2>4. ASSUME Publisher!static_event_publisher_notify_subscribers, UNCHANGED callbacks
        PROVE  Publisher!TypeOK'
    <3> DEFINE new == [audience |-> subscribers, during |-> pub_stack, disturbed |-> FALSE]
    <3>1. /\ Len(log) < MaxEvents /\ log' = Append(log, new)
          /\ Publisher!Loop(Len(log'), 1, pub_stack)
          /\ UNCHANGED <<subscribers, pub_ret>>
      BY <2>4 DEF Publisher!static_event_publisher_notify_subscribers
    <3>2. new \in Rec
      BY <2>0
    <3> HIDE DEF new, Rec
    <3>3. log' \in Seq(Rec) /\ Len(log') = Len(log) + 1 /\ Len(log) \in Nat
      BY <2>0, <3>1, <3>2, AppendProperties, LenProperties
    <3>4. Len(log') \in Publisher!Event /\ 1 \in Nat \ {0}
      BY <3>1, <3>3, DispatchersAssumption DEF Publisher!PublisherConstants, Publisher!Event
    <3>5. /\ pub_stack' \in Seq(Publisher!Frame)
          /\ seen' \in [Subscriber -> Seq(Publisher!Event)]
      BY <2>0, <3>1, <3>4, LoopTypes
    <3> QED
      BY <2>0, <2>4, <3>1, <3>3, <3>5 DEF Publisher!TypeOK, Rec
  <2>5. ASSUME Publisher!CallbackReturns PROVE Publisher!TypeOK'
    <3>1. /\ pub_stack # <<>>
          /\ Publisher!Loop(Head(pub_stack).event, Head(pub_stack).idx + 1, Tail(pub_stack))
          /\ UNCHANGED <<callbacks, subscribers, log, pub_ret>>
      BY <2>5 DEF Publisher!CallbackReturns
    <3>2. Tail(pub_stack) \in Seq(Publisher!Frame) /\ Head(pub_stack) \in Publisher!Frame
      BY <2>0, <3>1, Popped
    <3>3. Head(pub_stack).event \in Publisher!Event /\ Head(pub_stack).idx + 1 \in Nat \ {0}
      BY <3>2 DEF Publisher!Frame
    <3>4. /\ pub_stack' \in Seq(Publisher!Frame)
          /\ seen' \in [Subscriber -> Seq(Publisher!Event)]
      BY <2>0, <3>1, <3>2, <3>3, LoopTypes
    <3> QED
      BY <2>0, <3>1, <3>4 DEF Publisher!TypeOK
  <2> QED
    BY <2>1, <2>2, <2>3, <2>4, <2>5
    DEF DispatchersNext, PublisherCalled, PublisherResumes, FsmCalled, FsmResumes,
        Publisher!Called, all
<1> QED
  BY <1>1, <1>2, PTL DEF DispatchersSpec, PublisherTypeOK

-----------------------------------------------------------------------------
(* The frames of notifications, an idx of 0 standing for one that is about *)
(* to look for its first subscriber, and the entries of the log.           *)
Started == [event : Nat, idx : Nat]
Entry   == [audience : List, during : Seq(Started), disturbed : BOOLEAN]

Typed(stk, lg, sn, subs) ==
  /\ stk \in Seq(Started) /\ lg \in Seq(Entry)
  /\ sn \in [Subscriber -> Seq(Nat)] /\ subs \in List

Calm(lg, e) == lg[e].disturbed = FALSE

(* Event e has come to position p of its list. *)
Reached(stk, e, p) == \A k \in 1 .. Len(stk) : stk[k].event = e => p <= stk[k].idx

Heard(sn, s, e)     == \E i \in 1 .. Len(sn[s]) : sn[s][i] = e
Before(sn, s, e, f) == \E i, j \in 1 .. Len(sn[s]) : i < j /\ sn[s][i] = e /\ sn[s][j] = f

(* Event f was notified when e, if in progress, had come to position p. *)
Had(lg, e, f, p) ==
  \A k \in 1 .. Len(lg[f].during) :
    lg[f].during[k].event = e => p <= lg[f].during[k].idx

(* Later events are further up the stack, and those whose list has not     *)
(* been set anew run on the one they began with.                           *)
Frames(stk, lg, subs) ==
  /\ \A k \in 1 .. Len(stk) : stk[k].event \in 1 .. Len(lg)
  /\ \A j, k \in 1 .. Len(stk) : j < k => stk[k].event < stk[j].event
  /\ \A k \in 1 .. Len(stk) :
       Calm(lg, stk[k].event) => /\ lg[stk[k].event].audience = subs
                                 /\ stk[k].idx <= Len(subs)

(* Below a notification are the ones it was nested in, as it found them. *)
Outer(stk, lg) ==
  \A k \in 1 .. Len(stk) :
    /\ Len(lg[stk[k].event].during) = Len(stk) - k
    /\ \A j \in 1 .. Len(stk) - k : lg[stk[k].event].during[j] = stk[k + j]

(* What was notified since a notification began was nested in it. *)
Inner(stk, lg) ==
  \A k \in 1 .. Len(stk), f \in 1 .. Len(lg) :
    stk[k].event < f =>
      \E j \in 1 .. Len(lg[f].during) : /\ lg[f].during[j].event = stk[k].event
                                        /\ lg[f].during[j].idx <= stk[k].idx

Past(lg, sn) ==
  \A s \in Subscriber : \A i \in 1 .. Len(sn[s]) : sn[s][i] \in 1 .. Len(lg)

Once(lg, sn) ==
  \A s \in Subscriber : \A i, j \in 1 .. Len(sn[s]) :
    sn[s][i] = sn[s][j] /\ Calm(lg, sn[s][i]) => i = j

(* An event has been heard by the subscribers it has come to. *)
Hears(stk, lg, sn) ==
  \A e \in 1 .. Len(lg), s \in Subscriber :
    Calm(lg, e) =>
      (Heard(sn, s, e) <=> \E p \in 1 .. Len(lg[e].audience) :
                             lg[e].audience[p] = s /\ Reached(stk, e, p))

InOrder(stk, lg, sn) ==
  \A e, f \in 1 .. Len(lg) :
    e < f /\ Calm(lg, e) /\ Calm(lg, f) /\ lg[e].audience = lg[f].audience =>
      \A p \in 1 .. Len(lg[e].audience) :
        Reached(stk, e, p) /\ Reached(stk, f, p) =>
          (Before(sn, lg[e].audience[p], e, f) <=> Had(lg, e, f, p))

(* What is true of the notifications in progress, the log and what the     *)
(* subscribers heard; inductive, and about any such stack and log so that  *)
(* a call can be taken as the beginning of a notification and a first step *)
(* of its loop.                                                            *)
Delivery(stk, lg, sn, subs) ==
  /\ Typed(stk, lg, sn, subs) /\ Frames(stk, lg, subs)
  /\ Outer(stk, lg) /\ Inner(stk, lg) /\ Past(lg, sn) /\ Once(lg, sn)
  /\ Hears(stk, lg, sn) /\ InOrder(stk, lg, sn)

LEMMA TypedFacts ==
  ASSUME NEW stk, NEW lg, NEW sn, NEW subs, Typed(stk, lg, sn, subs)
  PROVE  /\ Len(stk) \in Nat /\ Len(lg) \in Nat /\ Len(subs) \in Nat
         /\ \A k \in 1 .. Len(stk) : stk[k].event \in Nat /\ stk[k].idx \in Nat
         /\ \A e \in 1 .. Len(lg) :
              /\ lg[e].audience \in List /\ Len(lg[e].during) \in Nat
              /\ lg[e].disturbed \in BOOLEAN
              /\ \A k \in 1 .. Len(lg[e].during) : /\ lg[e].during[k].event \in Nat
                                                   /\ lg[e].during[k].idx \in Nat
         /\ \A s \in Subscriber : /\ Len(sn[s]) \in Nat
                                  /\ \A i \in 1 .. Len(sn[s]) : sn[s][i] \in Nat
<1>1. \A S : \A t \in Seq(S) : Len(t) \in Nat /\ \A i \in 1 .. Len(t) : t[i] \in S
  BY LenProperties, ElementOfSeq
<1>2. Len(subs) \in Nat
  BY ListFacts DEF Typed
<1>3. Len(stk) \in Nat /\ \A k \in 1 .. Len(stk) : stk[k] \in Started
  BY <1>1 DEF Typed
<1>4. Len(lg) \in Nat /\ \A e \in 1 .. Len(lg) : lg[e] \in Entry
  BY <1>1 DEF Typed
<1>5. \A e \in 1 .. Len(lg) : /\ lg[e].audience \in List /\ lg[e].during \in Seq(Started)
                              /\ lg[e].disturbed \in BOOLEAN
  BY <1>4 DEF Entry
<1>6. \A e \in 1 .. Len(lg) : /\ Len(lg[e].during) \in Nat
                              /\ \A k \in 1 .. Len(lg[e].during) : lg[e].during[k] \in Started
  BY <1>1, <1>5
<1>7. \A s \in Subscriber : sn[s] \in Seq(Nat)
  BY DEF Typed
<1>8. \A s \in Subscriber : /\ Len(sn[s]) \in Nat
                            /\ \A i \in 1 .. Len(sn[s]) : sn[s][i] \in Nat
  BY <1>1, <1>7
<1> QED
  BY <1>2, <1>3, <1>4, <1>5, <1>6, <1>8 DEF Started

(* The arithmetic of positions and of indices. *)
LEMMA LeTransitive == \A a, b, c \in Nat : a <= b /\ b <= c => a <= c
  OBVIOUS
LEMMA LeIsLtNext == \A a, b \in Nat : a <= b <=> a < b + 1
  OBVIOUS
LEMMA LeIsLtOrEqual == \A a, b \in Nat : a <= b <=> (a < b \/ a = b)
  OBVIOUS
LEMMA LeBelowNext == \A a, b \in Nat : a <= b => ~(b + 1 <= a)
  OBVIOUS

LEMMA Indices ==
  ASSUME NEW m \in Nat
  PROVE  /\ m + 1 \in 1 .. m + 1
         /\ \A i \in 1 .. m + 1 : i \in 1 .. m \/ i = m + 1
         /\ \A i \in 1 .. m : i \in 1 .. m + 1 /\ i < m + 1
  OBVIOUS

(* A notification begins: nobody has heard its event yet. *)
LEMMA BeginKeeps ==
  ASSUME NEW stk, NEW lg, NEW sn, NEW subs, Delivery(stk, lg, sn, subs)
  PROVE  Delivery(<<[event |-> Len(lg) + 1, idx |-> 0]>> \o stk,
              Append(lg, [audience |-> subs, during |-> stk, disturbed |-> FALSE]), sn, subs)
<1> DEFINE n   == Len(lg)
           fr  == [event |-> n + 1, idx |-> 0]
           new == [audience |-> subs, during |-> stk, disturbed |-> FALSE]
           st2 == <<fr>> \o stk
           lg2 == Append(lg, new)
<1>1. Typed(stk, lg, sn, subs)
  BY DEF Delivery
<1>2. /\ Len(stk) \in Nat /\ n \in Nat /\ Len(subs) \in Nat
      /\ \A k \in 1 .. Len(stk) : stk[k].event \in Nat /\ stk[k].idx \in Nat
      /\ \A s \in Subscriber : /\ Len(sn[s]) \in Nat
                               /\ \A i \in 1 .. Len(sn[s]) : sn[s][i] \in Nat
  BY <1>1, TypedFacts
<1>3. fr \in Started /\ new \in Entry /\ fr.event = n + 1 /\ fr.idx = 0
  BY <1>1, <1>2 DEF Started, Entry, Typed
<1>3a. new.audience = subs /\ new.during = stk /\ new.disturbed = FALSE
  OBVIOUS
<1> HIDE DEF n, fr, new
<1>4. /\ st2 \in Seq(Started) /\ Len(st2) = Len(stk) + 1 /\ st2[1] = fr
      /\ \A k \in 2 .. Len(stk) + 1 : st2[k] = stk[k - 1]
  BY <1>1, <1>3, Pushed DEF Typed
<1>5. /\ lg2 \in Seq(Entry) /\ Len(lg2) = n + 1 /\ lg2[n + 1] = new
      /\ \A e \in 1 .. n : lg2[e] = lg[e]
  BY <1>1, <1>3, AppendProperties DEF Typed, n
<1> HIDE DEF st2, lg2
<1>6. \A e \in 1 .. n : Calm(lg2, e) <=> Calm(lg, e)
  BY <1>5 DEF Calm
<1>a. Typed(st2, lg2, sn, subs)
  BY <1>1, <1>4, <1>5 DEF Typed
<1>f. /\ \A k \in 1 .. Len(stk) : stk[k].event \in 1 .. n
      /\ \A j, k \in 1 .. Len(stk) : j < k => stk[k].event < stk[j].event
      /\ \A k \in 1 .. Len(stk) :
           Calm(lg, stk[k].event) => /\ lg[stk[k].event].audience = subs
                                     /\ stk[k].idx <= Len(subs)
  BY DEF Delivery, Frames, n
<1>b. Frames(st2, lg2, subs)
  <2>1. ASSUME NEW k \in 1 .. Len(st2)
        PROVE  /\ st2[k].event \in 1 .. n + 1
               /\ Calm(lg2, st2[k].event) => /\ lg2[st2[k].event].audience = subs
                                             /\ st2[k].idx <= Len(subs)
    <3>1. CASE k = 1
      BY <1>2, <1>3, <1>3a, <1>4, <1>5, <3>1
    <3>2. CASE k # 1
      <4>1. k - 1 \in 1 .. Len(stk) /\ st2[k] = stk[k - 1]
        BY <1>2, <1>4, <2>1, <3>2
      <4>2. stk[k - 1].event \in 1 .. n
        BY <1>f, <4>1
      <4> QED
        BY <1>2, <1>f, <1>5, <1>6, <4>1, <4>2
    <3> QED
      BY <3>1, <3>2
  <2>2. ASSUME NEW j \in 1 .. Len(st2), NEW k \in 1 .. Len(st2), j < k
        PROVE  st2[k].event < st2[j].event
    <3>1. k - 1 \in 1 .. Len(stk) /\ st2[k] = stk[k - 1] /\ stk[k - 1].event \in 1 .. n
      BY <1>2, <1>4, <1>f, <2>2
    <3>2. CASE j = 1
      <4>1. st2[j].event = n + 1
        BY <1>3, <1>4, <3>2
      <4>2. n \in Nat /\ st2[k].event \in 1 .. n
        BY <1>2, <3>1
      <4> QED
        BY <4>1, <4>2
    <3>3. CASE j # 1
      <4>1. j - 1 \in 1 .. Len(stk) /\ st2[j] = stk[j - 1] /\ j - 1 < k - 1
        BY <1>2, <1>4, <2>2, <3>3
      <4> QED
        BY <1>f, <3>1, <4>1
    <3> QED
      BY <3>2, <3>3
  <2> QED
    BY <1>5, <2>1, <2>2 DEF Frames
<1>c. Outer(st2, lg2)
  <2> SUFFICES ASSUME NEW k \in 1 .. Len(st2)
               PROVE  /\ Len(lg2[st2[k].event].during) = Len(st2) - k
                      /\ \A j \in 1 .. Len(st2) - k : lg2[st2[k].event].during[j] = st2[k + j]
    BY DEF Outer
  <2>1. CASE k = 1
    <3>1. lg2[st2[k].event].during = stk
      BY <1>3, <1>3a, <1>4, <1>5, <2>1
    <3>2. \A j \in 1 .. Len(st2) - k : st2[k + j] = stk[j]
      BY <1>2, <1>4, <2>1
    <3> QED
      BY <1>2, <1>4, <2>1, <3>1, <3>2
  <2>2. CASE k # 1
    <3>1. k - 1 \in 1 .. Len(stk) /\ st2[k] = stk[k - 1] /\ stk[k - 1].event \in 1 .. n
      BY <1>2, <1>4, <1>f, <2>2
    <3>2. lg2[st2[k].event] = lg[stk[k - 1].event]
      BY <1>5, <3>1
    <3>3. /\ Len(lg[stk[k - 1].event].during) = Len(stk) - (k - 1)
          /\ \A j \in 1 .. Len(stk) - (k - 1) :
               lg[stk[k - 1].event].during[j] = stk[(k - 1) + j]
      BY <3>1 DEF Delivery, Outer
    <3>4. ASSUME NEW j \in 1 .. Len(st2) - k PROVE st2[k + j] = stk[(k - 1) + j]
      <4>1. k + j \in 2 .. Len(stk) + 1 /\ (k + j) - 1 = (k - 1) + j
        BY <1>2, <1>4
      <4> QED
        BY <1>4, <4>1
    <3>5. Len(st2) - k = Len(stk) - (k - 1)
      BY <1>2, <1>4
    <3> QED
      BY <3>2, <3>3, <3>4, <3>5
  <2> QED
    BY <2>1, <2>2
<1>d. Inner(st2, lg2)
  <2> SUFFICES ASSUME NEW k \in 1 .. Len(st2), NEW f \in 1 .. Len(lg2), st2[k].event < f
               PROVE  \E j \in 1 .. Len(lg2[f].during) :
                        /\ lg2[f].during[j].event = st2[k].event
                        /\ lg2[f].during[j].idx <= st2[k].idx
    BY DEF Inner
  <2>1. k - 1 \in 1 .. Len(stk) /\ st2[k] = stk[k - 1]
    BY <1>2, <1>3, <1>4, <1>5
  <2>2. CASE f = n + 1
    <3>1. lg2[f].during = stk
      BY <1>3a, <1>5, <2>2
    <3>2. stk[k - 1].idx \in Nat
      BY <1>2, <2>1
    <3>3. stk[k - 1].idx <= stk[k - 1].idx
      BY <3>2
    <3> QED
      BY <2>1, <3>1, <3>3
  <2>3. CASE f # n + 1
    <3>1. f \in 1 .. n /\ lg2[f] = lg[f]
      BY <1>2, <1>5, <2>3
    <3> QED
      BY <2>1, <3>1 DEF Delivery, Inner, n
  <2> QED
    BY <2>2, <2>3
<1>p. \A s \in Subscriber : \A i \in 1 .. Len(sn[s]) : sn[s][i] \in 1 .. n
  BY DEF Delivery, Past, n
<1>e. Past(lg2, sn)
  BY <1>2, <1>5, <1>p DEF Past
<1>g. Once(lg2, sn)
  BY <1>6, <1>p DEF Delivery, Once
<1>7. ASSUME NEW e \in 1 .. n, NEW p \in Nat PROVE Reached(st2, e, p) <=> Reached(stk, e, p)
  <2>1. \A k \in 1 .. Len(stk) : k + 1 \in 1 .. Len(st2) /\ st2[k + 1] = stk[k]
    BY <1>2, <1>4
  <2>2. \A k \in 1 .. Len(st2) : k # 1 => k - 1 \in 1 .. Len(stk) /\ st2[k] = stk[k - 1]
    BY <1>2, <1>4
  <2>3. st2[1].event # e
    BY <1>2, <1>3, <1>4
  <2>4. Reached(st2, e, p) => Reached(stk, e, p)
    BY <2>1 DEF Reached
  <2>5. Reached(stk, e, p) => Reached(st2, e, p)
    <3> SUFFICES ASSUME Reached(stk, e, p), NEW k \in 1 .. Len(st2), st2[k].event = e
                 PROVE  p <= st2[k].idx
      BY DEF Reached
    <3>1. k - 1 \in 1 .. Len(stk) /\ st2[k] = stk[k - 1]
      BY <2>2, <2>3
    <3> QED
      BY <3>1 DEF Reached
  <2> QED
    BY <2>4, <2>5
<1>8. \A p \in Nat \ {0} : ~Reached(st2, n + 1, p)
  BY <1>2, <1>3, <1>4 DEF Reached
<1>h. Hears(st2, lg2, sn)
  <2> SUFFICES ASSUME NEW e \in 1 .. Len(lg2), NEW s \in Subscriber, Calm(lg2, e)
               PROVE  Heard(sn, s, e) <=> \E p \in 1 .. Len(lg2[e].audience) :
                                            lg2[e].audience[p] = s /\ Reached(st2, e, p)
    BY DEF Hears
  <2>1. CASE e = n + 1
    <3>1. ~Heard(sn, s, e)
      BY <1>2, <1>p, <2>1 DEF Heard
    <3>2. \A p \in 1 .. Len(lg2[e].audience) : ~Reached(st2, e, p)
      BY <1>2, <1>3a, <1>5, <1>8, <2>1
    <3> QED
      BY <3>1, <3>2
  <2>2. CASE e # n + 1
    <3>1. e \in 1 .. n /\ lg2[e] = lg[e] /\ Calm(lg, e)
      BY <1>2, <1>5, <1>6, <2>2
    <3>2. Heard(sn, s, e) <=> \E p \in 1 .. Len(lg[e].audience) :
                                lg[e].audience[p] = s /\ Reached(stk, e, p)
      BY <3>1 DEF Delivery, Hears, n
    <3>3. Len(lg[e].audience) \in Nat
      BY <1>1, <3>1, TypedFacts, ListFacts DEF n
    <3>4. \A p \in 1 .. Len(lg[e].audience) : Reached(st2, e, p) <=> Reached(stk, e, p)
      BY <1>7, <3>1, <3>3
    <3> QED
      BY <3>1, <3>2, <3>4
  <2> QED
    BY <2>1, <2>2
<1>i. InOrder(st2, lg2, sn)
  <2> SUFFICES ASSUME NEW e \in 1 .. Len(lg2), NEW f \in 1 .. Len(lg2), e < f,
                      Calm(lg2, e), Calm(lg2, f), lg2[e].audience = lg2[f].audience,
                      NEW p \in 1 .. Len(lg2[e].audience),
                      Reached(st2, e, p), Reached(st2, f, p)
               PROVE  Before(sn, lg2[e].audience[p], e, f) <=> Had(lg2, e, f, p)
    BY DEF InOrder
  <2>0. e \in 1 .. n /\ f \in 1 .. n + 1
    BY <1>2, <1>5
  <2>1. e \in 1 .. n /\ lg2[e] = lg[e] /\ Calm(lg, e)
    BY <1>5, <1>6, <2>0
  <2>2. Len(lg[e].audience) \in Nat
    BY <1>1, <2>1, TypedFacts, ListFacts DEF n
  <2>3. p \in Nat \ {0}
    BY <2>1, <2>2
  <2>3a. f # n + 1
    BY <1>8, <2>3
  <2>3b. f \in 1 .. n
    BY <1>2, <2>0, <2>3a
  <2>4. f \in 1 .. n /\ lg2[f] = lg[f] /\ Calm(lg, f)
    BY <1>5, <1>6, <2>3b
  <2>5. Reached(stk, e, p) /\ Reached(stk, f, p)
    BY <1>7, <2>1, <2>3, <2>4
  <2>6. Before(sn, lg[e].audience[p], e, f) <=> Had(lg, e, f, p)
    BY <2>1, <2>4, <2>5 DEF Delivery, InOrder, n
  <2> QED
    BY <2>1, <2>4, <2>6 DEF Had
<1> QED
  BY <1>a, <1>b, <1>c, <1>d, <1>e, <1>g, <1>h, <1>i DEF Delivery, st2, lg2, fr, new, n

(* The innermost notification calls the next subscriber. *)
Calls(stk, sn, subs, st2, sn2) ==
  /\ Len(stk) # 0 /\ stk[1].idx + 1 <= Len(subs)
  /\ st2 \in Seq(Started) /\ Len(st2) = Len(stk)
  /\ st2[1].event = stk[1].event /\ st2[1].idx = stk[1].idx + 1
  /\ \A k \in 2 .. Len(stk) : st2[k] = stk[k]
  /\ sn2 = [sn EXCEPT ![subs[stk[1].idx + 1]] = Append(@, stk[1].event)]

LEMMA CallKeeps ==
  ASSUME NEW stk, NEW lg, NEW sn, NEW subs, Delivery(stk, lg, sn, subs),
         NEW st2, NEW sn2, Calls(stk, sn, subs, st2, sn2),
         NEW e0, e0 = stk[1].event, NEW q, q = stk[1].idx + 1, NEW s0, s0 = subs[q]
  PROVE  Delivery(st2, lg, sn2, subs)
<1>0. /\ Len(stk) # 0 /\ stk[1].idx + 1 <= Len(subs)
      /\ st2 \in Seq(Started) /\ Len(st2) = Len(stk)
      /\ st2[1].event = stk[1].event /\ st2[1].idx = stk[1].idx + 1
      /\ \A k \in 2 .. Len(stk) : st2[k] = stk[k]
  BY DEF Calls
<1>1. Typed(stk, lg, sn, subs)
  BY DEF Delivery
<1>2. /\ Len(stk) \in Nat \ {0} /\ Len(lg) \in Nat /\ Len(subs) \in Nat
      /\ \A k \in 1 .. Len(stk) : stk[k].event \in Nat /\ stk[k].idx \in Nat
      /\ \A s \in Subscriber : /\ Len(sn[s]) \in Nat
                               /\ \A i \in 1 .. Len(sn[s]) : sn[s][i] \in Nat
  BY <1>0, <1>1, TypedFacts
<1>3. /\ 1 \in 1 .. Len(stk) /\ e0 \in Nat /\ stk[1].idx \in Nat /\ q \in 1 .. Len(subs)
      /\ q \in Nat /\ q = stk[1].idx + 1
  <2>1. 1 \in 1 .. Len(stk)
    BY <1>2
  <2>2. stk[1].event \in Nat /\ stk[1].idx \in Nat
    BY <1>2, <2>1
  <2> QED
    BY <1>0, <1>2, <2>1, <2>2
<1>4. /\ \A i \in 1 .. Len(subs) : subs[i] \in Subscriber
      /\ \A i, j \in 1 .. Len(subs) : subs[i] = subs[j] => i = j
  BY <1>1, ListFacts DEF Typed
<1>5. s0 \in Subscriber
  BY <1>3, <1>4
<1>6. sn[s0] \in Seq(Nat) /\ Len(sn[s0]) \in Nat
  BY <1>1, <1>2, <1>5 DEF Typed
<1>7. /\ sn2[s0] = Append(sn[s0], e0)
      /\ \A s \in Subscriber : s # s0 => sn2[s] = sn[s]
  BY <1>1, <1>5 DEF Typed, Calls
<1>8. /\ Len(sn2[s0]) = Len(sn[s0]) + 1 /\ sn2[s0][Len(sn[s0]) + 1] = e0
      /\ \A i \in 1 .. Len(sn[s0]) : sn2[s0][i] = sn[s0][i]
  <2>1. \A t \in Seq(Nat), x \in Nat :
          /\ Len(Append(t, x)) = Len(t) + 1 /\ Append(t, x)[Len(t) + 1] = x
          /\ \A i \in 1 .. Len(t) : Append(t, x)[i] = t[i]
    BY AppendProperties
  <2>2. /\ Len(Append(sn[s0], e0)) = Len(sn[s0]) + 1
        /\ Append(sn[s0], e0)[Len(sn[s0]) + 1] = e0
        /\ \A i \in 1 .. Len(sn[s0]) : Append(sn[s0], e0)[i] = sn[s0][i]
    BY <1>3, <1>6, <2>1, Zenon
  <2> QED
    BY <1>7, <2>2, Zenon
<1>f. /\ \A k \in 1 .. Len(stk) : stk[k].event \in 1 .. Len(lg)
      /\ \A j, k \in 1 .. Len(stk) : j < k => stk[k].event < stk[j].event
      /\ \A k \in 1 .. Len(stk) :
           Calm(lg, stk[k].event) => /\ lg[stk[k].event].audience = subs
                                     /\ stk[k].idx <= Len(subs)
  BY DEF Delivery, Frames
<1>9. /\ e0 \in 1 .. Len(lg)
      /\ Calm(lg, e0) => lg[e0].audience = subs
      /\ \A k \in 2 .. Len(stk) : stk[k].event < e0 /\ stk[k].event # e0
  <2>1. \A k \in 2 .. Len(stk) : k \in 1 .. Len(stk) /\ 1 < k
    BY <1>2
  <2>2. \A k \in 2 .. Len(stk) : stk[k].event < e0 /\ stk[k].event \in Nat
    BY <1>2, <1>3, <1>f, <2>1
  <2> QED
    BY <1>3, <1>f, <2>2
<1>10. \A k \in 1 .. Len(stk) :
         /\ st2[k].event = stk[k].event /\ stk[k].idx <= st2[k].idx
         /\ st2[k].event # e0 => st2[k] = stk[k]
  <2> SUFFICES ASSUME NEW k \in 1 .. Len(stk)
               PROVE  /\ st2[k].event = stk[k].event /\ stk[k].idx <= st2[k].idx
                      /\ st2[k].event # e0 => st2[k] = stk[k]
    OBVIOUS
  <2>1. CASE k = 1
    BY <1>0, <1>3, <2>1
  <2>2. CASE k # 1
    <3>1. k \in 2 .. Len(stk) /\ stk[k].idx \in Nat
      BY <1>2, <2>2
    <3>2. st2[k] = stk[k]
      BY <1>0, <3>1
    <3>3. stk[k].idx <= stk[k].idx
      BY <3>1
    <3> QED
      BY <3>2, <3>3
  <2> QED
    BY <2>1, <2>2
<1>11. ASSUME NEW p \in Nat
       PROVE  /\ Reached(stk, e0, p) <=> p < q
              /\ Reached(st2, e0, p) <=> p <= q
              /\ \A e \in Nat : e # e0 => (Reached(st2, e, p) <=> Reached(stk, e, p))
  <2>1. \A k \in 1 .. Len(stk) : stk[k].event = e0 => k = 1
    <3>1. \A k \in 1 .. Len(stk) : k # 1 => k \in 2 .. Len(stk)
      BY <1>2
    <3> QED
      BY <1>9, <3>1
  <2>2. Reached(stk, e0, p) <=> p <= stk[1].idx
    BY <1>3, <2>1 DEF Reached
  <2>3. \A k \in 1 .. Len(st2) : st2[k].event = e0 => k = 1
    BY <1>0, <1>10, <2>1
  <2>4. Reached(st2, e0, p) <=> p <= st2[1].idx
    BY <1>0, <1>3, <2>3 DEF Reached
  <2>5. ASSUME NEW e \in Nat, e # e0 PROVE Reached(st2, e, p) <=> Reached(stk, e, p)
    <3>1. \A k \in 1 .. Len(stk) : st2[k].event = e \/ stk[k].event = e => st2[k] = stk[k]
      BY <1>10, <2>5
    <3>2. \A k \in 1 .. Len(stk) : st2[k].event = stk[k].event
      BY <1>10
    <3> QED
      BY <1>0, <3>1, <3>2 DEF Reached
  <2>6. p <= stk[1].idx <=> p < q
    <3>1. p <= stk[1].idx <=> p < stk[1].idx + 1
      BY <1>3, <1>11, LeIsLtNext, Zenon
    <3> QED
      BY <1>3, <3>1, Zenon
  <2>7. st2[1].idx = q
    BY <1>0
  <2> QED
    BY <2>2, <2>4, <2>5, <2>6, <2>7
<1>a. Typed(st2, lg, sn2, subs)
  <2>1. Append(sn[s0], e0) \in Seq(Nat)
    BY <1>3, <1>6, AppendProperties
  <2>2. sn2 \in [Subscriber -> Seq(Nat)]
    BY <1>1, <1>3, <1>5, <2>1 DEF Typed, Calls
  <2> QED
    BY <1>0, <1>1, <2>2 DEF Typed
<1>b. Frames(st2, lg, subs)
  <2>1. ASSUME NEW k \in 1 .. Len(stk), Calm(lg, stk[k].event)
        PROVE  st2[k].idx <= Len(subs)
    <3>1. CASE k = 1
      BY <1>0, <1>2, <3>1
    <3>2. CASE k # 1
      <4>1. k \in 2 .. Len(stk)
        BY <1>2, <3>2
      <4> QED
        BY <1>0, <1>f, <2>1, <4>1
    <3> QED
      BY <3>1, <3>2
  <2> QED
    BY <1>0, <1>f, <1>10, <2>1 DEF Frames
<1>c. Outer(st2, lg)
  <2> SUFFICES ASSUME NEW k \in 1 .. Len(stk)
               PROVE  /\ Len(lg[st2[k].event].during) = Len(st2) - k
                      /\ \A j \in 1 .. Len(st2) - k : lg[st2[k].event].during[j] = st2[k + j]
    BY <1>0 DEF Outer
  <2>1. /\ Len(lg[stk[k].event].during) = Len(stk) - k
        /\ \A j \in 1 .. Len(stk) - k : lg[stk[k].event].during[j] = stk[k + j]
    BY DEF Delivery, Outer
  <2>2. \A j \in 1 .. Len(stk) - k : k + j \in 2 .. Len(stk)
    BY <1>2
  <2>3. \A j \in 1 .. Len(stk) - k : st2[k + j] = stk[k + j]
    BY <1>0, <2>2
  <2> QED
    BY <1>0, <1>10, <2>1, <2>3
<1>d. Inner(st2, lg)
  <2> SUFFICES ASSUME NEW k \in 1 .. Len(stk), NEW f \in 1 .. Len(lg), st2[k].event < f
               PROVE  \E j \in 1 .. Len(lg[f].during) :
                        /\ lg[f].during[j].event = st2[k].event
                        /\ lg[f].during[j].idx <= st2[k].idx
    BY <1>0 DEF Inner
  <2>1. stk[k].event < f
    BY <1>10
  <2>2. PICK j \in 1 .. Len(lg[f].during) : /\ lg[f].during[j].event = stk[k].event
                                            /\ lg[f].during[j].idx <= stk[k].idx
    BY <2>1 DEF Delivery, Inner
  <2>3. lg[f].during[j].idx \in Nat
    BY <1>1, TypedFacts
  <2>4. stk[k].idx \in Nat /\ stk[k].idx <= st2[k].idx
    BY <1>2, <1>10
  <2>5. st2[k].idx \in Nat
    BY <1>0, <1>a, TypedFacts
  <2>6. lg[f].during[j].idx <= st2[k].idx
    BY <2>2, <2>3, <2>4, <2>5, LeTransitive, Zenon
  <2> QED
    BY <1>10, <2>2, <2>6
<1>p. \A s \in Subscriber : \A i \in 1 .. Len(sn[s]) : sn[s][i] \in 1 .. Len(lg)
  BY DEF Delivery, Past
(* Where the events of sn2 come from. *)
<1>12. ASSUME NEW s \in Subscriber, NEW i \in 1 .. Len(sn2[s])
       PROVE  \/ i \in 1 .. Len(sn[s]) /\ sn2[s][i] = sn[s][i]
              \/ s = s0 /\ i = Len(sn[s]) + 1 /\ sn2[s][i] = e0
  <2>1. CASE s = s0
    <3>1. i \in 1 .. Len(sn[s0]) \/ i = Len(sn[s0]) + 1
      BY <1>6, <1>8, <1>12, <2>1, Indices, Zenon
    <3> QED
      BY <1>8, <2>1, <3>1, Zenon
  <2>2. CASE s # s0
    BY <1>7, <2>2
  <2> QED
    BY <2>1, <2>2
<1>13. \A s \in Subscriber : \A i \in 1 .. Len(sn[s]) :
         i \in 1 .. Len(sn2[s]) /\ sn2[s][i] = sn[s][i]
  <2> SUFFICES ASSUME NEW s \in Subscriber, NEW i \in 1 .. Len(sn[s])
               PROVE  i \in 1 .. Len(sn2[s]) /\ sn2[s][i] = sn[s][i]
    OBVIOUS
  <2>1. CASE s = s0
    BY <1>6, <1>8, <2>1
  <2>2. CASE s # s0
    BY <1>7, <2>2
  <2> QED
    BY <2>1, <2>2
<1>e. Past(lg, sn2)
  <2> SUFFICES ASSUME NEW s \in Subscriber, NEW i \in 1 .. Len(sn2[s])
               PROVE  sn2[s][i] \in 1 .. Len(lg)
    BY DEF Past
  <2>1. \/ i \in 1 .. Len(sn[s]) /\ sn2[s][i] = sn[s][i]
        \/ sn2[s][i] = e0
    BY <1>12
  <2> QED
    BY <1>p, <1>9, <2>1
(* The subscriber has not heard the event yet. *)
<1>14. Calm(lg, e0) => ~Heard(sn, s0, e0)
  <2> SUFFICES ASSUME Calm(lg, e0), Heard(sn, s0, e0) PROVE FALSE
    OBVIOUS
  <2>1. \E p \in 1 .. Len(lg[e0].audience) : lg[e0].audience[p] = s0 /\ Reached(stk, e0, p)
    BY <1>5, <1>9 DEF Delivery, Hears
  <2>2. PICK p \in 1 .. Len(subs) : subs[p] = s0 /\ Reached(stk, e0, p)
    BY <1>9, <2>1
  <2>3. p = q
    BY <1>3, <1>4, <2>2
  <2> QED
    BY <1>3, <1>11, <2>2, <2>3
<1>g. Once(lg, sn2)
  <2> SUFFICES ASSUME NEW s \in Subscriber, NEW i \in 1 .. Len(sn2[s]),
                      NEW j \in 1 .. Len(sn2[s]), sn2[s][i] = sn2[s][j], Calm(lg, sn2[s][i])
               PROVE  i = j
    BY DEF Once
  <2>1. CASE i \in 1 .. Len(sn[s]) /\ j \in 1 .. Len(sn[s])
    <3>1. sn2[s][i] = sn[s][i] /\ sn2[s][j] = sn[s][j]
      BY <1>13, <2>1
    <3> QED
      BY <2>1, <3>1 DEF Delivery, Once
  <2>2. CASE i \in 1 .. Len(sn[s]) /\ j \notin 1 .. Len(sn[s])
    <3>1. s = s0 /\ sn2[s][j] = e0 /\ sn2[s][i] = sn[s][i]
      BY <1>12, <1>13, <2>2
    <3> QED
      BY <1>14, <2>2, <3>1 DEF Heard
  <2>3. CASE i \notin 1 .. Len(sn[s]) /\ j \in 1 .. Len(sn[s])
    <3>1. s = s0 /\ sn2[s][i] = e0 /\ sn2[s][j] = sn[s][j]
      BY <1>12, <1>13, <2>3
    <3> QED
      BY <1>14, <2>3, <3>1 DEF Heard
  <2>4. CASE i \notin 1 .. Len(sn[s]) /\ j \notin 1 .. Len(sn[s])
    BY <1>12, <2>4
  <2> QED
    BY <2>1, <2>2, <2>3, <2>4
<1>15. \A s \in Subscriber, e \in Nat :
         Heard(sn2, s, e) <=> Heard(sn, s, e) \/ (s = s0 /\ e = e0)
  <2> SUFFICES ASSUME NEW s \in Subscriber, NEW e \in Nat
               PROVE  Heard(sn2, s, e) <=> Heard(sn, s, e) \/ (s = s0 /\ e = e0)
    OBVIOUS
  <2>1. Heard(sn2, s, e) => Heard(sn, s, e) \/ (s = s0 /\ e = e0)
    BY <1>12 DEF Heard
  <2>2. Heard(sn, s, e) => Heard(sn2, s, e)
    BY <1>13 DEF Heard
  <2>3. s = s0 /\ e = e0 => Heard(sn2, s, e)
    <3>1. Len(sn[s0]) + 1 \in 1 .. Len(sn2[s0])
      BY <1>6, <1>8
    <3> QED
      BY <1>8, <3>1 DEF Heard
  <2> QED
    BY <2>1, <2>2, <2>3
<1>h. Hears(st2, lg, sn2)
  <2> SUFFICES ASSUME NEW e \in 1 .. Len(lg), NEW s \in Subscriber, Calm(lg, e)
               PROVE  Heard(sn2, s, e) <=> \E p \in 1 .. Len(lg[e].audience) :
                                             lg[e].audience[p] = s /\ Reached(st2, e, p)
    BY DEF Hears
  <2>0. e \in Nat /\ Len(lg[e].audience) \in Nat
    BY <1>1, TypedFacts, ListFacts
  <2>1. Heard(sn, s, e) <=> \E p \in 1 .. Len(lg[e].audience) :
                              lg[e].audience[p] = s /\ Reached(stk, e, p)
    BY DEF Delivery, Hears
  <2>2. CASE e # e0
    <3>1. \A p \in 1 .. Len(lg[e].audience) : Reached(st2, e, p) <=> Reached(stk, e, p)
      BY <1>11, <2>0, <2>2
    <3>2. Heard(sn2, s, e) <=> Heard(sn, s, e)
      BY <1>15, <2>0, <2>2
    <3> QED
      BY <2>1, <3>1, <3>2
  <2>3. CASE e = e0
    <3>1. lg[e].audience = subs
      BY <1>9, <2>3
    <3>2. \A p \in 1 .. Len(subs) : /\ Reached(stk, e, p) <=> p < q
                                    /\ Reached(st2, e, p) <=> p <= q
      BY <1>2, <1>11, <2>3
    <3>3. \A p \in 1 .. Len(subs) : p <= q <=> p < q \/ p = q
      <4>1. \A p \in 1 .. Len(subs) : p \in Nat
        BY <1>2
      <4> QED
        BY <1>3, <4>1, LeIsLtOrEqual, Zenon
    <3>4. Heard(sn2, s, e) <=> Heard(sn, s, e) \/ s = s0
      BY <1>15, <2>0, <2>3
    <3>5. s = s0 <=> \E p \in 1 .. Len(subs) : subs[p] = s /\ p = q
      BY <1>3
    <3> QED
      BY <2>1, <3>1, <3>2, <3>3, <3>4, <3>5
  <2> QED
    BY <2>2, <2>3

(* What the call adds to the order: e0, last of all it has heard. *)
<1>16. ASSUME NEW s \in Subscriber, NEW e \in Nat, NEW f \in Nat, s # s0 \/ (e # e0 /\ f # e0)
       PROVE  Before(sn2, s, e, f) <=> Before(sn, s, e, f)
  <2>1. Before(sn, s, e, f) => Before(sn2, s, e, f)
    BY <1>13 DEF Before
  <2>2. ASSUME Before(sn2, s, e, f) PROVE Before(sn, s, e, f)
    <3>1. PICK i, j \in 1 .. Len(sn2[s]) : i < j /\ sn2[s][i] = e /\ sn2[s][j] = f
      BY <2>2 DEF Before
    <3>2. /\ i \in 1 .. Len(sn[s]) /\ sn2[s][i] = sn[s][i]
          /\ j \in 1 .. Len(sn[s]) /\ sn2[s][j] = sn[s][j]
      BY <1>12, <1>16, <3>1
    <3> QED
      BY <3>1, <3>2 DEF Before
  <2> QED
    BY <2>1, <2>2
<1>17. ASSUME NEW e \in Nat, e # e0, Heard(sn, s0, e) PROVE Before(sn2, s0, e, e0)
  <2>1. PICK i \in 1 .. Len(sn[s0]) : sn[s0][i] = e
    BY <1>17 DEF Heard
  <2>2. /\ i \in 1 .. Len(sn2[s0]) /\ sn2[s0][i] = e
        /\ Len(sn[s0]) + 1 \in 1 .. Len(sn2[s0]) /\ i < Len(sn[s0]) + 1
    BY <1>6, <1>8, <2>1, Indices, Zenon
  <2> QED
    BY <1>8, <2>2 DEF Before
<1>18. ASSUME NEW f \in Nat, Calm(lg, e0) PROVE ~Before(sn2, s0, e0, f)
  <2> SUFFICES ASSUME NEW i \in 1 .. Len(sn2[s0]), NEW j \in 1 .. Len(sn2[s0]), i < j,
                      sn2[s0][i] = e0
               PROVE  FALSE
    BY DEF Before
  <2>1. i \in 1 .. Len(sn[s0])
    BY <1>6, <1>8
  <2>2. sn[s0][i] = e0
    BY <1>8, <2>1
  <2> QED
    BY <1>14, <1>18, <2>1, <2>2 DEF Heard
<1>i. InOrder(st2, lg, sn2)
  <2> SUFFICES ASSUME NEW e \in 1 .. Len(lg), NEW f \in 1 .. Len(lg), e < f,
                      Calm(lg, e), Calm(lg, f), lg[e].audience = lg[f].audience,
                      NEW p \in 1 .. Len(lg[e].audience),
                      Reached(st2, e, p), Reached(st2, f, p)
               PROVE  Before(sn2, lg[e].audience[p], e, f) <=> Had(lg, e, f, p)
    BY DEF InOrder
  <2> DEFINE s == lg[e].audience[p]
  <2>1. e \in Nat /\ f \in Nat /\ lg[e].audience \in List
    BY <1>1, TypedFacts
  <2>2. Len(lg[e].audience) \in Nat /\ s \in Subscriber
    BY <2>1, ListFacts
  <2>3. p \in Nat /\ e # f
    BY <2>1, <2>2
  <2>4. Reached(stk, e, p) /\ Reached(stk, f, p) => (Before(sn, s, e, f) <=> Had(lg, e, f, p))
    BY DEF Delivery, InOrder
  <2> HIDE DEF s
  <2>5. CASE e # e0 /\ f # e0
    <3>1. Reached(stk, e, p) /\ Reached(stk, f, p)
      BY <1>11, <2>1, <2>3, <2>5
    <3>2. Before(sn2, s, e, f) <=> Before(sn, s, e, f)
      BY <1>16, <2>1, <2>2, <2>5
    <3> QED
      BY <2>4, <3>1, <3>2 DEF s
  <2>6. CASE e = e0 \/ f = e0
    <3>1. lg[e].audience = subs /\ s = subs[p] /\ p \in 1 .. Len(subs) /\ Calm(lg, e0)
      BY <1>9, <2>6 DEF s
    <3>2. p <= q
      BY <1>11, <2>3, <2>6
    <3>3. CASE p # q
      <4>1. s # s0
        BY <1>3, <1>4, <3>1, <3>3
      <4>2. p < q
        BY <1>3, <2>3, <3>2, <3>3, LeIsLtOrEqual, Zenon
      <4>3. Reached(stk, e, p) /\ Reached(stk, f, p)
        BY <1>11, <2>1, <2>3, <4>2
      <4>4. Before(sn2, s, e, f) <=> Before(sn, s, e, f)
        BY <1>16, <2>1, <2>2, <4>1
      <4> QED
        BY <2>4, <4>3, <4>4 DEF s
    <3>4. CASE p = q /\ f = e0
      <4>1. s = s0 /\ e # e0
        BY <2>3, <3>1, <3>4
      <4>2. Reached(stk, e, p)
        BY <1>11, <2>1, <2>3, <4>1
      <4>3. Heard(sn, s0, e)
        BY <1>5, <3>1, <4>1, <4>2 DEF Delivery, Hears
      <4>4. Before(sn2, s0, e, e0)
        BY <1>17, <2>1, <4>1, <4>3
      <4>5. Had(lg, e, f, p)
        <5> SUFFICES ASSUME NEW k \in 1 .. Len(lg[f].during), lg[f].during[k].event = e
                     PROVE  p <= lg[f].during[k].idx
          BY DEF Had
        <5>1. /\ Len(lg[f].during) = Len(stk) - 1
              /\ \A j \in 1 .. Len(stk) - 1 : lg[f].during[j] = stk[1 + j]
          BY <1>3, <3>4 DEF Delivery, Outer
        <5>2. 1 + k \in 1 .. Len(stk) /\ lg[f].during[k] = stk[1 + k]
          <6>1. \A m \in Nat \ {0} : \A i \in 1 .. m - 1 : 1 + i \in 1 .. m
            OBVIOUS
          <6> QED
            BY <1>2, <5>1, <6>1, Zenon
        <5> QED
          BY <4>2, <5>2 DEF Reached
      <4> QED
        BY <3>4, <4>1, <4>4, <4>5 DEF s
    <3>5. CASE p = q /\ e = e0
      <4>1. ~Before(sn2, s, e, f)
        BY <1>18, <2>1, <3>1, <3>5
      <4>2. PICK j \in 1 .. Len(lg[f].during) : /\ lg[f].during[j].event = e
                                                /\ lg[f].during[j].idx <= stk[1].idx
        BY <1>3, <3>5 DEF Delivery, Inner
      <4>3. lg[f].during[j].idx \in Nat
        BY <1>1, TypedFacts
      <4>4. ~(p <= lg[f].during[j].idx)
        BY <1>3, <3>5, <4>2, <4>3, LeBelowNext, Zenon
      <4>5. ~Had(lg, e, f, p)
        BY <4>2, <4>4 DEF Had
      <4> QED
        BY <4>1, <4>5 DEF s
    <3> QED
      BY <2>6, <3>3, <3>4, <3>5
  <2> QED
    BY <2>5, <2>6
<1> QED
  BY <1>a, <1>b, <1>c, <1>d, <1>e, <1>g, <1>h, <1>i DEF Delivery

(* The innermost notification has come to the end of the list. *)
Ends(stk, subs, st2) ==
  /\ Len(stk) # 0 /\ ~(stk[1].idx + 1 <= Len(subs))
  /\ st2 \in Seq(Started) /\ Len(st2) = Len(stk) - 1
  /\ \A k \in 1 .. Len(stk) - 1 : st2[k] = stk[k + 1]

LEMMA EndKeeps ==
  ASSUME NEW stk, NEW lg, NEW sn, NEW subs, Delivery(stk, lg, sn, subs),
         NEW st2, Ends(stk, subs, st2), NEW e0, e0 = stk[1].event
  PROVE  Delivery(st2, lg, sn, subs)
<1>1. Typed(stk, lg, sn, subs)
  BY DEF Delivery
<1>2. /\ Len(stk) \in Nat \ {0} /\ Len(lg) \in Nat /\ Len(subs) \in Nat
      /\ \A k \in 1 .. Len(stk) : stk[k].event \in Nat /\ stk[k].idx \in Nat
      /\ Len(st2) = Len(stk) - 1
  BY <1>1, TypedFacts DEF Ends
<1>3. 1 \in 1 .. Len(stk) /\ e0 \in Nat /\ stk[1].idx \in Nat /\ Len(subs) <= stk[1].idx
  <2>1. 1 \in 1 .. Len(stk)
    BY <1>2
  <2>2. stk[1].event \in Nat /\ stk[1].idx \in Nat
    BY <1>2, <2>1
  <2> QED
    BY <1>2, <2>1, <2>2 DEF Ends
<1>4. \A k \in 1 .. Len(st2) : k + 1 \in 1 .. Len(stk) /\ st2[k] = stk[k + 1]
  BY <1>2 DEF Ends
<1>5. \A k \in 1 .. Len(stk) : k # 1 => k - 1 \in 1 .. Len(st2) /\ st2[k - 1] = stk[k]
  BY <1>2, <1>4
<1>f. /\ \A k \in 1 .. Len(stk) : stk[k].event \in 1 .. Len(lg)
      /\ \A j, k \in 1 .. Len(stk) : j < k => stk[k].event < stk[j].event
      /\ \A k \in 1 .. Len(stk) :
           Calm(lg, stk[k].event) => /\ lg[stk[k].event].audience = subs
                                     /\ stk[k].idx <= Len(subs)
  BY DEF Delivery, Frames
<1>6. \A k \in 1 .. Len(stk) : k # 1 => stk[k].event # e0
  <2>1. \A k \in 1 .. Len(stk) : k # 1 => 1 < k
    BY <1>2
  <2>2. \A k \in 1 .. Len(stk) : k # 1 => stk[k].event < e0 /\ stk[k].event \in Nat
    BY <1>2, <1>3, <1>f, <2>1
  <2> QED
    BY <1>3, <2>2
(* Where a notification has come to is not changed by its end. *)
<1>7. ASSUME NEW e \in 1 .. Len(lg), Calm(lg, e), NEW p \in 1 .. Len(lg[e].audience)
      PROVE  Reached(st2, e, p) <=> Reached(stk, e, p)
  <2>1. CASE e = e0
    <3>1. lg[e].audience = subs
      BY <1>3, <1>f, <1>7, <2>1
    <3>2. p <= stk[1].idx
      BY <1>2, <1>3, <3>1
    <3>3. Reached(stk, e, p)
      BY <1>6, <2>1, <3>2 DEF Reached
    <3>4. Reached(st2, e, p)
      <4>1. \A k \in 1 .. Len(st2) : k + 1 # 1
        BY <1>2
      <4> QED
        BY <1>4, <1>6, <2>1, <4>1 DEF Reached
    <3> QED
      BY <3>3, <3>4
  <2>2. CASE e # e0
    <3>1. Reached(stk, e, p) => Reached(st2, e, p)
      BY <1>4 DEF Reached
    <3>2. Reached(st2, e, p) => Reached(stk, e, p)
      BY <1>5, <2>2 DEF Reached
    <3> QED
      BY <3>1, <3>2
  <2> QED
    BY <2>1, <2>2
<1>a. Typed(st2, lg, sn, subs)
  BY <1>1 DEF Typed, Ends
<1>b. Frames(st2, lg, subs)
  <2>1. \A j, k \in 1 .. Len(st2) : j < k => j + 1 < k + 1
    BY <1>2
  <2> QED
    BY <1>4, <1>f, <2>1 DEF Frames
<1>c. Outer(st2, lg)
  <2> SUFFICES ASSUME NEW k \in 1 .. Len(st2)
               PROVE  /\ Len(lg[st2[k].event].during) = Len(st2) - k
                      /\ \A j \in 1 .. Len(st2) - k : lg[st2[k].event].during[j] = st2[k + j]
    BY DEF Outer
  <2>1. /\ Len(lg[stk[k + 1].event].during) = Len(stk) - (k + 1)
        /\ \A j \in 1 .. Len(stk) - (k + 1) : lg[stk[k + 1].event].during[j] = stk[(k + 1) + j]
    BY <1>4 DEF Delivery, Outer
  <2>2. Len(stk) - (k + 1) = Len(st2) - k
    BY <1>2
  <2>3. ASSUME NEW j \in 1 .. Len(st2) - k PROVE st2[k + j] = stk[(k + 1) + j]
    <3>1. k + j \in 1 .. Len(st2) /\ (k + j) + 1 = (k + 1) + j
      BY <1>2
    <3> QED
      BY <1>4, <3>1
  <2> QED
    BY <1>4, <2>1, <2>2, <2>3
<1>d. Inner(st2, lg)
  <2> SUFFICES ASSUME NEW k \in 1 .. Len(st2), NEW f \in 1 .. Len(lg), st2[k].event < f
               PROVE  \E j \in 1 .. Len(lg[f].during) :
                        /\ lg[f].during[j].event = st2[k].event
                        /\ lg[f].during[j].idx <= st2[k].idx
    BY DEF Inner
  <2>1. k + 1 \in 1 .. Len(stk) /\ st2[k] = stk[k + 1]
    BY <1>4
  <2> QED
    BY <2>1 DEF Delivery, Inner
<1>h. Hears(st2, lg, sn)
  <2> SUFFICES ASSUME NEW e \in 1 .. Len(lg), NEW s \in Subscriber, Calm(lg, e)
               PROVE  Heard(sn, s, e) <=> \E p \in 1 .. Len(lg[e].audience) :
                                            lg[e].audience[p] = s /\ Reached(st2, e, p)
    BY DEF Hears
  <2>1. Heard(sn, s, e) <=> \E p \in 1 .. Len(lg[e].audience) :
                              lg[e].audience[p] = s /\ Reached(stk, e, p)
    BY DEF Delivery, Hears
  <2> QED
    BY <1>7, <2>1
<1>i. InOrder(st2, lg, sn)
  <2> SUFFICES ASSUME NEW e \in 1 .. Len(lg), NEW f \in 1 .. Len(lg), e < f,
                      Calm(lg, e), Calm(lg, f), lg[e].audience = lg[f].audience,
                      NEW p \in 1 .. Len(lg[e].audience),
                      Reached(st2, e, p), Reached(st2, f, p)
               PROVE  Before(sn, lg[e].audience[p], e, f) <=> Had(lg, e, f, p)
    BY DEF InOrder
  <2>1. Reached(stk, e, p) /\ Reached(stk, f, p)
    BY <1>7
  <2> QED
    BY <2>1 DEF Delivery, InOrder
<1> QED
  BY <1>a, <1>b, <1>c, <1>d, <1>h, <1>i DEF Delivery

(* The list is set: what is claimed of the notifications in progress is    *)
(* given up.                                                               *)
LEMMA SetKeeps ==
  ASSUME NEW stk, NEW lg, NEW sn, NEW subs, Delivery(stk, lg, sn, subs),
         NEW su2 \in List, NEW lg2 \in Seq(Entry), Len(lg2) = Len(lg),
         \A e \in 1 .. Len(lg) :
           /\ lg2[e].audience = lg[e].audience /\ lg2[e].during = lg[e].during
           /\ Calm(lg2, e) => Calm(lg, e) /\ \A k \in 1 .. Len(stk) : stk[k].event # e
  PROVE  Delivery(stk, lg2, sn, su2)
<1>1. Typed(stk, lg2, sn, su2)
  BY DEF Delivery, Typed
<1>2. /\ \A k \in 1 .. Len(stk) : stk[k].event \in 1 .. Len(lg)
      /\ \A j, k \in 1 .. Len(stk) : j < k => stk[k].event < stk[j].event
  BY DEF Delivery, Frames
<1>3. \A k \in 1 .. Len(stk) : ~Calm(lg2, stk[k].event)
  BY <1>2
<1>4. Frames(stk, lg2, su2)
  BY <1>2, <1>3 DEF Frames
<1>5. Outer(stk, lg2)
  <2> SUFFICES ASSUME NEW k \in 1 .. Len(stk)
               PROVE  /\ Len(lg2[stk[k].event].during) = Len(stk) - k
                      /\ \A j \in 1 .. Len(stk) - k : lg2[stk[k].event].during[j] = stk[k + j]
    BY DEF Outer
  <2>1. lg2[stk[k].event].during = lg[stk[k].event].during
    BY <1>2
  <2> QED
    BY <2>1 DEF Delivery, Outer
<1>5a. Inner(stk, lg2)
  <2> SUFFICES ASSUME NEW k \in 1 .. Len(stk), NEW f \in 1 .. Len(lg), stk[k].event < f
               PROVE  \E j \in 1 .. Len(lg[f].during) :
                        /\ lg[f].during[j].event = stk[k].event
                        /\ lg[f].during[j].idx <= stk[k].idx
    BY DEF Inner
  <2> QED
    BY DEF Delivery, Inner
<1>6. Past(lg2, sn)
  BY DEF Delivery, Past
<1>7. Once(lg2, sn)
  <2>1. \A s \in Subscriber : \A i \in 1 .. Len(sn[s]) : sn[s][i] \in 1 .. Len(lg)
    BY DEF Delivery, Past
  <2> QED
    BY <2>1 DEF Delivery, Once
<1>8. Hears(stk, lg2, sn)
  BY DEF Delivery, Hears
<1>9. \A e, f \in 1 .. Len(lg), p \in Nat : Had(lg2, e, f, p) <=> Had(lg, e, f, p)
  BY DEF Had
<1>10. InOrder(stk, lg2, sn)
  <2> SUFFICES ASSUME NEW e \in 1 .. Len(lg), NEW f \in 1 .. Len(lg), e < f,
                      Calm(lg2, e), Calm(lg2, f), lg2[e].audience = lg2[f].audience,
                      NEW p \in 1 .. Len(lg2[e].audience),
                      Reached(stk, e, p), Reached(stk, f, p)
               PROVE  Before(sn, lg2[e].audience[p], e, f) <=> Had(lg2, e, f, p)
    BY DEF InOrder
  <2>1. Before(sn, lg[e].audience[p], e, f) <=> Had(lg, e, f, p)
    BY DEF Delivery, InOrder
  <2> QED
    BY <2>1 DEF Had
<1> QED
  BY <1>1, <1>4, <1>5, <1>5a, <1>6, <1>7, <1>8, <1>10 DEF Delivery

(* The loop of notify_subscribers goes on from the frame at the top. *)
LEMMA LoopKeeps ==
  ASSUME NEW stk, NEW lg, Delivery(stk, lg, seen, subscribers), Len(stk) # 0,
         NEW rest \in Seq(Started), Len(rest) = Len(stk) - 1,
         \A k \in 1 .. Len(stk) - 1 : rest[k] = stk[k + 1],
         Publisher!Loop(stk[1].event, stk[1].idx + 1, rest)
  PROVE  Delivery(pub_stack', lg, seen', subscribers)
<1>0. Typed(stk, lg, seen, subscribers)
  BY DEF Delivery
<1>1. /\ Len(stk) \in Nat \ {0} /\ 1 \in 1 .. Len(stk)
      /\ stk[1].event \in Nat /\ stk[1].idx \in Nat
  <2>1. /\ Len(stk) \in Nat \ {0}
        /\ \A k \in 1 .. Len(stk) : stk[k].event \in Nat /\ stk[k].idx \in Nat
    BY <1>0, TypedFacts
  <2>2. 1 \in 1 .. Len(stk)
    BY <2>1
  <2> QED
    BY <2>1, <2>2
<1>2. CASE stk[1].idx + 1 <= Len(subscribers)
  <2> DEFINE fr == [event |-> stk[1].event, idx |-> stk[1].idx + 1]
  <2>1. /\ pub_stack' = <<fr>> \o rest
        /\ seen' = [seen EXCEPT ![subscribers[stk[1].idx + 1]] = Append(@, stk[1].event)]
    BY <1>2 DEF Publisher!Loop
  <2>2. fr \in Started /\ fr.event = stk[1].event /\ fr.idx = stk[1].idx + 1
    BY <1>1 DEF Started
  <2> HIDE DEF fr
  <2>3. /\ pub_stack' \in Seq(Started) /\ Len(pub_stack') = Len(rest) + 1
        /\ pub_stack'[1] = fr
        /\ \A k \in 2 .. Len(rest) + 1 : pub_stack'[k] = rest[k - 1]
    BY <2>1, <2>2, Pushed
  <2>4. \A k \in 2 .. Len(stk) : pub_stack'[k] = stk[k]
    <3> SUFFICES ASSUME NEW k \in 2 .. Len(stk) PROVE pub_stack'[k] = stk[k]
      OBVIOUS
    <3>1. k \in 2 .. Len(rest) + 1 /\ k - 1 \in 1 .. Len(stk) - 1 /\ (k - 1) + 1 = k
      BY <1>1
    <3> QED
      BY <2>3, <3>1
  <2>5. Len(pub_stack') = Len(stk)
    BY <1>1, <2>3
  <2>6. Calls(stk, seen, subscribers, pub_stack', seen')
    BY <1>2, <2>1, <2>2, <2>3, <2>4, <2>5 DEF Calls
  <2> QED
    BY <2>6, CallKeeps
<1>3. CASE ~(stk[1].idx + 1 <= Len(subscribers))
  <2>1. pub_stack' = rest /\ seen' = seen
    BY <1>3 DEF Publisher!Loop
  <2>2. Ends(stk, subscribers, pub_stack')
    BY <1>3, <2>1 DEF Ends
  <2>3. Delivery(pub_stack', lg, seen, subscribers)
    BY <2>2, EndKeeps
  <2> QED
    BY <2>1, <2>3
<1> QED
  BY <1>2, <1>3

DeliveryNow == Delivery(pub_stack, log, seen, subscribers)

LEMMA DeliveryAtFirst == Publisher!Init => DeliveryNow
<1> SUFFICES ASSUME Publisher!Init PROVE DeliveryNow
  OBVIOUS
<1>1. <<>> \in List /\ \A S : <<>> \in Seq(S)
  BY DispatchersAssumption, EmptySeq DEF Publisher!PublisherConstants
<1>2. /\ pub_stack = <<>> /\ log = <<>> /\ subscribers = <<>>
      /\ seen = [s \in Subscriber |-> <<>>]
  BY DEF Publisher!Init
<1>3. seen \in [Subscriber -> Seq(Nat)] /\ \A s \in Subscriber : seen[s] = <<>>
  BY <1>1, <1>2
<1>4. Typed(pub_stack, log, seen, subscribers)
  BY <1>1, <1>2, <1>3 DEF Typed
<1>5. Len(pub_stack) = 0 /\ Len(log) = 0 /\ \A s \in Subscriber : Len(seen[s]) = 0
  BY <1>2, <1>3
<1>6. \A i \in 1 .. 0 : FALSE
  OBVIOUS
<1>7. /\ Frames(pub_stack, log, subscribers) /\ Outer(pub_stack, log) /\ Inner(pub_stack, log)
      /\ Past(log, seen) /\ Once(log, seen)
  BY <1>5, <1>6, Zenon DEF Frames, Outer, Inner, Past, Once
<1>8. Hears(pub_stack, log, seen) /\ InOrder(pub_stack, log, seen)
  BY <1>5, <1>6, Zenon DEF Hears, InOrder
<1> QED
  BY <1>4, <1>7, <1>8 DEF DeliveryNow, Delivery

LEMMA DeliveryAfterSet ==
  ASSUME DeliveryNow, Publisher!Disturb, subscribers' \in List, UNCHANGED <<pub_stack, seen>>
  PROVE  DeliveryNow'
<1>1. log \in Seq(Entry) /\ pub_stack \in Seq(Started)
  BY DEF DeliveryNow, Delivery, Typed
<1>2. /\ log' \in Seq(Entry) /\ Len(log') = Len(log)
      /\ \A e \in 1 .. Len(log) :
           /\ log'[e].audience = log[e].audience /\ log'[e].during = log[e].during
           /\ log'[e].disturbed = FALSE =>
                log[e].disturbed = FALSE /\ e \notin Publisher!InProgress
  BY <1>1, Disturbed DEF Entry
<1>3. DOMAIN pub_stack = 1 .. Len(pub_stack)
  BY <1>1, LenProperties
<1>4. \A e \in 1 .. Len(log) :
        /\ log'[e].audience = log[e].audience /\ log'[e].during = log[e].during
        /\ Calm(log', e) => /\ Calm(log, e)
                            /\ \A k \in 1 .. Len(pub_stack) : pub_stack[k].event # e
  BY <1>2, <1>3 DEF Calm, Publisher!InProgress
<1>5. Delivery(pub_stack, log', seen, subscribers')
  BY <1>2, <1>4, SetKeeps DEF DeliveryNow
<1> QED
  BY <1>5 DEF DeliveryNow

(***************************************************************************)
(* What every state of the publisher has in common.                        *)
(***************************************************************************)
LEMMA DeliveryHolds == DispatchersSpec => []DeliveryNow
<1>1. DispatchersInit => DeliveryNow
  BY DeliveryAtFirst DEF DispatchersInit
<1>2. DeliveryNow /\ [DispatchersNext]_all => DeliveryNow'
  <2> SUFFICES ASSUME DeliveryNow, [DispatchersNext]_all PROVE DeliveryNow'
    OBVIOUS
  <2>0. /\ pub_stack \in Seq(Started) /\ log \in Seq(Entry) /\ subscribers \in List
        /\ <<>> \in List
    BY DispatchersAssumption DEF DeliveryNow, Delivery, Typed, Publisher!PublisherConstants
  <2>1. CASE UNCHANGED publisher
    BY <2>1 DEF publisher, DeliveryNow
  <2>2. ASSUME NEW list \in List, Publisher!static_event_publisher_init(list)
        PROVE  DeliveryNow'
    <3>1. CASE list = <<>>
      BY <2>2, <3>1 DEF Publisher!static_event_publisher_init, DeliveryNow
    <3>2. CASE list # <<>>
      <4>1. subscribers' = list /\ Publisher!Disturb /\ UNCHANGED <<pub_stack, seen>>
        BY <2>2, <3>2 DEF Publisher!static_event_publisher_init
      <4> QED
        BY <4>1, DeliveryAfterSet
    <3> QED
      BY <3>1, <3>2
  <2>3. ASSUME Publisher!static_event_publisher_deinit PROVE DeliveryNow'
    <3>1. subscribers' = <<>> /\ Publisher!Disturb /\ UNCHANGED <<pub_stack, seen>>
      BY <2>3 DEF Publisher!static_event_publisher_deinit
    <3> QED
      BY <2>0, <3>1, DeliveryAfterSet
  <2>4. ASSUME Publisher!static_event_publisher_notify_subscribers PROVE DeliveryNow'
    <3> DEFINE fr  == [event |-> Len(log) + 1, idx |-> 0]
               new == [audience |-> subscribers, during |-> pub_stack, disturbed |-> FALSE]
               stk == <<fr>> \o pub_stack
    <3>1. /\ log' = Append(log, new) /\ Publisher!Loop(Len(log'), 1, pub_stack)
          /\ subscribers' = subscribers
      BY <2>4 DEF Publisher!static_event_publisher_notify_subscribers
    <3>2. new \in Entry /\ Len(log) \in Nat
      BY <2>0, LenProperties DEF Entry
    <3>3. fr \in Started /\ fr.event = Len(log) + 1 /\ fr.idx = 0
      BY <3>2 DEF Started
    <3>4. Delivery(stk, log', seen, subscribers)
      BY <3>1, BeginKeeps DEF DeliveryNow
    <3> HIDE DEF fr, new
    <3>5. Len(log') = Len(log) + 1
      BY <2>0, <3>1, <3>2, AppendProperties
    <3>6. /\ Len(stk) = Len(pub_stack) + 1 /\ stk[1] = fr /\ Len(pub_stack) \in Nat
          /\ \A i \in 2 .. Len(pub_stack) + 1 : stk[i] = pub_stack[i - 1]
      BY <2>0, <3>3, Pushed, LenProperties
    <3> HIDE DEF stk
    <3>7. Len(stk) # 0 /\ Len(pub_stack) = Len(stk) - 1
      BY <3>6
    <3>8. \A k \in 1 .. Len(stk) - 1 : pub_stack[k] = stk[k + 1]
      <4> SUFFICES ASSUME NEW k \in 1 .. Len(stk) - 1 PROVE pub_stack[k] = stk[k + 1]
        OBVIOUS
      <4>1. k + 1 \in 2 .. Len(pub_stack) + 1 /\ (k + 1) - 1 = k
        BY <3>6
      <4> QED
        BY <3>6, <4>1
    <3>9. stk[1].event = Len(log') /\ stk[1].idx + 1 = 1
      BY <3>3, <3>5, <3>6
    <3>10. Publisher!Loop(stk[1].event, stk[1].idx + 1, pub_stack)
      BY <3>1, <3>9
    <3>11. Delivery(pub_stack', log', seen', subscribers)
      BY <2>0, <3>4, <3>7, <3>8, <3>10, LoopKeeps
    <3> QED
      BY <3>1, <3>11 DEF DeliveryNow
  <2>5. ASSUME Publisher!CallbackReturns PROVE DeliveryNow'
    <3>1. /\ pub_stack # <<>>
          /\ Publisher!Loop(Head(pub_stack).event, Head(pub_stack).idx + 1, Tail(pub_stack))
          /\ UNCHANGED <<subscribers, log>>
      BY <2>5 DEF Publisher!CallbackReturns
    <3>2. /\ Tail(pub_stack) \in Seq(Started) /\ Head(pub_stack) = pub_stack[1]
          /\ Len(pub_stack) # 0 /\ Len(Tail(pub_stack)) = Len(pub_stack) - 1
          /\ \A i \in 1 .. Len(pub_stack) - 1 : Tail(pub_stack)[i] = pub_stack[i + 1]
      BY <2>0, <3>1, Popped
    <3>3. Publisher!Loop(pub_stack[1].event, pub_stack[1].idx + 1, Tail(pub_stack))
      BY <3>1, <3>2
    <3>4. Delivery(pub_stack', log, seen', subscribers)
      BY <3>2, <3>3, LoopKeeps DEF DeliveryNow
    <3> QED
      BY <3>1, <3>4 DEF DeliveryNow
  <2> QED
    BY <2>1, <2>2, <2>3, <2>4, <2>5
    DEF DispatchersNext, PublisherCalled, PublisherResumes, FsmCalled, FsmResumes,
        Publisher!Called, all
<1> QED
  BY <1>1, <1>2, PTL DEF DispatchersSpec

(* A notification that has returned has come to every position. *)
LEMMA ReturnedReached ==
  ASSUME DeliveryNow, NEW e \in DOMAIN log \ Publisher!InProgress
  PROVE  /\ e \in 1 .. Len(log) /\ log[e].disturbed \in BOOLEAN /\ log[e].audience \in List
         /\ \A p : Reached(pub_stack, e, p)
<1>1. Typed(pub_stack, log, seen, subscribers)
  BY DEF DeliveryNow, Delivery
<1>2. DOMAIN log = 1 .. Len(log) /\ DOMAIN pub_stack = 1 .. Len(pub_stack)
  BY <1>1, LenProperties DEF Typed
<1>3. e \in 1 .. Len(log) /\ \A k \in 1 .. Len(pub_stack) : pub_stack[k].event # e
  BY <1>2 DEF Publisher!InProgress
<1> QED
  BY <1>1, <1>3, TypedFacts DEF Reached

(***************************************************************************)
(* Once an event's notification has returned, each subscriber that was on  *)
(* the list has had its callback called with it exactly once and nobody    *)
(* else has, for every list, every number of events and every nesting of   *)
(* notifications, unless the list was set anew meanwhile.                  *)
(***************************************************************************)
THEOREM SubscribersHearOnce == DispatchersSpec => []EachHearsOnce
<1>1. DeliveryNow => Publisher!EachHearsOnce
  <2> SUFFICES ASSUME DeliveryNow, NEW e \in DOMAIN log \ Publisher!InProgress, ~log[e].disturbed,
                      NEW s \in Subscriber
               PROVE  Publisher!Cardinality({i \in DOMAIN seen[s] : seen[s][i] = e}) =
                        (IF s \in Publisher!Range(log[e].audience) THEN 1 ELSE 0)
    BY DEF Publisher!EachHearsOnce
  <2> DEFINE S == {i \in DOMAIN seen[s] : seen[s][i] = e}
             a == log[e].audience
  <2>1. /\ e \in 1 .. Len(log) /\ log[e].disturbed \in BOOLEAN /\ a \in List
        /\ \A p : Reached(pub_stack, e, p)
    BY ReturnedReached
  <2>2. Calm(log, e)
    BY <2>1 DEF Calm
  <2>3. seen[s] \in Seq(Nat)
    BY DEF DeliveryNow, Delivery, Typed
  <2>4. DOMAIN seen[s] = 1 .. Len(seen[s])
    BY <2>3, LenProperties
  <2>5. a \in Seq(Subscriber) /\ DOMAIN a = 1 .. Len(a)
    BY <2>1, ListFacts, LenProperties
  <2>6. Heard(seen, s, e) <=> \E p \in 1 .. Len(a) : a[p] = s
    BY <2>1, <2>2 DEF DeliveryNow, Delivery, Hears
  <2>7. s \in Publisher!Range(a) <=> \E p \in 1 .. Len(a) : a[p] = s
    BY <2>5 DEF Publisher!Range
  <2>8. \A i, j \in S : i = j
    BY <2>2, <2>4 DEF DeliveryNow, Delivery, Once
  <2>9. (\E i : i \in S) <=> Heard(seen, s, e)
    BY <2>4 DEF Heard
  <2>10. Publisher!Cardinality(S) = Cardinality(S)
    BY DEF Publisher!Cardinality, Cardinality
  <2> HIDE DEF S, a
  <2>11. CASE s \in Publisher!Range(a)
    <3>1. PICK i : i \in S
      BY <2>6, <2>7, <2>9, <2>11
    <3>2. S = {i}
      BY <2>8, <3>1
    <3>3. Cardinality(S) = 1
      BY <3>2, FS_Singleton
    <3> QED
      BY <2>10, <2>11, <3>3 DEF S, a
  <2>12. CASE s \notin Publisher!Range(a)
    <3>1. S = {}
      BY <2>6, <2>7, <2>9, <2>12
    <3>2. Cardinality(S) = 0
      BY <3>1, FS_EmptySet
    <3> QED
      BY <2>10, <2>12, <3>2 DEF S, a
  <2> QED
    BY <2>11, <2>12
<1> QED
  BY <1>1, DeliveryHolds, PTL DEF EachHearsOnce

(***************************************************************************)
(* A nested event overtakes the one from whose callback it was notified at *)
(* exactly the subscribers further down the list; otherwise every          *)
(* subscriber hears events in the order in which they were notified.       *)
(***************************************************************************)
THEOREM EventsHeardInOrder == DispatchersSpec => []HeardByPosition
<1>1. DeliveryNow => Publisher!HeardByPosition
  <2> SUFFICES ASSUME DeliveryNow, NEW e \in DOMAIN log \ Publisher!InProgress,
                      NEW f \in DOMAIN log \ Publisher!InProgress, e < f,
                      ~log[e].disturbed, ~log[f].disturbed,
                      log[e].audience = log[f].audience,
                      NEW p \in DOMAIN log[e].audience
               PROVE  Publisher!HeardBefore(log[e].audience[p], e, f) <=>
                        \A k \in DOMAIN log[f].during :
                          log[f].during[k].event = e => p <= log[f].during[k].idx
    BY DEF Publisher!HeardByPosition
  <2>1. /\ e \in 1 .. Len(log) /\ log[e].disturbed \in BOOLEAN /\ log[e].audience \in List
        /\ \A x : Reached(pub_stack, e, x)
    BY ReturnedReached
  <2>2. /\ f \in 1 .. Len(log) /\ log[f].disturbed \in BOOLEAN
        /\ \A x : Reached(pub_stack, f, x)
    BY ReturnedReached
  <2>3. Calm(log, e) /\ Calm(log, f)
    BY <2>1, <2>2 DEF Calm
  <2>4. DOMAIN log[e].audience = 1 .. Len(log[e].audience) /\ log[e].audience[p] \in Subscriber
    BY <2>1, ListFacts, LenProperties
  <2>5. Before(seen, log[e].audience[p], e, f) <=> Had(log, e, f, p)
    BY <2>1, <2>2, <2>3, <2>4 DEF DeliveryNow, Delivery, InOrder
  <2>6. seen[log[e].audience[p]] \in Seq(Nat) /\ log \in Seq(Entry)
    BY <2>4 DEF DeliveryNow, Delivery, Typed
  <2>7. DOMAIN seen[log[e].audience[p]] = 1 .. Len(seen[log[e].audience[p]])
    BY <2>6, LenProperties
  <2>8. log[f].during \in Seq(Started)
    <3>1. log[f] \in Entry
      BY <2>2, <2>6, ElementOfSeq
    <3> QED
      BY <3>1 DEF Entry
  <2>9. DOMAIN log[f].during = 1 .. Len(log[f].during)
    BY <2>8, LenProperties
  <2>10. Publisher!HeardBefore(log[e].audience[p], e, f) <=> Before(seen, log[e].audience[p], e, f)
    BY <2>7, Zenon DEF Publisher!HeardBefore, Before
  <2> QED
    BY <2>5, <2>9, <2>10, Zenon DEF Had
<1> QED
  BY <1>1, DeliveryHolds, PTL DEF HeardByPosition

(***************************************************************************)
(* No callback is called once deinit has been, by none of the              *)
(* notifications in progress either, however deep they are nested.         *)
(***************************************************************************)
THEOREM DeinitQuiets == DispatchersSpec => QuietAfterDeinit
<1>1. Publisher!TypeOK /\ [DispatchersNext]_all =>
        [seen' # seen => subscribers # <<>>]_(Publisher!vars)
  <2> SUFFICES ASSUME Publisher!TypeOK, [DispatchersNext]_all, seen' # seen
               PROVE  subscribers # <<>>
    OBVIOUS
  <2>0. /\ pub_stack \in Seq(Publisher!Frame) /\ subscribers \in List
        /\ Len(subscribers) \in Nat /\ (subscribers # <<>> <=> Len(subscribers) # 0)
    BY ListFacts DEF Publisher!TypeOK
  <2>1. ASSUME NEW e, NEW idx \in Nat \ {0}, NEW rest, Publisher!Loop(e, idx, rest)
        PROVE  subscribers # <<>>
    <3>1. idx <= Len(subscribers)
      BY <2>1 DEF Publisher!Loop
    <3> QED
      BY <2>0, <3>1
  <2>2. ASSUME Publisher!static_event_publisher_notify_subscribers
        PROVE  subscribers # <<>>
    <3>1. Publisher!Loop(Len(log'), 1, pub_stack)
      BY <2>2 DEF Publisher!static_event_publisher_notify_subscribers
    <3> QED
      BY <2>1, <3>1
  <2>3. ASSUME Publisher!CallbackReturns PROVE subscribers # <<>>
    <3>1. /\ pub_stack # <<>>
          /\ Publisher!Loop(Head(pub_stack).event, Head(pub_stack).idx + 1, Tail(pub_stack))
      BY <2>3 DEF Publisher!CallbackReturns
    <3>2. Head(pub_stack) \in Publisher!Frame
      BY <2>0, <3>1, Popped
    <3>3. Head(pub_stack).idx + 1 \in Nat \ {0}
      BY <3>2 DEF Publisher!Frame
    <3> QED
      BY <2>1, <3>1, <3>3
  <2> QED
    BY <2>2, <2>3
    DEF DispatchersNext, PublisherCalled, PublisherResumes, FsmCalled, FsmResumes,
        Publisher!Called, Publisher!static_event_publisher_init,
        Publisher!static_event_publisher_deinit, all, publisher
<1>2. DispatchersSpec => []Publisher!TypeOK
  BY PublisherTypeCorrect, PTL DEF PublisherTypeOK
<1> QED
  BY <1>1, <1>2, PTL DEF DispatchersSpec, QuietAfterDeinit, Publisher!QuietAfterDeinit
=============================================================================
