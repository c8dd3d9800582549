----------------------------- MODULE SimpleFSM -----------------------------
(***************************************************************************)
(* src/src/simple_fsm/simple_fsm.c: a state machine runner that calls the  *)
(* client's entry, event and exit handlers and follows the states they     *)
(* return.  A call of the API is a frame on the call stack, suspended in   *)
(* the handler it is running; a handler may return any state, and may call *)
(* the API again before it does (it is given the fsm).                     *)
(***************************************************************************)
EXTENDS Integers, Sequences, ErrorCodes

CONSTANTS
  MaxStates,       \* the largest state_count configured
  MaxLimit,        \* the largest max_transition_count configured
  MaxDepth,        \* how deep API calls nest
  Clients,         \* the kinds of clients considered
  ResetAfter       \* the codes after which the client deinitialises the fsm

ASSUME MaxStatesAssumption == MaxStates \in Nat \ {0}
ASSUME MaxLimitAssumption  == MaxLimit \in Nat \ {0}
ASSUME MaxDepthAssumption  == MaxDepth \in Nat \ {0}
ASSUME ClientAssumption    ==
  /\ Clients \subseteq {"straying", "nesting", "stopping"}
  /\ ResetAfter \subseteq ErrorCode

VARIABLES
  client,       \* what its handlers do besides returning a state:
                \* "straying": they may return one that is out of bounds;
                \* "nesting": those of entry and event call start and on_event;
                \* "stopping": the event handlers call force_stop
  config,       \* state_count, initial_state and max_transition_count
  state, started,
  stack,        \* the calls in progress, innermost first
  ret,          \* what the last call returned
  must_reset,   \* the client has seen a code of ResetAfter
  open          \* per state, its entry calls less its exit calls

fsm  == <<config, state, started>>
vars == <<client, fsm, stack, ret, must_reset, open>>

State  == 0 .. MaxStates - 1
Config == [state_count : 0 .. MaxStates, initial_state : 0 .. MaxStates,
           max_transition_count : 0 .. MaxLimit]

(* The handler a call is in: entry of start itself, the event handler,     *)
(* exit and entry of a transition, or exit of force_stop.                  *)
Handler == {"first_entry", "event", "exit", "entry", "stop_exit"}

Kind(handler) ==
  CASE handler \in {"first_entry", "entry"} -> "entry"
    [] handler \in {"exit", "stop_exit"}    -> "exit"
    [] handler = "event"                    -> "event"

Frame == [op : {"start", "on_event", "force_stop"}, in : Handler,
          next : 0 .. MaxStates, transitions : 0 .. MaxLimit]

(* simple_fsm_validate_config *)
ValidConfig(c) ==
  /\ c.state_count # 0
  /\ c.max_transition_count # 0
  /\ c.initial_state < c.state_count

TypeOK ==
  /\ client \in Clients
  /\ config \in Config /\ ValidConfig(config)
  /\ state \in 0 .. config.state_count - 1
  /\ started \in BOOLEAN
  /\ stack \in Seq(Frame) /\ Len(stack) <= MaxDepth
  /\ ret \in ErrorCode
  /\ must_reset \in BOOLEAN
  /\ open \in [State -> Int]

NoneOpen == [s \in State |-> 0]

Init ==
  /\ client \in Clients
  /\ config \in {c \in Config : ValidConfig(c)}
  /\ state = config.initial_state
  /\ started = FALSE
  /\ stack = <<>>
  /\ ret = ERR_NONE
  /\ must_reset = FALSE
  /\ open = NoneOpen

-----------------------------------------------------------------------------
(* The call on top of the stack returns code to rest. *)
Return(op, code, rest) ==
  /\ stack' = rest
  /\ ret' = code
  /\ must_reset' = (must_reset \/ (rest = <<>> /\ code \in ResetAfter))
  /\ started' = IF op = "force_stop" \/ (op = "start" /\ code # ERR_NONE)
                  THEN FALSE ELSE started

(* It goes on: the handler frame.in of state s is called. *)
Call(s, frame, rest) ==
  /\ stack' = <<frame>> \o rest
  /\ open' = CASE Kind(frame.in) = "entry" -> [open EXCEPT ![s] = @ + 1]
               [] Kind(frame.in) = "exit"  -> [open EXCEPT ![s] = @ - 1]
               [] OTHER                    -> open
  /\ UNCHANGED <<config, ret, must_reset>>

(* Faulty variant: the transitions are not counted. *)
LoopWithoutLimit(frame, next, transitions) ==
  IF next # state
    THEN /\ Call(state, [frame EXCEPT !.in = "exit", !.next = next], Tail(stack))
         /\ UNCHANGED <<state, started>>
    ELSE /\ Return(frame.op, ERR_NONE, Tail(stack))
         /\ UNCHANGED <<config, state, open>>

(* The loop head of simple_fsm_resolve_transitions. *)
Loop(frame, next, transitions) ==
  IF next # state /\ transitions < config.max_transition_count
    THEN /\ Call(state, [frame EXCEPT !.in = "exit", !.next = next,
                                      !.transitions = transitions], Tail(stack))
         /\ UNCHANGED <<state, started>>
    ELSE /\ Return(frame.op,
                   IF transitions >= config.max_transition_count
                     THEN ERR_TIMEOUT ELSE ERR_NONE,
                   Tail(stack))
         /\ UNCHANGED <<config, state, open>>

(* Faulty variant: the bound is checked off by one. *)
AfterExitOffByOne(frame, v) ==
  LET requested == IF v = state THEN frame.next ELSE v
  IN  IF requested > config.state_count
        THEN /\ Return(frame.op, ERR_OUT_OF_BOUNDS, Tail(stack))
             /\ UNCHANGED <<config, state, open>>
        ELSE /\ state' = requested
             /\ Call(requested, [frame EXCEPT !.in = "entry"], Tail(stack))
             /\ UNCHANGED started

(* The body of the loop from the return of the exit handler on. *)
AfterExit(frame, v) ==
  LET requested == IF v = state THEN frame.next ELSE v
  IN  IF requested >= config.state_count
        THEN /\ Return(frame.op, ERR_OUT_OF_BOUNDS, Tail(stack))
             /\ UNCHANGED <<config, state, open>>
        ELSE /\ state' = requested
             /\ Call(requested, [frame EXCEPT !.in = "entry"], Tail(stack))
             /\ UNCHANGED started

(* What a handler may return; state_count stands for every value beyond. *)
Returned == IF client = "straying" THEN 0 .. config.state_count
                                   ELSE 0 .. config.state_count - 1

(* The running handler returns v. *)
HandlerReturns(v) ==
  /\ stack # <<>>
  /\ LET frame == Head(stack)
     IN  CASE frame.in \in {"first_entry", "event"} -> Loop(frame, v, 0)
           [] frame.in = "entry" -> Loop(frame, v, frame.transitions + 1)
           [] frame.in = "exit"  -> AfterExit(frame, v)
           [] frame.in = "stop_exit" ->
                /\ Return(frame.op, IF v = state THEN ERR_NONE
                                                 ELSE ERR_INCOMPLETE, Tail(stack))
                /\ UNCHANGED <<config, state, open>>

-----------------------------------------------------------------------------
(* Who may call: the client when no call is in progress, or a handler. *)
FromClient == stack = <<>> /\ ~must_reset

FromHandler(op) ==
  /\ stack # <<>>
  /\ Len(stack) < MaxDepth
  /\ \/ /\ client = "nesting"
        /\ Kind(Head(stack).in) \in {"entry", "event"}
        /\ op \in {"start", "on_event"}
     \/ /\ client = "stopping"
        /\ Head(stack).in = "event"
        /\ op = "force_stop"

NewFrame(op, handler) ==
  [op |-> op, in |-> handler, next |-> 0, transitions |-> 0]

Refused(code) == ret' = code /\ UNCHANGED <<fsm, stack, must_reset, open>>

simple_fsm_init(c) ==
  /\ stack = <<>> /\ ~started        \* the header excludes a running fsm
  /\ IF ValidConfig(c)
       THEN /\ config' = c
            /\ state' = c.initial_state
            /\ started' = FALSE
            /\ ret' = ERR_NONE
            /\ must_reset' = FALSE
            /\ open' = NoneOpen
            /\ UNCHANGED stack
       ELSE Refused(ERR_INVALID_ARG)

(* The client cleans up what is open itself. *)
simple_fsm_deinit ==
  /\ stack = <<>>
  /\ state' = config.initial_state
  /\ started' = FALSE
  /\ must_reset' = FALSE
  /\ open' = NoneOpen
  /\ UNCHANGED <<config, stack, ret>>

(* Faulty variant: a second start enters the initial state again. *)
StartAgain ==
  /\ FromClient \/ FromHandler("start")
  /\ started' = TRUE
  /\ state' = config.initial_state
  /\ Call(state', NewFrame("start", "first_entry"), stack)

simple_fsm_start ==
  /\ FromClient \/ FromHandler("start")
  /\ IF started
       THEN Refused(ERR_NOOP)
       ELSE /\ started' = TRUE
            /\ state' = config.initial_state
            /\ Call(state', NewFrame("start", "first_entry"), stack)

(* Faulty variant: an event is delivered to a stopped machine. *)
EventWhenStopped ==
  /\ FromClient \/ FromHandler("on_event")
  /\ Call(state, NewFrame("on_event", "event"), stack)
  /\ UNCHANGED <<state, started>>

simple_fsm_on_event ==
  /\ FromClient \/ FromHandler("on_event")
  /\ IF ~started
       THEN Refused(ERR_NOT_INITIALISED)
       ELSE /\ Call(state, NewFrame("on_event", "event"), stack)
            /\ UNCHANGED <<state, started>>

(* Faulty variant: the machine is stopped in a state it does not leave. *)
StopWithoutExit ==
  /\ FromClient \/ FromHandler("force_stop")
  /\ Return("force_stop", ERR_NONE, stack)
  /\ UNCHANGED <<config, state, open>>

simple_fsm_force_stop ==
  /\ FromClient \/ FromHandler("force_stop")
  /\ IF ~started
       THEN Refused(ERR_NOOP)
       ELSE /\ Call(state, NewFrame("force_stop", "stop_exit"), stack)
            /\ UNCHANGED <<state, started>>

(* A handler returns. *)
Resume == (\E v \in Returned : HandlerReturns(v)) /\ UNCHANGED client

(* The API is called. *)
Called ==
  /\ \/ \E c \in Config : simple_fsm_init(c)
     \/ simple_fsm_deinit
     \/ simple_fsm_start
     \/ simple_fsm_on_event
     \/ simple_fsm_force_stop
  /\ UNCHANGED client

Next == Called \/ Resume

(* Handlers return; nothing makes the client call. *)
Fairness == WF_vars(Resume)

Spec == Init /\ [][Next]_vars /\ Fairness

-----------------------------------------------------------------------------
(* Just s is entered and not yet exited. *)
OnlyOpen(s) == open = [NoneOpen EXCEPT ![s] = 1]

(***************************************************************************)
(* Every entry is matched by an exit: a started machine at rest has        *)
(* entered its current state and left all others, and a stopped one that   *)
(* needs no reset has left them all.                                       *)
(***************************************************************************)
EntriesMatchExits ==
  stack = <<>> /\ ~must_reset =>
    IF started THEN OnlyOpen(state) ELSE open = NoneOpen

(***************************************************************************)
(* A handler runs in a legal situation: the event handler in the one state *)
(* that is entered, an entry handler after all others have exited, and an  *)
(* exit handler only for the state that was entered.                       *)
(***************************************************************************)
HandlersInTurn ==
  stack # <<>> =>
    IF Kind(Head(stack).in) = "exit" THEN open = NoneOpen ELSE OnlyOpen(state)

(***************************************************************************)
(* No handler is called once the machine has been stopped.                 *)
(***************************************************************************)
QuietWhenStopped ==
  [][ stack' # stack /\ Len(stack') >= Len(stack) => started' ]_vars

(***************************************************************************)
(* Every call returns, whatever cycle of states the handlers ask for, if   *)
(* they do not themselves keep calling.                                    *)
(***************************************************************************)
CallsReturn == stack # <<>> /\ client = "straying" ~> stack = <<>>
=============================================================================
