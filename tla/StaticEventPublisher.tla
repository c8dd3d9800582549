------------------------ MODULE StaticEventPublisher ------------------------
(***************************************************************************)
(* src/src/events/static_event_publisher.c: an event is handed to every    *)
(* subscriber in turn.  A notification is a frame on the call stack,       *)
(* suspended in the callback of the subscriber at idx; the callback may    *)
(* notify again or set the publisher up anew before it returns.  Events    *)
(* are numbered in the order in which they were notified.                  *)
(***************************************************************************)
EXTENDS Naturals, Sequences, FiniteSets, Functions, ErrorCodes

CONSTANTS
  Subscriber,
  List,          \* the lists passed to init, no subscriber twice on one;
                 \* the empty one is among them
  MaxEvents,     \* bound on the events of a behaviour
  Callbacks      \* the callbacks considered, each as the calls it makes

PublisherConstants ==
  /\ IsFiniteSet(Subscriber)
  /\ <<>> \in List
  /\ List \subseteq Seq(Subscriber)
  /\ \A list \in List : IsInjective(list)
  /\ MaxEvents \in Nat

VARIABLES
  callbacks,     \* what callbacks may call before they return: "notify" is
                 \* notify_subscribers, "configure" is init and deinit
  subscribers,   \* the configured list; empty when subscriber_count is 0
  stack,         \* the notifications in progress, innermost first
  seen,          \* per subscriber, the events its callback was called with
  log,           \* per event: who was subscribed, which notifications were
                 \* in progress, and whether the list was set during its own
  ret

vars == <<callbacks, subscribers, stack, seen, log, ret>>

Event == 1 .. MaxEvents
Frame == [event : Event, idx : 1 .. Cardinality(Subscriber)]

TypeOK ==
  /\ callbacks \in Callbacks
  /\ subscribers \in List
  /\ stack \in Seq(Frame)
  /\ seen \in [Subscriber -> Seq(Event)]
  /\ log \in Seq([audience : List, during : Seq(Frame), disturbed : BOOLEAN])
  /\ ret \in ErrorCode

(* The state deinit leaves. *)
Init ==
  /\ callbacks \in Callbacks
  /\ subscribers = <<>>
  /\ stack = <<>>
  /\ seen = [s \in Subscriber |-> <<>>]
  /\ log = <<>>
  /\ ret = ERR_NONE

InProgress == {stack[i].event : i \in DOMAIN stack}

-----------------------------------------------------------------------------
(* Calls come from outside, or from a callback that makes such calls. *)
MayCall(kind) == stack # <<>> => kind \in callbacks

(* The notifications in progress will run on another list. *)
Disturb ==
  log' = [e \in DOMAIN log |->
            [log[e] EXCEPT !.disturbed = @ \/ e \in InProgress]]

static_event_publisher_init(list) ==
  /\ MayCall("configure")
  /\ IF list = <<>>           \* static_event_publisher_validate_config
       THEN /\ ret' = ERR_INVALID_ARG
            /\ UNCHANGED <<subscribers, log>>
       ELSE /\ subscribers' = list
            /\ ret' = ERR_NONE
            /\ Disturb
  /\ UNCHANGED <<stack, seen>>

static_event_publisher_deinit ==
  /\ MayCall("configure")
  /\ subscribers' = <<>>
  /\ Disturb
  /\ UNCHANGED <<stack, seen, ret>>

(* Faulty variant: the count is read once, when the loop begins. *)
LoopWithCachedCount(e, idx, rest) ==
  LET list == IF e \in DOMAIN log THEN log[e].audience ELSE subscribers
  IN  IF idx <= Len(list)
        THEN /\ stack' = <<[event |-> e, idx |-> idx]>> \o rest
             /\ seen' = [seen EXCEPT ![list[idx]] = Append(@, e)]
        ELSE /\ stack' = rest
             /\ UNCHANGED seen

(* Faulty variant: the list is gone through from its end. *)
LoopBackwards(e, idx, rest) ==
  IF idx <= Len(subscribers)
    THEN /\ stack' = <<[event |-> e, idx |-> idx]>> \o rest
         /\ seen' = [seen EXCEPT ![subscribers[Len(subscribers) + 1 - idx]] =
                                  Append(@, e)]
    ELSE /\ stack' = rest
         /\ UNCHANGED seen

(* Faulty variant: the last subscriber is left out. *)
LoopOneShort(e, idx, rest) ==
  IF idx < Len(subscribers)
    THEN /\ stack' = <<[event |-> e, idx |-> idx]>> \o rest
         /\ seen' = [seen EXCEPT ![subscribers[idx]] = Append(@, e)]
    ELSE /\ stack' = rest
         /\ UNCHANGED seen

(* Faulty variant: only an index equal to the count ends the loop, which   *)
(* runs on past a list that has become shorter.                            *)
LoopUntilEqual(e, idx, rest) ==
  IF idx <= Len(subscribers)
    THEN /\ stack' = <<[event |-> e, idx |-> idx]>> \o rest
         /\ seen' = [seen EXCEPT ![subscribers[idx]] = Append(@, e)]
    ELSE /\ stack' = IF idx = Len(subscribers) + 1 THEN rest ELSE stack
         /\ UNCHANGED seen

(* The loop head of notify_subscribers, with the count and the list as     *)
(* they are now, and the call of the next callback.  (idx counts from 1.)  *)
Loop(e, idx, rest) ==
  IF idx <= Len(subscribers)
    THEN /\ stack' = <<[event |-> e, idx |-> idx]>> \o rest
         /\ seen' = [seen EXCEPT ![subscribers[idx]] = Append(@, e)]
    ELSE /\ stack' = rest
         /\ UNCHANGED seen

static_event_publisher_notify_subscribers ==
  /\ MayCall("notify")
  /\ Len(log) < MaxEvents
  /\ log' = Append(log, [audience |-> subscribers, during |-> stack,
                         disturbed |-> FALSE])
  /\ Loop(Len(log'), 1, stack)
  /\ UNCHANGED <<subscribers, ret>>

(* Faulty variant: the loop variable is shared by nested notifications. *)
CallbackReturnsSharedIndex ==
  /\ stack # <<>>
  /\ Loop(Head(stack).event, Head(stack).idx + 1,
          [i \in DOMAIN Tail(stack) |->
             [Tail(stack)[i] EXCEPT !.idx = Head(stack).idx + 1]])
  /\ UNCHANGED <<callbacks, subscribers, log, ret>>

(* A callback returns and the loop goes on. *)
CallbackReturns ==
  /\ stack # <<>>
  /\ Loop(Head(stack).event, Head(stack).idx + 1, Tail(stack))
  /\ UNCHANGED <<callbacks, subscribers, log, ret>>

Called ==
  /\ \/ \E list \in List : static_event_publisher_init(list)
     \/ static_event_publisher_deinit
     \/ static_event_publisher_notify_subscribers
  /\ UNCHANGED callbacks

Next == Called \/ CallbackReturns

Spec == Init /\ [][Next]_vars /\ WF_vars(CallbackReturns)

-----------------------------------------------------------------------------
(***************************************************************************)
(* Once the notification of an event has returned, each subscriber on the  *)
(* list has been called with it exactly once and nobody else has, however  *)
(* many notifications were nested in it, if the list was not set anew      *)
(* meanwhile.                                                              *)
(***************************************************************************)
EachHearsOnce ==
  \A e \in DOMAIN log \ InProgress :
    ~log[e].disturbed =>
      \A s \in Subscriber :
        Cardinality({i \in DOMAIN seen[s] : seen[s][i] = e}) =
          (IF s \in Range(log[e].audience) THEN 1 ELSE 0)

(* In seen[s], event e comes before event f. *)
HeardBefore(s, e, f) ==
  \E i, j \in DOMAIN seen[s] : i < j /\ seen[s][i] = e /\ seen[s][j] = f

(***************************************************************************)
(* An event notified from the callback of the subscriber at idx is heard   *)
(* after the outer one up to that subscriber and before it by the ones     *)
(* further down the list; otherwise events are heard in the order in which *)
(* they were notified.                                                     *)
(***************************************************************************)
HeardByPosition ==
  \A e, f \in DOMAIN log \ InProgress :
    e < f /\ ~log[e].disturbed /\ ~log[f].disturbed /\ log[e].audience = log[f].audience =>
      \A p \in DOMAIN log[e].audience :
        HeardBefore(log[e].audience[p], e, f) <=>
          \A k \in DOMAIN log[f].during :
            log[f].during[k].event = e => p <= log[f].during[k].idx

(***************************************************************************)
(* No callback is called once deinit has been: a callback that calls it    *)
(* ends every notification in progress, those it is nested in included.    *)
(***************************************************************************)
QuietAfterDeinit == [][seen' # seen => subscribers # <<>>]_vars

(***************************************************************************)
(* A notification returns, even if its callbacks set the list anew, unless *)
(* they keep notifying.                                                    *)
(***************************************************************************)
NotifyReturns == stack # <<>> /\ "notify" \notin callbacks ~> stack = <<>>
=============================================================================
