---------------------------- MODULE Dispatchers -----------------------------
(***************************************************************************)
(* The two parts of the library that call client code back, side by side   *)
(* for model checking: the FSM runner (SimpleFSM, extended here) and the   *)
(* event publisher.  They share no state; a behaviour drives one of them.  *)
(***************************************************************************)
EXTENDS SimpleFSM

CONSTANTS
  Driven,                                   \* the dispatchers to choose from
  Subscriber, List, MaxEvents, Callbacks    \* see StaticEventPublisher

VARIABLES
  driven,                 \* the dispatcher of this behaviour
  callbacks, subscribers, pub_stack, seen, log, pub_ret

Publisher == INSTANCE StaticEventPublisher
               WITH stack <- pub_stack, ret <- pub_ret

ASSUME DispatchersAssumption ==
  /\ Driven \subseteq {"fsm", "publisher"}
  /\ Publisher!PublisherConstants
  /\ Callbacks \subseteq SUBSET {"notify", "configure"}

publisher == <<callbacks, subscribers, pub_stack, seen, log, pub_ret>>
all       == <<driven, vars, publisher>>

(* What a dispatcher that is not driven starts with makes no difference. *)
AnyOf(S) == CHOOSE x \in S : TRUE

DispatchersInit ==
  /\ driven \in Driven
  /\ Init
  /\ Publisher!Init
  /\ driven # "fsm" => client = AnyOf(Clients) /\ config.state_count = 1
                                               /\ config.max_transition_count = 1
  /\ driven # "publisher" => callbacks = AnyOf(Callbacks)

FsmCalled   == driven = "fsm" /\ Called /\ UNCHANGED <<driven, publisher>>
FsmResumes  == driven = "fsm" /\ Resume /\ UNCHANGED <<driven, publisher>>
PublisherCalled ==
  driven = "publisher" /\ Publisher!Called /\ UNCHANGED <<driven, vars>>
PublisherResumes ==
  driven = "publisher" /\ Publisher!CallbackReturns /\ UNCHANGED <<driven, vars>>

DispatchersNext ==
  FsmCalled \/ FsmResumes \/ PublisherCalled \/ PublisherResumes

(* Client code that was called returns; nothing makes the client call. *)
DispatchersSpec ==
  /\ DispatchersInit
  /\ [][DispatchersNext]_all
  /\ WF_all(FsmResumes)
  /\ WF_all(PublisherResumes)

-----------------------------------------------------------------------------
(***************************************************************************)
(* The publisher's state keeps its type.                                   *)
(***************************************************************************)
PublisherTypeOK == Publisher!TypeOK

(***************************************************************************)
(* Each subscriber on an undisturbed list hears each event exactly once.   *)
(***************************************************************************)
EachHearsOnce == Publisher!EachHearsOnce

(***************************************************************************)
(* A nested event overtakes the outer one at the subscribers after the one *)
(* whose callback notified it, and nowhere else.                           *)
(***************************************************************************)
HeardByPosition == Publisher!HeardByPosition

(***************************************************************************)
(* A callback that deinitialises the publisher ends every notification,    *)
(* those it is nested in included.                                         *)
(***************************************************************************)
QuietAfterDeinit == Publisher!QuietAfterDeinit

(***************************************************************************)
(* A notification returns unless its callbacks keep notifying.             *)
(***************************************************************************)
NotifyReturns == Publisher!NotifyReturns
=============================================================================
