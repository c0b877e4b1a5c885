----------------------------- MODULE MessageBus -----------------------------
(***************************************************************************)
(* The in-process bus of common/message_bus.py.  publish() calls the       *)
(* subscribers one after the other; a subscriber may publish in its turn,  *)
(* and that call is over before its own goes on.  The calls in progress    *)
(* are a stack of frames, the innermost first.  A frame that has not begun *)
(* (next = 0) is a publish that follows in the handler that made it.       *)
(*                                                                         *)
(* The iteration is over the live list: to leave it shifts the others.     *)
(* An exception of a subscriber is swallowed, so that it is no different   *)
(* from a return.  Redis and the limit of the history are left out.        *)
(***************************************************************************)
EXTENDS Integers, Sequences, SequencesExt

CONSTANTS
  EventTypes,   \* EventType
  Subjects,     \* what events are about
  Handlers      \* callbacks

VARIABLES
  subscribers,   \* _subscribers: the callbacks of every type, in order
  queue,         \* _queue
  published,     \* _history
  stack          \* calls of publish in progress

busVars == <<subscribers, queue, published, stack>>

Event == [type : EventTypes, about : Subjects]
Frame == [event : Event, next : Nat]

BusTypeOK ==
  /\ subscribers \in [EventTypes -> Seq(Handlers)]
  /\ queue \in Seq(Event)
  /\ published \in Seq(Event)
  /\ stack \in Seq(Frame)

Idle == stack = <<>>

Subscribed(type, h) == h \in ToSet(subscribers[type])

(* The frames of publishing some events in turn. *)
Frames(events) == [i \in DOMAIN events |-> [event |-> events[i], next |-> 0]]

(* publish() from outside of any handler. *)
Publish(event) ==
  /\ Idle
  /\ stack' = Frames(<<event>>)
  /\ UNCHANGED <<subscribers, queue, published>>

(* publish_async(). *)
PublishAsync(event) == queue' = Append(queue, event)

(* start_async_consumer(): the task runs when nothing else does. *)
Consume ==
  /\ Idle
  /\ queue # <<>>
  /\ queue' = Tail(queue)
  /\ stack' = Frames(<<Head(queue)>>)
  /\ UNCHANGED <<subscribers, published>>

(* The innermost call begins: the event goes to the history. *)
Begin ==
  /\ ~Idle
  /\ Head(stack).next = 0
  /\ published' = Append(published, Head(stack).event)
  /\ stack' = [stack EXCEPT ![1].next = 1]
  /\ UNCHANGED <<subscribers, queue>>

(* It is the turn of h to be called with an event. *)
Turn(h, event) ==
  /\ ~Idle
  /\ event = Head(stack).event
  /\ Head(stack).next \in DOMAIN subscribers[event.type]
  /\ h = subscribers[event.type][Head(stack).next]

(* The handler whose turn it is publishes these events and returns. *)
Answers(events) == stack' = Frames(events) \o [stack EXCEPT ![1].next = @ + 1]

(* No subscriber is left: the innermost call returns. *)
Return ==
  /\ ~Idle
  /\ Head(stack).next > Len(subscribers[Head(stack).event.type])
  /\ stack' = Tail(stack)
  /\ UNCHANGED <<subscribers, queue, published>>

(* subscribe() and unsubscribe() of a handler, for a set of types. *)
Subscribe(types, h) ==
  subscribers' = [t \in EventTypes |->
    IF t \in types THEN Append(subscribers[t], h) ELSE subscribers[t]]

Unsubscribe(types, h) ==
  subscribers' = [t \in EventTypes |->
    IF t \in types THEN RemoveFirst(subscribers[t], h) ELSE subscribers[t]]
=============================================================================
