--------------------------- MODULE AsyncEventBus ---------------------------
(***************************************************************************)
(* The asynchronous event bus of common/async_event_bus.py: a bounded FIFO *)
(* queue, a consumer task that start() creates and stop() cancels, and a   *)
(* list of handlers the consumer awaits one after the other.               *)
(*                                                                         *)
(* Everything runs in one asyncio loop, so an action is what happens       *)
(* between two suspension points.  The consumer is suspended while it      *)
(* waits for an event and while a handler runs; every other coroutine may  *)
(* then publish, subscribe, start, stop or reset.                          *)
(*                                                                         *)
(* One event type is modelled; the handlers are coroutine functions that   *)
(* let a CancelledError pass; none is subscribed twice, and none leaves    *)
(* (a handler that comes back after unsubscribe can see an event twice).   *)
(* The list of past events and the statistics are left out.  The priority  *)
(* is read by nothing; Urgent stands for it in the properties.             *)
(***************************************************************************)
EXTENDS Integers, Sequences, FiniteSets

CONSTANTS
  MaxEvents,   \* bound: how many events are published
  Malformed,   \* what has no event_type, such as the strings MultiMarketPool publishes
  Urgent,      \* published with a higher priority than the others
  Handlers,
  MaxQueue,    \* max_queue_size
  Tasks,       \* bound: start() creates no more consumer tasks than these
  None         \* no task, no event

(* Events are numbered in the order in which they are published. *)
Events == 1 .. MaxEvents

ASSUME ConstantsAssumption ==
  /\ MaxEvents \in Nat
  /\ Malformed \subseteq Events /\ Urgent \subseteq Events
  /\ MaxQueue \in Nat \ {0}
  /\ None \notin Tasks \cup Events

ASSUME HandlersAssumption == IsFiniteSet(Handlers)

VARIABLES
  queue,       \* self._queue
  unfinished,  \* the counter of the queue that join() waits for
  running,     \* self._running
  task,        \* self._task
  handlers,    \* self._subscribers[event_type]
  pc,          \* where each consumer task is
  asked,       \* stop() has called cancel() on the task
  item,        \* the event in the hands of the task
  attached,    \* it iterates over self._subscribers[event_type] itself ...
  list,        \* ... or over a list that reset() has taken out of there
  at,          \* the place of the handler that runs
  published,   \* history: how many events were published
  refused,     \* history: the events publish() dropped
  done,        \* history: events whose handling ended regularly
  lost,        \* history: events a consumer took and died with
  discarded,   \* history: events reset() took out of the queue
  got,         \* history: how often each handler was called with each event
  doubled      \* history: start() was called while a consumer was alive

taskVars    == <<pc, asked, item, list, attached, at>>
historyVars == <<published, refused, done, lost, discarded, got, doubled>>
vars == <<queue, unfinished, running, task, handlers, taskVars, historyVars>>

Elements(s) == {s[i] : i \in DOMAIN s}
Over == {"ended", "cancelled", "crashed"}
Alive(t) == pc[t] \notin Over \cup {"unborn"}

TypeOK ==
  /\ queue      \in Seq(Events) /\ Len(queue) <= MaxQueue
  /\ unfinished \in Nat
  /\ running    \in BOOLEAN
  /\ task       \in Tasks \cup {None}
  /\ handlers   \in Seq(Handlers)
  /\ pc         \in [Tasks -> {"unborn", "ready", "waiting", "handling"} \cup Over]
  /\ asked      \in [Tasks -> BOOLEAN]
  /\ item       \in [Tasks -> Events \cup {None}]
  /\ list       \in [Tasks -> Seq(Handlers)]
  /\ attached   \in [Tasks -> BOOLEAN]
  /\ at         \in [Tasks -> Nat]
  /\ published  \in 0 .. MaxEvents
  /\ refused    \subseteq Events
  /\ done       \subseteq Events
  /\ lost       \subseteq Events
  /\ discarded  \subseteq Events
  /\ got        \in [Handlers -> [Events -> Nat]]
  /\ doubled    \in BOOLEAN

Init ==
  /\ queue      = <<>>
  /\ unfinished = 0
  /\ running    = FALSE
  /\ task       = None
  /\ handlers   = <<>>
  /\ pc         = [t \in Tasks |-> "unborn"]
  /\ asked      = [t \in Tasks |-> FALSE]
  /\ item       = [t \in Tasks |-> None]
  /\ list       = [t \in Tasks |-> <<>>]
  /\ attached   = [t \in Tasks |-> FALSE]
  /\ at         = [t \in Tasks |-> 0]
  /\ published  = 0
  /\ refused    = {}
  /\ done       = {}
  /\ lost       = {}
  /\ discarded  = {}
  /\ got        = [h \in Handlers |-> [e \in Events |-> 0]]
  /\ doubled    = FALSE
-----------------------------------------------------------------------------
(* publish: a full queue drops the event; otherwise put() does not wait. *)
Publish ==
  /\ published < MaxEvents
  /\ published' = published + 1
  /\ IF Len(queue) >= MaxQueue
       THEN /\ refused' = refused \cup {published'}
            /\ UNCHANGED <<queue, unfinished>>
       ELSE /\ queue'      = Append(queue, published')
            /\ unfinished' = unfinished + 1
            /\ UNCHANGED refused
  /\ UNCHANGED <<running, task, handlers, taskVars,
                 done, lost, discarded, got, doubled>>

Subscribe(h) ==
  /\ h \notin Elements(handlers)
  /\ handlers' = Append(handlers, h)
  /\ UNCHANGED <<queue, unfinished, running, task, taskVars, historyVars>>

(* start: a new consumer, whether or not there is one already. *)
Start(t) ==
  /\ pc[t] = "unborn"
  /\ running' = TRUE
  /\ task'    = t
  /\ pc'      = [pc EXCEPT ![t] = "ready"]
  /\ doubled' = (doubled \/ \E u \in Tasks : Alive(u))
  /\ UNCHANGED <<queue, unfinished, handlers, asked, item, attached, list, at,
                 published, refused, done, lost, discarded, got>>

(* stop: the task start() made last is cancelled; what the caller of stop   *)
(* waits for is the end of that task.                                       *)
Stop ==
  /\ running' = FALSE
  /\ asked' = IF task # None /\ Alive(task) THEN [asked EXCEPT ![task] = TRUE] ELSE asked
  /\ UNCHANGED <<queue, unfinished, task, handlers, pc, item, attached, list, at,
                 historyVars>>

(* Mutant: the open count starts from zero, whatever a consumer still holds. *)
ResetForgetsTheOpen ==
  /\ handlers'   = <<>>
  /\ queue'      = <<>>
  /\ unfinished' = 0
  /\ list'       = [t \in Tasks |-> IF attached[t] THEN handlers ELSE list[t]]
  /\ attached'   = [t \in Tasks |-> FALSE]
  /\ discarded'  = discarded \cup Elements(queue)
  /\ UNCHANGED <<running, task, pc, asked, item, at, published, refused, done, lost,
                 got, doubled>>

(* reset: the dictionary of subscribers, the queue and the counters are     *)
(* emptied; the tasks go on with what they hold.                            *)
Reset ==
  /\ handlers'   = <<>>
  /\ queue'      = <<>>
  /\ unfinished' = unfinished - Len(queue)
  /\ list'       = [t \in Tasks |-> IF attached[t] THEN handlers ELSE list[t]]
  /\ attached'   = [t \in Tasks |-> FALSE]
  /\ discarded'  = discarded \cup Elements(queue)
  /\ UNCHANGED <<running, task, pc, asked, item, at, published, refused, done, lost,
                 got, doubled>>

-----------------------------------------------------------------------------
(* Mutant: while True. *)
LoopForever == "waiting"

(* while self._running: wait for an event, or end. *)
Loop == IF running THEN "waiting" ELSE "ended"

(* What a task drops when it is through with an event. *)
Release(t) ==
  /\ item'     = [item EXCEPT ![t] = None]
  /\ attached' = [attached EXCEPT ![t] = FALSE]
  /\ list'     = [list EXCEPT ![t] = <<>>]
  /\ at'       = [at EXCEPT ![t] = 0]

(* The event is handled: it is counted, task_done() is called. *)
Finish(t, e) ==
  /\ pc'         = [pc EXCEPT ![t] = Loop]
  /\ unfinished' = unfinished - 1
  /\ done'       = done \cup {e}
  /\ Release(t)
  /\ UNCHANGED <<lost, got>>

(* The task ends with the event in its hands; task_done() is not called. *)
Abandon(t, e, how) ==
  /\ pc'   = [pc EXCEPT ![t] = how]
  /\ lost' = lost \cup {e}
  /\ Release(t)
  /\ UNCHANGED <<unfinished, done, got>>

Call(t, e, hs, i) ==
  /\ at'  = [at EXCEPT ![t] = i]
  /\ got' = [got EXCEPT ![hs[i]][e] = @ + 1]

(* The task runs for the first time; a task cancelled before never does. *)
Begin(t) ==
  /\ pc[t] = "ready"
  /\ pc' = [pc EXCEPT ![t] = IF asked[t] THEN "cancelled" ELSE Loop]
  /\ UNCHANGED <<queue, unfinished, running, task, handlers, asked, item,
                 attached, list, at, historyVars>>

(* The event the task works on next, once it has it: without an event_type  *)
(* the AttributeError ends the task.                                        *)
Work(t, e) ==
  \/ /\ e \in Malformed
     /\ Abandon(t, e, "crashed")
  \/ /\ e \notin Malformed /\ handlers = <<>>
     /\ Finish(t, e)
  \/ /\ e \notin Malformed /\ handlers # <<>>
     /\ pc'       = [pc EXCEPT ![t] = "handling"]
     /\ item'     = [item EXCEPT ![t] = e]
     /\ attached' = [attached EXCEPT ![t] = TRUE]
     /\ Call(t, e, handlers, 1)
     /\ UNCHANGED <<unfinished, list, done, lost>>

(* Mutant: the queue hands out the newest event. *)
TakeNewest(t) ==
  /\ pc[t] = "waiting"
  /\ queue # <<>>
  /\ queue' = SubSeq(queue, 1, Len(queue) - 1)
  /\ asked' = [asked EXCEPT ![t] = FALSE]
  /\ Work(t, queue[Len(queue)])
  /\ UNCHANGED <<running, task, handlers, published, refused, discarded, doubled>>

(* wait_for(queue.get()) returns.  If cancel() comes when get() has already *)
(* got the event, the wait_for of Python 3.11 returns it and swallows the   *)
(* cancellation.  self._running is not looked at.                           *)
Take(t) ==
  /\ pc[t] = "waiting"
  /\ queue # <<>>
  /\ queue' = Tail(queue)
  /\ asked' = [asked EXCEPT ![t] = FALSE]
  /\ Work(t, Head(queue))
  /\ UNCHANGED <<running, task, handlers, published, refused, discarded, doubled>>

(* The half second is over. *)
TimeOut(t) ==
  /\ pc[t] = "waiting"
  /\ queue = <<>>
  /\ ~asked[t]
  /\ pc' = [pc EXCEPT ![t] = Loop]
  /\ UNCHANGED <<queue, unfinished, running, task, handlers, asked, item,
                 attached, list, at, historyVars>>

WaitIsCancelled(t) ==
  /\ pc[t] = "waiting"
  /\ asked[t]
  /\ pc' = [pc EXCEPT ![t] = "cancelled"]
  /\ UNCHANGED <<queue, unfinished, running, task, handlers, asked, item,
                 attached, list, at, historyVars>>

(* Mutant: an exception of a handler ends the consumer. *)
HandlerEndsOrBreaks(t) ==
  LET hs == IF attached[t] THEN handlers ELSE list[t]
      e  == item[t] IN
  /\ pc[t] = "handling"
  /\ ~asked[t]
  /\ \/ at[t] < Len(hs) /\ Call(t, e, hs, at[t] + 1)
        /\ UNCHANGED <<pc, item, attached, list, unfinished, done, lost>>
     \/ at[t] >= Len(hs) /\ Finish(t, e)
     \/ Abandon(t, e, "crashed")
  /\ UNCHANGED <<queue, running, task, handlers, asked,
                 published, refused, discarded, doubled>>

(* A handler returns or raises an Exception, which is printed: the next     *)
(* one in the list is called, if there is one.                              *)
HandlerEnds(t) ==
  LET hs == IF attached[t] THEN handlers ELSE list[t]
      e  == item[t] IN
  /\ pc[t] = "handling"
  /\ ~asked[t]
  /\ \/ at[t] < Len(hs) /\ Call(t, e, hs, at[t] + 1)
        /\ UNCHANGED <<pc, item, attached, list, unfinished, done, lost>>
     \/ at[t] >= Len(hs) /\ Finish(t, e)
  /\ UNCHANGED <<queue, running, task, handlers, asked,
                 published, refused, discarded, doubled>>

(* Mutants: task_done() in a finally clause; the event is put back. *)
HandlerIsCancelledFinally(t) ==
  /\ pc[t] = "handling"
  /\ asked[t]
  /\ pc'   = [pc EXCEPT ![t] = "cancelled"]
  /\ lost' = lost \cup {item[t]}
  /\ unfinished' = unfinished - 1
  /\ Release(t)
  /\ UNCHANGED <<queue, running, task, handlers, asked,
                 published, refused, done, discarded, got, doubled>>
HandlerIsCancelledPutBack(t) ==
  /\ pc[t] = "handling"
  /\ asked[t]
  /\ Len(queue) < MaxQueue
  /\ pc'    = [pc EXCEPT ![t] = "cancelled"]
  /\ queue' = <<item[t]>> \o queue
  /\ Release(t)
  /\ UNCHANGED <<unfinished, running, task, handlers, asked, historyVars>>

(* The CancelledError goes through the handler and past "except Exception". *)
HandlerIsCancelled(t) ==
  /\ pc[t] = "handling"
  /\ asked[t]
  /\ Abandon(t, item[t], "cancelled")
  /\ UNCHANGED <<queue, running, task, handlers, asked,
                 published, refused, discarded, doubled>>

Consume(t) ==
  \/ Begin(t)
  \/ Take(t)
  \/ TimeOut(t)
  \/ WaitIsCancelled(t)
  \/ HandlerEnds(t)
  \/ HandlerIsCancelled(t)

Next ==
  \/ Publish
  \/ \E h \in Handlers : Subscribe(h)
  \/ \E t \in Tasks : Start(t)
  \/ Stop
  \/ Reset
  \/ \E t \in Tasks : Consume(t)

(* Weak fairness of every consumer: the loop of asyncio runs a task that is *)
(* ready, the wait of half a second ends, and a handler returns.            *)
Spec == Init /\ [][Next]_vars /\ \A t \in Tasks : WF_vars(Consume(t))

-----------------------------------------------------------------------------
Accepted == (1 .. published) \ refused
InHand == {item[t] : t \in {u \in Tasks : pc[u] = "handling"}}

(* wait_until_empty tells the truth: the join() of the queue returns before *)
(* its timeout only if every event that was accepted has been handled to    *)
(* the end or thrown away by reset(), never while one is being handled or   *)
(* after one was lost.                                                      *)
JoinMeansHandled ==
  unfinished = 0 =>
    /\ Accepted \subseteq done \cup discarded
    /\ InHand = {} /\ queue = <<>>

(* No handler sees an event twice, whatever the number of consumers and     *)
(* however often the bus is stopped, started and reset; an event that was   *)
(* dropped is seen by none.                                                 *)
AtMostOnce ==
  \A h \in Handlers, e \in Events :
    got[h][e] <= IF e \in refused THEN 0 ELSE 1

(* Events of one priority are taken in the order in which they were         *)
(* accepted, by however many consumers: once one has left the queue, all    *)
(* before it have.  As long as start() is never called while a consumer is  *)
(* alive, they are also handled one at a time: when one is taken, all       *)
(* before it are over.  (Of events of two priorities it says nothing: the   *)
(* code takes those in the order of their acceptance too, the docstring     *)
(* promises the other one, see UrgentFirst.)                                *)
InOrder ==
  \A i, j \in Accepted :
    (i \in Urgent <=> j \in Urgent) /\ i < j /\ j \notin Elements(queue) =>
      /\ i \notin Elements(queue)
      /\ ~doubled /\ j \notin discarded => i \in done \cup lost \cup discarded

(* The "priority queue" of the docstring: no event is taken while one that  *)
(* was published with a higher priority waits.  False of the code: the      *)
(* priority is put into the item and read by nobody.                        *)
UrgentFirst ==
  [][\A e \in Elements(queue) \ Urgent :
       e \notin Elements(queue') \cup discarded' => Elements(queue) \cap Urgent = {}]_vars

(* An accepted event does not wait for ever on a running bus: it is taken   *)
(* and handled, unless the bus is stopped, or a malformed event has killed  *)
(* a consumer.                                                              *)
EventuallyHandled ==
  \A e \in Events :
    e \in Elements(queue) /\ running
      ~> \/ e \in done \cup discarded
         \/ ~running
         \/ lost \cap Malformed # {}

(* A stopped bus comes to rest: every consumer ends, the ones included that *)
(* a second start() has orphaned and stop() does not cancel.                *)
StopEndsConsumers ==
  ~running ~> (running \/ \A t \in Tasks : ~Alive(t))
=============================================================================
