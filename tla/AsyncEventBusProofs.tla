------------------------ MODULE AsyncEventBusProofs ------------------------
(* Theorems about the asynchronous event bus.                               *)
EXTENDS AsyncEventBus, FiniteSetTheorems, TLAPS

Handling == {t \in Tasks : pc[t] = "handling"}

(* Where the accepted events are that are over. *)
Settled == done \cup lost \cup discarded

Increasing(s) == \A i, j \in DOMAIN s : i < j => s[i] < s[j]

(* Every accepted event is in one place: in the queue, in the hands of one  *)
(* task, or settled; a refused one is nowhere.                              *)
EventsHaveOnePlace ==
  /\ Increasing(queue)
  /\ refused \subseteq 1 .. published
  /\ Elements(queue) \cup InHand \cup Settled = Accepted
  /\ Elements(queue) \cap (InHand \cup Settled) = {}
  /\ InHand \cap Settled = {}
  /\ \A t, u \in Handling : item[t] = item[u] => t = u

(* The types without the open count, which stays natural because it counts. *)
ShapeOK ==
  /\ queue      \in Seq(Events) /\ Len(queue) <= MaxQueue
  /\ running    \in BOOLEAN
  /\ task       \in Tasks \cup {None}
  /\ handlers   \in Seq(Handlers)
  /\ pc         \in [Tasks -> {"unborn", "ready", "waiting", "handling"} \cup Over]
  /\ asked      \in [Tasks -> BOOLEAN]
  /\ item       \in [Tasks -> Events \cup {None}]
  /\ list       \in [Tasks -> Seq(Handlers)]
  /\ attached   \in [Tasks -> BOOLEAN]
  /\ at         \in [Tasks -> Nat]
  /\ published  \in 0 .. MaxEvents
  /\ refused    \subseteq Events
  /\ done       \subseteq Events
  /\ lost       \subseteq Events
  /\ discarded  \subseteq Events
  /\ got        \in [Handlers -> [Events -> Nat]]
  /\ doubled    \in BOOLEAN
  /\ \A t \in Handling : item[t] \in Events

-----------------------------------------------------------------------------
(* The steps that move no event. *)
Idles ==
  /\ UNCHANGED <<queue, unfinished, item, attached, list, at, published, refused, done,
                 lost, discarded, got>>
  /\ Handling' = Handling

(* Steps that take no event and call no handler. *)
LEMMA IdleSteps ==
  ASSUME ShapeOK,
         \/ \E h \in Handlers : Subscribe(h)
         \/ \E t \in Tasks : Start(t) \/ Begin(t) \/ TimeOut(t) \/ WaitIsCancelled(t)
         \/ Stop
         \/ UNCHANGED vars
  PROVE  Idles
BY DEF ShapeOK, Subscribe, Start, Begin, TimeOut, WaitIsCancelled, Stop, vars, taskVars,
       historyVars, Handling, Loop, Idles

(* The queue without its head is a queue. *)
LEMMA ShapeOfHead ==
  ASSUME ShapeOK, queue # <<>>
  PROVE  /\ Head(queue) \in Events
         /\ Tail(queue) \in Seq(Events)
         /\ Len(Tail(queue)) <= MaxQueue
BY ConstantsAssumption DEF ShapeOK

(* A call of a handler is counted, for this handler and this event only. *)
Counted(h, e) ==
  /\ h \in Handlers
  /\ got' \in [Handlers -> [Events -> Nat]]
  /\ got'[h][e] = got[h][e] + 1
  /\ \A g \in Handlers, d \in Events : <<g, d>> # <<h, e>> => got'[g][d] = got[g][d]

(* A handler that is called counts its event. *)
LEMMA CallCounts ==
  ASSUME ShapeOK, NEW t, NEW e \in Events, NEW hs \in Seq(Handlers),
         NEW i \in 1 .. Len(hs), Call(t, e, hs, i)
  PROVE  Counted(hs[i], e)
<1>1. hs[i] \in Handlers
  OBVIOUS
<1> DEFINE h == hs[i]
<1>2. got \in [Handlers -> [Events -> Nat]] /\ h \in Handlers
  BY <1>1 DEF ShapeOK
<1>3. got' = [got EXCEPT ![h][e] = @ + 1]
  BY DEF Call
<1> HIDE DEF h
<1>4. /\ got' \in [Handlers -> [Events -> Nat]]
      /\ got'[h][e] = got[h][e] + 1
      /\ \A g \in Handlers, d \in Events : <<g, d>> # <<h, e>> => got'[g][d] = got[g][d]
  BY <1>2, <1>3
<1>5. QED
  BY <1>1, <1>4 DEF h, Counted

(* A task that is through with an event has settled it and holds nothing. *)
LEMMA ThroughWith ==
  ASSUME ShapeOK, NEW t \in Tasks, NEW e \in Events,
         Finish(t, e) \/ \E how \in Over : Abandon(t, e, how)
  PROVE  /\ pc' \in [Tasks -> {"unborn", "ready", "waiting", "handling"} \cup Over]
         /\ item' \in [Tasks -> Events \cup {None}]
         /\ list' \in [Tasks -> Seq(Handlers)]
         /\ attached' \in [Tasks -> BOOLEAN]
         /\ at' \in [Tasks -> Nat]
         /\ done' \subseteq Events /\ lost' \subseteq Events
         /\ got' = got
         /\ Handling' = Handling \ {t}
         /\ \A u \in Tasks \ {t} : /\ item'[u] = item[u]
                                   /\ attached'[u] = attached[u]
                                   /\ list'[u] = list[u]
                                   /\ at'[u] = at[u]
         /\ list'[t] = <<>>
         /\ done' \cup lost' = done \cup lost \cup {e}
<1>1. PICK new \in {"waiting", "ended"} \cup Over : pc' = [pc EXCEPT ![t] = new]
  BY DEF Finish, Abandon, Loop, Over
<1>2. Release(t) /\ got' = got /\ done' \cup lost' = done \cup lost \cup {e}
  BY DEF Finish, Abandon
<1>3. /\ pc' \in [Tasks -> {"unborn", "ready", "waiting", "handling"} \cup Over]
      /\ Handling' = Handling \ {t}
  BY <1>1 DEF ShapeOK, Handling, Over
<1>4. done' \subseteq Events /\ lost' \subseteq Events
  BY DEF Finish, Abandon, ShapeOK
<1>5. /\ item' = [item EXCEPT ![t] = None] /\ attached' = [attached EXCEPT ![t] = FALSE]
      /\ list' = [list EXCEPT ![t] = <<>>] /\ at' = [at EXCEPT ![t] = 0]
  BY <1>2 DEF Release
<1>6. /\ item' \in [Tasks -> Events \cup {None}]
      /\ attached' \in [Tasks -> BOOLEAN]
      /\ at' \in [Tasks -> Nat]
  BY <1>5 DEF ShapeOK
<1>7. list' \in [Tasks -> Seq(Handlers)] /\ list'[t] = <<>>
  BY <1>5 DEF ShapeOK
<1>8. \A u \in Tasks \ {t} : /\ item'[u] = item[u]
                             /\ attached'[u] = attached[u]
                             /\ list'[u] = list[u]
                             /\ at'[u] = at[u]
  BY <1>5 DEF ShapeOK
<1>9. QED
  BY <1>2, <1>3, <1>4, <1>6, <1>7, <1>8

(* Every step keeps the types. *)
LEMMA ShapeStep == ShapeOK /\ [Next]_vars => ShapeOK'
<1> SUFFICES ASSUME ShapeOK, [Next]_vars PROVE ShapeOK'
  OBVIOUS
<1> USE ConstantsAssumption
<1>1. CASE Publish
  <2>1. published' \in Events
    BY <1>1 DEF Publish, ShapeOK, Events
  <2>2. /\ queue' \in Seq(Events) /\ Len(queue') <= MaxQueue
        /\ refused' \subseteq Events
    <3>1. CASE Len(queue) >= MaxQueue
      BY <1>1, <2>1, <3>1 DEF Publish, ShapeOK
    <3>2. CASE ~(Len(queue) >= MaxQueue)
      <4>1. queue' = Append(queue, published') /\ refused' = refused
        BY <1>1, <3>2 DEF Publish
      <4>2. queue \in Seq(Events) /\ Len(queue) < MaxQueue
        BY <3>2 DEF ShapeOK
      <4>3. QED
        BY <2>1, <4>1, <4>2 DEF ShapeOK
    <3>3. QED
      BY <3>1, <3>2
  <2>3. published' \in 0 .. MaxEvents
    BY <1>1 DEF Publish, ShapeOK
  <2>4. QED
    BY <1>1, <2>2, <2>3 DEF Publish, ShapeOK, taskVars, Handling
<1>2. CASE \E h \in Handlers : Subscribe(h)
  BY <1>2 DEF Subscribe, ShapeOK, taskVars, historyVars, Handling
<1>3. CASE \E t \in Tasks : Start(t)
  BY <1>3 DEF Start, ShapeOK, Handling
<1>4. CASE Stop
  BY <1>4 DEF Stop, ShapeOK, historyVars, Handling
<1>5. CASE Reset
  BY <1>5 DEF Reset, ShapeOK, Handling, Elements
<1>6. ASSUME NEW t \in Tasks, Begin(t) \/ TimeOut(t) \/ WaitIsCancelled(t)
      PROVE  ShapeOK'
  <2>1. pc' \in [Tasks -> {"unborn", "ready", "waiting", "handling"} \cup Over]
    BY <1>6 DEF Begin, TimeOut, WaitIsCancelled, Loop, ShapeOK, Over
  <2>2. Idles
    BY <1>6, IdleSteps
  <2>3. UNCHANGED <<running, task, handlers, asked, doubled>>
    BY <1>6 DEF Begin, TimeOut, WaitIsCancelled, historyVars
  <2>4. QED
    BY <2>1, <2>2, <2>3 DEF ShapeOK, Idles
<1>7. ASSUME NEW t \in Tasks, Take(t)
      PROVE  ShapeOK'
  <2> DEFINE e == Head(queue)
  <2>1. e \in Events /\ queue' \in Seq(Events) /\ Len(queue') <= MaxQueue
    BY <1>7, ShapeOfHead DEF Take
  <2> HIDE DEF e
  <2>0. UNCHANGED <<running, task, handlers, published, refused, discarded, doubled>>
        /\ asked' \in [Tasks -> BOOLEAN]
    BY <1>7 DEF Take, ShapeOK
  <2>2. CASE Abandon(t, e, "crashed") \/ Finish(t, e)
    <3>1. \A u \in Handling' : item'[u] \in Events
      BY <2>1, <2>2, ThroughWith DEF Over, ShapeOK, Handling
    <3>2. QED
      BY <2>0, <2>1, <2>2, <3>1, ThroughWith DEF Over, ShapeOK
  <2>3. CASE /\ handlers # <<>>
             /\ pc'       = [pc EXCEPT ![t] = "handling"]
             /\ item'     = [item EXCEPT ![t] = e]
             /\ attached' = [attached EXCEPT ![t] = TRUE]
             /\ Call(t, e, handlers, 1)
             /\ UNCHANGED <<unfinished, list, done, lost>>
    <3>1. handlers \in Seq(Handlers) /\ 1 \in 1 .. Len(handlers)
      BY <2>3 DEF ShapeOK
    <3>2. got' \in [Handlers -> [Events -> Nat]]
      BY <2>1, <2>3, <3>1, CallCounts DEF Counted
    <3>3. QED
      BY <2>0, <2>1, <2>3, <3>2 DEF Call, ShapeOK, Handling
  <2>4. QED
    BY <1>7, <2>2, <2>3 DEF Take, Work, e
<1>8. ASSUME NEW t \in Tasks, HandlerEnds(t)
      PROVE  ShapeOK'
  <2> DEFINE hs == IF attached[t] THEN handlers ELSE list[t]
  <2>1. item[t] \in Events /\ hs \in Seq(Handlers)
    BY <1>8 DEF HandlerEnds, ShapeOK, Handling
  <2>2. CASE at[t] < Len(hs) /\ Call(t, item[t], hs, at[t] + 1)
             /\ UNCHANGED <<pc, item, attached, list, unfinished, done, lost>>
    <3>1. at[t] + 1 \in 1 .. Len(hs)
      BY <2>1, <2>2 DEF ShapeOK
    <3> HIDE DEF hs
    <3>2. got' \in [Handlers -> [Events -> Nat]]
      BY <2>1, <2>2, <3>1, CallCounts DEF Counted
    <3>3. at' \in [Tasks -> Nat]
      BY <2>2, <3>1 DEF Call, ShapeOK
    <3>4. QED
      BY <1>8, <2>2, <3>2, <3>3 DEF HandlerEnds, ShapeOK, Handling
  <2>3. CASE Finish(t, item[t])
    BY <1>8, <2>1, <2>3 DEF HandlerEnds, Finish, Release, Loop, ShapeOK, Over, Handling
  <2>4. QED
    BY <1>8, <2>2, <2>3 DEF HandlerEnds
<1>9. ASSUME NEW t \in Tasks, HandlerIsCancelled(t)
      PROVE  ShapeOK'
  <2>1. item[t] \in Events
    BY <1>9 DEF HandlerIsCancelled, ShapeOK, Handling
  <2>2. QED
    BY <1>9, <2>1 DEF HandlerIsCancelled, Abandon, Release, ShapeOK, Over, Handling
<1>10. CASE UNCHANGED vars
  BY <1>10 DEF vars, taskVars, historyVars, ShapeOK, Handling
<1>11. QED
  BY <1>1, <1>2, <1>3, <1>4, <1>5, <1>6, <1>7, <1>8, <1>9, <1>10 DEF Next, Consume

-----------------------------------------------------------------------------
(* The queue gives out its smallest event and takes in a larger one. *)
LEMMA TakeFirst ==
  ASSUME NEW s \in Seq(Nat), s # <<>>, Increasing(s)
  PROVE  /\ Increasing(Tail(s))
         /\ Elements(Tail(s)) = Elements(s) \ {Head(s)}
         /\ Head(s) \in Elements(s)
         /\ \A x \in Elements(s) : Head(s) <= x
<1>1. /\ Tail(s) \in Seq(Nat) /\ Len(Tail(s)) = Len(s) - 1
      /\ \A i \in 1 .. Len(s) - 1 : Tail(s)[i] = s[i + 1]
      /\ Len(s) \in Nat \ {0} /\ Head(s) = s[1]
  OBVIOUS
<1>2. DOMAIN s = 1 .. Len(s) /\ DOMAIN Tail(s) = 1 .. Len(s) - 1
  BY <1>1
<1>3. \A i \in 2 .. Len(s) : s[1] < s[i]
  BY <1>1, <1>2 DEF Increasing
<1>4. Increasing(Tail(s))
  <2> SUFFICES ASSUME NEW i \in 1 .. Len(s) - 1, NEW j \in 1 .. Len(s) - 1, i < j
               PROVE  Tail(s)[i] < Tail(s)[j]
    BY <1>2 DEF Increasing
  <2>1. i + 1 \in DOMAIN s /\ j + 1 \in DOMAIN s /\ i + 1 < j + 1
    BY <1>1, <1>2
  <2>2. s[i + 1] < s[j + 1]
    BY <2>1 DEF Increasing
  <2>3. QED
    BY <1>1, <2>2
<1>5. \A i \in 2 .. Len(s) : i - 1 \in DOMAIN Tail(s) /\ Tail(s)[i - 1] = s[i]
  BY <1>1, <1>2
<1>6. \A i \in 1 .. Len(s) : s[i] \in Nat
  BY <1>1
<1>7. Elements(Tail(s)) \subseteq Elements(s) \ {Head(s)}
  <2> SUFFICES ASSUME NEW i \in 1 .. Len(s) - 1
               PROVE  Tail(s)[i] \in Elements(s) \ {Head(s)}
    BY <1>2 DEF Elements
  <2>1. i + 1 \in 2 .. Len(s) /\ Tail(s)[i] = s[i + 1]
    BY <1>1
  <2>2. s[1] < s[i + 1] /\ s[1] \in Nat /\ s[i + 1] \in Nat /\ i + 1 \in DOMAIN s
    BY <1>1, <1>2, <1>3, <1>6, <2>1
  <2>3. QED
    BY <1>1, <2>1, <2>2 DEF Elements
<1>8. Elements(s) \ {Head(s)} \subseteq Elements(Tail(s))
  <2> SUFFICES ASSUME NEW i \in 1 .. Len(s), s[i] # s[1]
               PROVE  s[i] \in Elements(Tail(s))
    BY <1>1, <1>2 DEF Elements
  <2>1. i \in 2 .. Len(s)
    BY <1>1
  <2>2. QED
    BY <1>5, <2>1 DEF Elements
<1>9. \A x \in Elements(s) : Head(s) <= x
  BY <1>1, <1>2, <1>3, <1>6 DEF Elements
<1>10. Head(s) \in Elements(s)
  BY <1>1, <1>2 DEF Elements
<1>11. QED
  BY <1>4, <1>7, <1>8, <1>9, <1>10

(* A number above all others, appended, keeps them increasing. *)
LEMMA PutLast ==
  ASSUME NEW s \in Seq(Nat), NEW x \in Nat, Increasing(s), \A y \in Elements(s) : y < x
  PROVE  /\ Increasing(Append(s, x))
         /\ Elements(Append(s, x)) = Elements(s) \cup {x}
<1>1. /\ DOMAIN Append(s, x) = 1 .. Len(s) + 1
      /\ \A i \in 1 .. Len(s) : Append(s, x)[i] = s[i]
      /\ Append(s, x)[Len(s) + 1] = x
      /\ DOMAIN s = 1 .. Len(s) /\ Len(s) \in Nat
  OBVIOUS
<1>2. \A i \in 1 .. Len(s) : s[i] < x
  BY <1>1 DEF Elements
<1>3. Increasing(Append(s, x))
  BY <1>1, <1>2 DEF Increasing
<1>4. Elements(Append(s, x)) = Elements(s) \cup {x}
  BY <1>1 DEF Elements
<1>5. QED
  BY <1>3, <1>4

(* The queue of the bus, as the two lemmas need it. *)
LEMMA QueueOfNumbers ==
  ASSUME ShapeOK
  PROVE  queue \in Seq(Nat) /\ Elements(queue) \subseteq Events /\ Events \subseteq Nat
BY ConstantsAssumption DEF ShapeOK, Events, Elements

(* What is in the hands of tasks when one takes an event or lets it go. *)
LEMMA HandsHold ==
  ASSUME ShapeOK, NEW t \in Tasks, t \notin Handling, NEW e,
         pc' = [pc EXCEPT ![t] = "handling"], item' = [item EXCEPT ![t] = e]
  PROVE  /\ Handling' = Handling \cup {t}
         /\ item'[t] = e /\ \A u \in Handling : item'[u] = item[u]
         /\ InHand' = InHand \cup {e}
<1>1. /\ Handling' = Handling \cup {t}
      /\ item'[t] = e /\ \A u \in Handling : item'[u] = item[u]
  BY DEF ShapeOK, Handling
<1>2. InHand = {item[u] : u \in Handling} /\ InHand' = {item'[u] : u \in Handling'}
  BY DEF InHand, Handling
<1>3. QED
  BY <1>1, <1>2

(* A task that handles its event no more lets go of that event only. *)
LEMMA HandsLetGo ==
  ASSUME NEW t \in Handling, Handling' = Handling \ {t},
         \A u \in Tasks \ {t} : item'[u] = item[u],
         \A u, v \in Handling : item[u] = item[v] => u = v
  PROVE  InHand' = InHand \ {item[t]}
<1>1. InHand = {item[u] : u \in Handling} /\ InHand' = {item'[u] : u \in Handling'}
  BY DEF InHand, Handling
<1>2. Handling \subseteq Tasks
  BY DEF Handling
<1>3. InHand' = {item[u] : u \in Handling \ {t}}
  BY <1>1, <1>2
<1>4. QED
  BY <1>1, <1>3, ZenonT(60)

-----------------------------------------------------------------------------
(* The ways an event can go.  It leaves the queue and is settled at once,   *)
(* or is held by a task that held nothing; a held event is settled.         *)
Moves(t, e) ==
  /\ UNCHANGED <<published, refused, discarded>>
  /\ \/ /\ queue # <<>> /\ e = Head(queue) /\ queue' = Tail(queue)
        /\ Handling' = Handling /\ InHand' = InHand
        /\ done' \cup lost' = done \cup lost \cup {e}
        /\ \A u \in Handling : item'[u] = item[u]
     \/ /\ queue # <<>> /\ e = Head(queue) /\ queue' = Tail(queue)
        /\ t \notin Handling /\ Handling' = Handling \cup {t}
        /\ InHand' = InHand \cup {e}
        /\ UNCHANGED <<done, lost>>
        /\ item'[t] = e /\ \A u \in Handling : item'[u] = item[u]
     \/ /\ t \in Handling /\ e = item[t] /\ queue' = queue
        /\ Handling' = Handling \ {t} /\ InHand' = InHand \ {e}
        /\ done' \cup lost' = done \cup lost \cup {e}
        /\ \A u \in Handling' : item'[u] = item[u]

(* A task takes the head of the queue. *)
LEMMA TakeMoves ==
  ASSUME ShapeOK, EventsHaveOnePlace, NEW t \in Tasks, Take(t)
  PROVE  Moves(t, Head(queue))
<1> DEFINE e == Head(queue)
<1>1. /\ queue # <<>> /\ queue' = Tail(queue) /\ e \in Events
      /\ UNCHANGED <<published, refused, discarded>>
      /\ Work(t, e)
  BY ShapeOfHead DEF Take
<1>2. t \notin Handling
  BY DEF Take, Handling
<1> HIDE DEF e
<1>3. CASE Abandon(t, e, "crashed") \/ Finish(t, e)
  <2>1. /\ Handling' = Handling \ {t}
        /\ \A u \in Tasks \ {t} : item'[u] = item[u]
        /\ done' \cup lost' = done \cup lost \cup {e}
    BY <1>1, <1>3, ThroughWith DEF Over
  <2>2. Handling' = Handling /\ \A u \in Handling : item'[u] = item[u]
    BY <1>2, <2>1 DEF Handling
  <2>3. InHand' = InHand
    BY <2>2 DEF InHand, Handling
  <2>4. QED
    BY <1>1, <2>1, <2>2, <2>3 DEF Moves, e
<1>4. CASE /\ pc'   = [pc EXCEPT ![t] = "handling"]
           /\ item' = [item EXCEPT ![t] = e]
           /\ UNCHANGED <<done, lost>>
  BY <1>1, <1>2, <1>4, HandsHold DEF Moves, e
<1>5. QED
  BY <1>1, <1>3, <1>4 DEF Work, e

(* A handler ends or is cancelled: its task lets go of its event. *)
LEMMA HandlerMoves ==
  ASSUME ShapeOK, EventsHaveOnePlace, NEW t \in Tasks,
         \/ HandlerEnds(t) /\ Finish(t, item[t])
         \/ HandlerIsCancelled(t)
  PROVE  t \in Handling /\ Moves(t, item[t]) /\ Handling' = Handling \ {t}
<1>1. /\ t \in Handling /\ item[t] \in Events
      /\ queue' = queue
      /\ UNCHANGED <<published, refused, discarded>>
      /\ Finish(t, item[t]) \/ Abandon(t, item[t], "cancelled")
  BY DEF HandlerEnds, HandlerIsCancelled, Handling, ShapeOK
<1>2. /\ Handling' = Handling \ {t}
      /\ \A u \in Tasks \ {t} : item'[u] = item[u]
      /\ done' \cup lost' = done \cup lost \cup {item[t]}
  BY <1>1, ThroughWith DEF Over
<1>3. InHand' = InHand \ {item[t]}
  BY <1>1, <1>2, HandsLetGo DEF EventsHaveOnePlace
<1>4. \A u \in Handling' : item'[u] = item[u]
  BY <1>2 DEF Handling
<1>5. QED
  BY <1>1, <1>2, <1>3, <1>4 DEF Moves

(* While handlers are called one after the other, no event moves. *)
LEMMA CallsMoveNothing ==
  ASSUME NEW t \in Tasks, HandlerEnds(t), ~Finish(t, item[t])
  PROVE  UNCHANGED <<queue, unfinished, published, refused, done, lost, discarded, pc, item,
                     attached, list, handlers, doubled>>
BY DEF HandlerEnds

(* Every step keeps every event in one place. *)
LEMMA PlaceStep ==
  ShapeOK /\ EventsHaveOnePlace /\ [Next]_vars => EventsHaveOnePlace'
<1> SUFFICES ASSUME ShapeOK, EventsHaveOnePlace, [Next]_vars PROVE EventsHaveOnePlace'
  OBVIOUS
<1>0. /\ queue \in Seq(Nat) /\ Increasing(queue) /\ Events \subseteq Nat
      /\ Elements(queue) \subseteq Events
      /\ published \in Nat /\ published' \in Nat
  <2>1. published \in 0 .. MaxEvents /\ published' \in 0 .. MaxEvents
    BY ShapeStep DEF ShapeOK
  <2>2. QED
    BY <2>1, QueueOfNumbers, ConstantsAssumption DEF EventsHaveOnePlace
<1>1. CASE UNCHANGED <<queue, published, refused, Handling, item, Settled>>
  BY <1>1 DEF EventsHaveOnePlace, InHand, Handling, Accepted
<1>2. CASE Publish
  <2>1. /\ published' = published + 1
        /\ UNCHANGED <<Handling, item, Settled, InHand>>
    BY <1>2 DEF Publish, taskVars, Handling, Settled, InHand
  <2>2. \A x \in Accepted : x < published'
    BY <1>0, <2>1 DEF Accepted
  <2>3. CASE refused' = refused \cup {published'} /\ queue' = queue
    <3>1. Accepted' = Accepted
      BY <1>0, <2>1, <2>3 DEF Accepted, EventsHaveOnePlace
    <3>2. QED
      BY <1>0, <2>1, <2>3, <3>1 DEF EventsHaveOnePlace
  <2>4. CASE refused' = refused /\ queue' = Append(queue, published')
    <3>1. published' \notin refused
      BY <1>0, <2>1 DEF EventsHaveOnePlace
    <3>2. Accepted' = Accepted \cup {published'}
      BY <1>0, <2>1, <2>4, <3>1 DEF Accepted
    <3>3. \A x \in Elements(queue) \cup InHand \cup Settled : x < published'
      BY <2>2 DEF EventsHaveOnePlace
    <3>4. Increasing(queue') /\ Elements(queue') = Elements(queue) \cup {published'}
      BY <1>0, <2>4, <3>3, PutLast
    <3>5. published' \notin InHand \cup Settled
      BY <1>0, <3>3
    <3>6. refused' \subseteq 1 .. published'
      BY <1>0, <2>1, <2>4 DEF EventsHaveOnePlace
    <3>7. QED
      BY <2>1, <3>2, <3>4, <3>5, <3>6 DEF EventsHaveOnePlace
  <2>5. QED
    BY <1>2, <2>3, <2>4 DEF Publish
<1>3. CASE Reset
  <2>1. /\ UNCHANGED <<Handling, item, InHand, published, refused, Accepted>>
        /\ Settled' = Settled \cup Elements(queue)
        /\ queue' = <<>>
    BY <1>3 DEF Reset, Handling, InHand, Accepted, Settled
  <2>2. Increasing(queue') /\ Elements(queue') = {}
    BY <2>1 DEF Increasing, Elements
  <2>3. QED
    BY <2>1, <2>2 DEF EventsHaveOnePlace
<1>4. ASSUME NEW t \in Tasks, NEW e, Moves(t, e)
      PROVE  EventsHaveOnePlace'
  <2>1. /\ UNCHANGED <<published, refused, Accepted>>
        /\ discarded' = discarded
    BY <1>4 DEF Moves, Accepted
  <2>2. ASSUME queue # <<>>, e = Head(queue), queue' = Tail(queue)
        PROVE  /\ Increasing(queue')
               /\ Elements(queue') = Elements(queue) \ {e}
               /\ e \in Elements(queue)
    BY <1>0, <2>2, TakeFirst
  <2>3. CASE /\ queue # <<>> /\ e = Head(queue) /\ queue' = Tail(queue)
             /\ Handling' = Handling /\ InHand' = InHand
             /\ done' \cup lost' = done \cup lost \cup {e}
             /\ \A u \in Handling : item'[u] = item[u]
    <3>1. Settled' = Settled \cup {e}
      BY <2>1, <2>3 DEF Settled
    <3>2. QED
      BY <2>1, <2>2, <2>3, <3>1 DEF EventsHaveOnePlace
  <2>4. CASE /\ queue # <<>> /\ e = Head(queue) /\ queue' = Tail(queue)
             /\ t \notin Handling /\ Handling' = Handling \cup {t}
             /\ InHand' = InHand \cup {e}
             /\ UNCHANGED <<done, lost>>
             /\ item'[t] = e /\ \A u \in Handling : item'[u] = item[u]
    <3>1. Settled' = Settled
      BY <2>1, <2>4 DEF Settled
    <3>2. \A u \in Handling : item[u] # e
      BY <2>2, <2>4 DEF EventsHaveOnePlace, InHand, Handling
    <3>3. \A u, v \in Handling' : item'[u] = item'[v] => u = v
      BY <2>4, <3>2 DEF EventsHaveOnePlace
    <3>4. QED
      BY <2>1, <2>2, <2>4, <3>1, <3>3 DEF EventsHaveOnePlace
  <2>5. CASE /\ t \in Handling /\ e = item[t] /\ queue' = queue
             /\ Handling' = Handling \ {t} /\ InHand' = InHand \ {e}
             /\ done' \cup lost' = done \cup lost \cup {e}
             /\ \A u \in Handling' : item'[u] = item[u]
    <3>1. Settled' = Settled \cup {e}
      BY <2>1, <2>5 DEF Settled
    <3>2. e \in InHand
      BY <2>5 DEF InHand, Handling
    <3>3. QED
      BY <1>0, <2>1, <2>5, <3>1, <3>2 DEF EventsHaveOnePlace
  <2>6. QED
    BY <1>4, <2>3, <2>4, <2>5 DEF Moves
<1>5. ASSUME NEW t \in Tasks, HandlerEnds(t)
      PROVE  EventsHaveOnePlace'
  <2>1. CASE Finish(t, item[t])
    BY <1>4, <1>5, <2>1, HandlerMoves
  <2>2. CASE ~Finish(t, item[t])
    <3>1. UNCHANGED <<queue, published, refused, Handling, item, Settled>>
      BY <1>5, <2>2, CallsMoveNothing DEF Handling, Settled
    <3>2. QED
      BY <1>1, <3>1
  <2>3. QED
    BY <2>1, <2>2
<1>6. CASE Idles
  BY <1>1, <1>6 DEF Idles, Settled
<1>7. ASSUME NEW t \in Tasks, Consume(t)
      PROVE  EventsHaveOnePlace'
  <2>1. CASE Take(t)
    BY <1>4, <2>1, TakeMoves
  <2>2. CASE HandlerIsCancelled(t)
    BY <1>4, <2>2, HandlerMoves
  <2>3. CASE Begin(t) \/ TimeOut(t) \/ WaitIsCancelled(t)
    BY <1>6, <2>3, IdleSteps
  <2>4. QED
    BY <1>5, <1>7, <2>1, <2>2, <2>3 DEF Consume
<1>8. CASE \/ \E h \in Handlers : Subscribe(h)
           \/ \E t \in Tasks : Start(t)
           \/ Stop
           \/ UNCHANGED vars
  BY <1>6, <1>8, IdleSteps
<1>9. QED
  BY <1>2, <1>3, <1>7, <1>8 DEF Next

-----------------------------------------------------------------------------
(* The open count of the queue counts the events that wait, those in hand,  *)
(* and those a consumer died with, for which task_done() is never called.   *)
CountIsOpen ==
  /\ IsFiniteSet(Handling)
  /\ unfinished = Len(queue) + Cardinality(Handling) + Cardinality(lost)

(* Lost events can be counted. *)
LEMMA LostIsFinite ==
  ASSUME ShapeOK
  PROVE  /\ IsFiniteSet(lost) /\ Cardinality(lost) \in Nat
         /\ \A e \in Events \ lost : Cardinality(lost \cup {e}) = Cardinality(lost) + 1
<1>1. IsFiniteSet(Events)
  BY ConstantsAssumption, FS_Interval DEF Events
<1>2. IsFiniteSet(lost)
  BY <1>1, FS_Subset DEF ShapeOK
<1>3. QED
  BY <1>2, FS_CardinalityType, FS_AddElement

(* So can the tasks that handle one. *)
LEMMA HandsAreCounted ==
  ASSUME IsFiniteSet(Handling)
  PROVE  /\ Cardinality(Handling) \in Nat
         /\ \A t : t \notin Handling =>
              /\ IsFiniteSet(Handling \cup {t})
              /\ Cardinality(Handling \cup {t}) = Cardinality(Handling) + 1
         /\ \A t \in Handling :
              /\ IsFiniteSet(Handling \ {t})
              /\ Cardinality(Handling \ {t}) = Cardinality(Handling) - 1
              /\ Cardinality(Handling) >= 1
<1>1. Cardinality(Handling) \in Nat
  BY FS_CardinalityType
<1>2. \A t : t \notin Handling =>
        /\ IsFiniteSet(Handling \cup {t})
        /\ Cardinality(Handling \cup {t}) = Cardinality(Handling) + 1
  BY FS_AddElement
<1>3. ASSUME NEW t \in Handling
      PROVE  /\ IsFiniteSet(Handling \ {t})
             /\ Cardinality(Handling \ {t}) = Cardinality(Handling) - 1
             /\ Cardinality(Handling) >= 1
  <2>1. /\ IsFiniteSet(Handling \ {t})
        /\ Cardinality(Handling \ {t}) = Cardinality(Handling) - 1
    BY FS_RemoveElement
  <2>2. Cardinality(Handling \ {t}) \in Nat
    BY <2>1, FS_CardinalityType
  <2>3. QED
    BY <1>1, <2>1, <2>2
<1>4. QED
  BY <1>1, <1>2, <1>3

(* Every step keeps the count of open events. *)
LEMMA CountStep ==
  ShapeOK /\ EventsHaveOnePlace /\ CountIsOpen /\ [Next]_vars => CountIsOpen'
<1> SUFFICES ASSUME ShapeOK, EventsHaveOnePlace, CountIsOpen, [Next]_vars PROVE CountIsOpen'
  OBVIOUS
<1>0. /\ IsFiniteSet(Handling) /\ Cardinality(Handling) \in Nat
      /\ Cardinality(lost) \in Nat /\ Len(queue) \in Nat
      /\ unfinished = Len(queue) + Cardinality(Handling) + Cardinality(lost)
  BY LostIsFinite, HandsAreCounted DEF CountIsOpen, ShapeOK
<1>1. CASE Publish
  <2>1. UNCHANGED <<Handling, lost>>
    BY <1>1 DEF Publish, taskVars, Handling
  <2>2. CASE UNCHANGED <<queue, unfinished>>
    BY <1>0, <2>1, <2>2 DEF CountIsOpen
  <2>3. CASE queue' = Append(queue, published') /\ unfinished' = unfinished + 1
    <3>1. Len(queue') = Len(queue) + 1
      BY <2>3 DEF ShapeOK
    <3>2. QED
      BY <1>0, <2>1, <2>3, <3>1 DEF CountIsOpen
  <2>4. QED
    BY <1>1, <2>2, <2>3 DEF Publish
<1>2. CASE Reset
  <2>1. /\ UNCHANGED <<Handling, lost>>
        /\ Len(queue') = 0
        /\ unfinished' = unfinished - Len(queue)
    BY <1>2 DEF Reset, Handling
  <2>2. QED
    BY <1>0, <2>1 DEF CountIsOpen
<1>3. ASSUME NEW t \in Tasks, Take(t)
      PROVE  CountIsOpen'
  <2> DEFINE e == Head(queue)
  <2>1. queue # <<>> /\ queue' = Tail(queue) /\ Work(t, e) /\ t \notin Handling
    BY <1>3 DEF Take, Handling
  <2>2. Len(queue') = Len(queue) - 1
    BY <2>1 DEF ShapeOK
  <2>3. e \in Events /\ e \notin lost
    <3>1. e \in Elements(queue)
      BY <2>1, QueueOfNumbers, TakeFirst DEF EventsHaveOnePlace
    <3>2. QED
      BY <3>1, QueueOfNumbers DEF EventsHaveOnePlace, Settled
  <2> HIDE DEF e
  <2>4. CASE Abandon(t, e, "crashed")
    <3>1. Handling' = Handling \ {t}
      BY <2>3, <2>4, ThroughWith DEF Over
    <3>2. Handling' = Handling
      BY <2>1, <3>1
    <3>3. lost' = lost \cup {e} /\ unfinished' = unfinished
      BY <2>4 DEF Abandon
    <3>4. Cardinality(lost') = Cardinality(lost) + 1
      BY <2>3, <3>3, LostIsFinite
    <3>5. QED
      BY <1>0, <2>2, <3>2, <3>3, <3>4 DEF CountIsOpen
  <2>5. CASE Finish(t, e)
    <3>1. Handling' = Handling \ {t}
      BY <2>3, <2>5, ThroughWith DEF Over
    <3>2. Handling' = Handling
      BY <2>1, <3>1
    <3>3. lost' = lost /\ unfinished' = unfinished - 1
      BY <2>5 DEF Finish
    <3>4. QED
      BY <1>0, <2>2, <3>2, <3>3 DEF CountIsOpen
  <2>6. CASE /\ pc'   = [pc EXCEPT ![t] = "handling"]
             /\ item' = [item EXCEPT ![t] = e]
             /\ UNCHANGED <<unfinished, lost>>
    <3>1. Handling' = Handling \cup {t}
      BY <2>1, <2>6, HandsHold
    <3>2. IsFiniteSet(Handling') /\ Cardinality(Handling') = Cardinality(Handling) + 1
      BY <1>0, <2>1, <3>1, HandsAreCounted
    <3>3. QED
      BY <1>0, <2>2, <2>6, <3>2 DEF CountIsOpen
  <2>7. QED
    BY <2>1, <2>4, <2>5, <2>6 DEF Work
<1>4. ASSUME NEW t \in Tasks,
             \/ HandlerEnds(t) /\ Finish(t, item[t])
             \/ HandlerIsCancelled(t)
      PROVE  CountIsOpen'
  <2>1. t \in Handling /\ Moves(t, item[t])
    BY <1>4, HandlerMoves
  <2>2. Handling' = Handling \ {t}
    BY <1>4, HandlerMoves
  <2>3. /\ IsFiniteSet(Handling') /\ Cardinality(Handling') = Cardinality(Handling) - 1
        /\ Cardinality(Handling) >= 1
    BY <1>0, <2>1, <2>2, HandsAreCounted
  <2>4. queue' = queue
    BY <1>4 DEF HandlerEnds, HandlerIsCancelled
  <2>5. CASE HandlerEnds(t) /\ Finish(t, item[t])
    BY <1>0, <2>3, <2>4, <2>5 DEF Finish, CountIsOpen
  <2>6. CASE HandlerIsCancelled(t)
    <3>1. lost' = lost \cup {item[t]} /\ unfinished' = unfinished
      BY <2>6 DEF HandlerIsCancelled, Abandon
    <3>2. item[t] \in Events /\ item[t] \notin lost
      BY <2>1 DEF ShapeOK, EventsHaveOnePlace, Settled, InHand, Handling
    <3>3. Cardinality(lost') = Cardinality(lost) + 1
      BY <3>1, <3>2, LostIsFinite
    <3>4. QED
      BY <1>0, <2>3, <2>4, <3>1, <3>3 DEF CountIsOpen
  <2>7. QED
    BY <1>4, <2>5, <2>6
<1>5. ASSUME NEW t \in Tasks, HandlerEnds(t), ~Finish(t, item[t])
      PROVE  CountIsOpen'
  <2>1. UNCHANGED <<queue, unfinished, lost, Handling>>
    BY <1>5, CallsMoveNothing DEF Handling
  <2>2. QED
    BY <1>0, <2>1 DEF CountIsOpen
<1>6. CASE Idles
  BY <1>0, <1>6 DEF Idles, CountIsOpen
<1>7. QED
  BY <1>1, <1>2, <1>3, <1>4, <1>5, <1>6, IdleSteps DEF Next, Consume

-----------------------------------------------------------------------------
(* Without a second start() only one consumer is alive, so an event that is *)
(* taken finds no other one being handled.                                  *)
Alone == ~doubled => \A t, u \in Tasks : Alive(t) /\ Alive(u) => t = u

(* Only Start makes a task alive. *)
LEMMA NobodyWakes ==
  ASSUME ShapeOK, [Next]_vars, \A t \in Tasks : ~Start(t)
  PROVE  doubled' = doubled /\ \A t \in Tasks : Alive(t)' => Alive(t)
<1>1. CASE pc' = pc /\ doubled' = doubled
  BY <1>1 DEF Alive
<1>2. ASSUME NEW t \in Tasks, Consume(t)
      PROVE  /\ doubled' = doubled /\ Alive(t)
             /\ \A u \in Tasks \ {t} : pc'[u] = pc[u]
  <2>1. pc[t] \in {"ready", "waiting", "handling"} /\ doubled' = doubled
    BY <1>2 DEF Consume, Begin, Take, TimeOut, WaitIsCancelled, HandlerEnds,
                HandlerIsCancelled, historyVars
  <2>2. pc' = pc \/ \E new : pc' = [pc EXCEPT ![t] = new]
    BY <1>2 DEF Consume, Begin, Take, Work, TimeOut, WaitIsCancelled, HandlerEnds,
                HandlerIsCancelled, Finish, Abandon
  <2>3. QED
    BY <2>1, <2>2 DEF Alive, Over, ShapeOK
<1>3. CASE \E t \in Tasks : Consume(t)
  BY <1>2, <1>3 DEF Alive
<1>4. QED
  BY <1>1, <1>3 DEF Next, vars, taskVars, historyVars, Publish, Subscribe, Stop, Reset

(* Every step keeps a consumer alone while none was doubled. *)
LEMMA AloneStep == ShapeOK /\ Alone /\ [Next]_vars => Alone'
<1> SUFFICES ASSUME ShapeOK, Alone, [Next]_vars PROVE Alone'
  OBVIOUS
<1>1. ASSUME NEW t \in Tasks, Start(t)
      PROVE  Alone'
  <2>1. /\ doubled' = (doubled \/ \E u \in Tasks : Alive(u))
        /\ \A u \in Tasks \ {t} : pc'[u] = pc[u]
    BY <1>1 DEF Start, ShapeOK
  <2>2. QED
    BY <2>1 DEF Alone, Alive
<1>2. CASE \A t \in Tasks : ~Start(t)
  BY <1>2, NobodyWakes DEF Alone
<1>3. QED
  BY <1>1, <1>2

(* The two halves of InOrder, for events of any priority: the code reads    *)
(* none.                                                                    *)
TakenInOrder ==
  \A i, j \in Accepted : i < j /\ j \notin Elements(queue) => i \notin Elements(queue)
OneAtATime ==
  \A i, j \in Accepted :
    i < j /\ j \notin Elements(queue) \cup discarded /\ ~doubled
      => i \in done \cup lost \cup discarded

(* Every step keeps the order in which events are taken. *)
LEMMA TakenStep ==
  ShapeOK /\ EventsHaveOnePlace /\ TakenInOrder /\ [Next]_vars => TakenInOrder'
<1> SUFFICES ASSUME ShapeOK, EventsHaveOnePlace, TakenInOrder, [Next]_vars
             PROVE  TakenInOrder'
  OBVIOUS
<1>0. published \in Nat /\ \A x \in Accepted : x \in Nat
  BY ConstantsAssumption DEF ShapeOK, Accepted
<1>1. CASE Accepted' = Accepted /\ (Elements(queue') = Elements(queue) \/ Elements(queue') = {})
  BY <1>1 DEF TakenInOrder
<1>2. CASE Publish
  <2>1. published' = published + 1
    BY <1>2 DEF Publish
  <2>2. CASE refused' = refused \cup {published'} /\ queue' = queue
    <3>1. Accepted' = Accepted
      BY <1>0, <2>1, <2>2 DEF Accepted, EventsHaveOnePlace
    <3>2. QED
      BY <1>1, <2>2, <3>1
  <2>3. CASE refused' = refused /\ queue' = Append(queue, published')
    <3>1. queue \in Seq(Nat) /\ published' \in Nat
      BY <1>0, <2>1, QueueOfNumbers
    <3>2. \A x \in Elements(queue) : x < published'
      BY <1>0, <2>1 DEF EventsHaveOnePlace, Accepted
    <3>3. Elements(queue') = Elements(queue) \cup {published'}
      BY <2>3, <3>1, <3>2, PutLast DEF EventsHaveOnePlace
    <3>4. \A x \in Accepted' : x = published' \/ (x \in Accepted /\ x < published')
      BY <1>0, <2>1, <2>3 DEF Accepted
    <3>5. SUFFICES ASSUME NEW i \in Accepted', NEW j \in Accepted', i < j,
                          j \notin Elements(queue')
                   PROVE  i \notin Elements(queue')
      BY DEF TakenInOrder
    <3>6. j \in Accepted /\ j < published' /\ j \notin Elements(queue)
      BY <3>3, <3>4, <3>5
    <3>7. i \in Accepted /\ i # published'
      BY <1>0, <3>1, <3>4, <3>5, <3>6
    <3>8. QED
      BY <3>3, <3>5, <3>6, <3>7 DEF TakenInOrder
  <2>4. QED
    BY <1>2, <2>2, <2>3 DEF Publish
<1>3. CASE Reset
  BY <1>1, <1>3 DEF Reset, Accepted, Elements
<1>4. ASSUME NEW t \in Tasks, Take(t)
      PROVE  TakenInOrder'
  <2> DEFINE e == Head(queue)
  <2>1. queue # <<>> /\ queue' = Tail(queue) /\ Accepted' = Accepted
    BY <1>4 DEF Take, Accepted
  <2>2. /\ Elements(queue') = Elements(queue) \ {e}
        /\ \A x \in Elements(queue) : e <= x
    BY <2>1, QueueOfNumbers, TakeFirst DEF EventsHaveOnePlace
  <2>3. Elements(queue) \subseteq Accepted
    BY DEF EventsHaveOnePlace
  <2> HIDE DEF e
  <2>4. SUFFICES ASSUME NEW i \in Accepted, NEW j \in Accepted, i < j,
                        j \notin Elements(queue')
                 PROVE  i \notin Elements(queue')
    BY <2>1 DEF TakenInOrder
  <2>5. CASE j # e
    BY <2>2, <2>4, <2>5 DEF TakenInOrder
  <2>6. CASE j = e
    BY <1>0, <2>2, <2>4, <2>6
  <2>7. QED
    BY <2>5, <2>6
<1>5. ASSUME NEW t \in Tasks, HandlerEnds(t) \/ HandlerIsCancelled(t)
      PROVE  TakenInOrder'
  BY <1>1, <1>5 DEF HandlerEnds, HandlerIsCancelled, Accepted
<1>6. CASE Idles
  BY <1>1, <1>6 DEF Idles, Accepted
<1>7. QED
  BY <1>2, <1>3, <1>4, <1>5, <1>6, IdleSteps DEF Next, Consume

(* Every step keeps the order of the events that are over. *)
LEMMA OrderStep ==
  ShapeOK /\ EventsHaveOnePlace /\ Alone /\ OneAtATime /\ [Next]_vars => OneAtATime'
<1> SUFFICES ASSUME ShapeOK, EventsHaveOnePlace, Alone, OneAtATime, [Next]_vars
             PROVE  OneAtATime'
  OBVIOUS
<1>0. /\ doubled => doubled'
      /\ \A x \in Accepted : x \in Nat
      /\ published \in Nat
  <2>1. doubled => doubled'
    BY NobodyWakes DEF Start
  <2>2. published \in Nat
    BY ConstantsAssumption DEF ShapeOK
  <2>3. QED
    BY <2>1, <2>2 DEF Accepted
<1>1. CASE /\ Accepted' = Accepted
           /\ Elements(queue) \cup discarded \subseteq (Elements(queue) \cup discarded)'
           /\ Settled \subseteq Settled'
  BY <1>0, <1>1 DEF OneAtATime, Settled
<1>2. CASE Publish
  <2>1. /\ published' = published + 1
        /\ UNCHANGED <<Settled, discarded>>
    BY <1>2 DEF Publish, Settled
  <2>2. CASE refused' = refused \cup {published'} /\ queue' = queue
    <3>1. Accepted' = Accepted
      BY <1>0, <2>1, <2>2 DEF Accepted, EventsHaveOnePlace
    <3>2. QED
      BY <1>1, <2>1, <2>2, <3>1
  <2>3. CASE refused' = refused /\ queue' = Append(queue, published')
    <3>1. queue \in Seq(Nat) /\ published' \in Nat
      BY <1>0, <2>1, QueueOfNumbers
    <3>2. Elements(queue') = Elements(queue) \cup {published'}
      <4>1. \A x \in Elements(queue) : x < published'
        BY <1>0, <2>1 DEF EventsHaveOnePlace, Accepted
      <4>2. QED
        BY <2>3, <3>1, <4>1, PutLast DEF EventsHaveOnePlace
    <3>3. \A x \in Accepted' : x = published' \/ (x \in Accepted /\ x < published')
      BY <1>0, <2>1, <2>3 DEF Accepted
    <3>4. SUFFICES ASSUME NEW i \in Accepted', NEW j \in Accepted', i < j,
                          j \notin Elements(queue') \cup discarded', ~doubled'
                   PROVE  i \in Settled'
      BY DEF OneAtATime, Settled
    <3>5. j \in Accepted /\ j < published'
      BY <3>2, <3>3, <3>4
    <3>6. i \in Accepted
      BY <1>0, <3>1, <3>3, <3>4, <3>5
    <3>7. QED
      BY <1>0, <2>1, <3>2, <3>4, <3>5, <3>6 DEF OneAtATime, Settled
  <2>4. QED
    BY <1>2, <2>2, <2>3 DEF Publish
<1>3. CASE Reset
  <2>1. UNCHANGED <<Accepted>> /\ discarded' = discarded \cup Elements(queue)
    BY <1>3 DEF Reset, Accepted
  <2>2. Settled \subseteq Settled'
    BY <1>3 DEF Reset, Settled
  <2>3. QED
    BY <1>1, <2>1, <2>2
<1>4. ASSUME NEW t \in Tasks, Take(t)
      PROVE  OneAtATime'
  <2> DEFINE e == Head(queue)
  <2>1. /\ queue # <<>> /\ queue' = Tail(queue) /\ Alive(t) /\ t \notin Handling
        /\ UNCHANGED <<Accepted, discarded, doubled>>
    BY <1>4 DEF Take, Alive, Over, Handling, Accepted
  <2>2. /\ Elements(queue') = Elements(queue) \ {e}
        /\ \A x \in Elements(queue) : e <= x
    BY <2>1, QueueOfNumbers, TakeFirst DEF EventsHaveOnePlace
  <2> HIDE DEF e
  <2>3. Settled \subseteq Settled'
    BY <1>4 DEF Take, Work, Abandon, Finish, Settled
  <2>4. SUFFICES ASSUME NEW i \in Accepted, NEW j \in Accepted, i < j,
                        j \notin Elements(queue') \cup discarded, ~doubled
                 PROVE  i \in Settled
    BY <2>1, <2>3 DEF OneAtATime, Settled
  <2>5. CASE j # e
    BY <2>2, <2>4, <2>5 DEF OneAtATime, Settled
  <2>6. CASE j = e
    <3>1. i \notin Elements(queue)
      BY <1>0, <2>2, <2>4, <2>6
    <3>2. Handling = {}
      BY <2>1, <2>4 DEF Alone, Alive, Handling, Over
    <3>3. InHand = {}
      BY <3>2 DEF InHand, Handling
    <3>4. QED
      BY <3>1, <3>3 DEF EventsHaveOnePlace
  <2>7. QED
    BY <2>5, <2>6
<1>5. ASSUME NEW t \in Tasks, HandlerEnds(t) \/ HandlerIsCancelled(t)
      PROVE  OneAtATime'
  <2>1. UNCHANGED <<queue, published, refused, discarded>>
    BY <1>5 DEF HandlerEnds, HandlerIsCancelled
  <2>2. Settled \subseteq Settled'
    BY <1>5 DEF HandlerEnds, HandlerIsCancelled, Finish, Abandon, Settled
  <2>3. QED
    BY <1>1, <2>1, <2>2 DEF Accepted
<1>6. CASE Idles
  BY <1>1, <1>6 DEF Idles, Accepted, Settled
<1>7. QED
  BY <1>2, <1>3, <1>4, <1>5, <1>6, IdleSteps DEF Next, Consume

-----------------------------------------------------------------------------
(* The handlers a task runs through, and what has been called of them: an   *)
(* event nobody holds and that is not settled was given to no handler, and  *)
(* one in hand to no handler beyond the place the task has come to.         *)
NoTwins(s) == \A i, j \in DOMAIN s : s[i] = s[j] => i = j
Hs(t) == IF attached[t] THEN handlers ELSE list[t]

CallsGoForward ==
  \A t \in Handling, h \in Handlers :
    got[h][item[t]] = 0 \/ \E i \in 1 .. at[t] : i \in DOMAIN Hs(t) /\ Hs(t)[i] = h

SeenOnce ==
  /\ NoTwins(handlers)
  /\ \A t \in Tasks : NoTwins(list[t])
  /\ \A h \in Handlers, e \in Events :
       /\ got[h][e] <= 1
       /\ e \notin InHand \cup Settled => got[h][e] = 0
  /\ CallsGoForward

(* A new handler comes last, where no task that iterates has been. *)
LEMMA SubscribeStep ==
  ASSUME ShapeOK, SeenOnce, NEW h \in Handlers, Subscribe(h)
  PROVE  SeenOnce'
<1>1. /\ handlers \in Seq(Handlers) /\ handlers' = Append(handlers, h)
      /\ UNCHANGED <<attached, list, at, got, item, Handling, InHand, Settled>>
  BY DEF Subscribe, taskVars, historyVars, ShapeOK, Handling, InHand, Settled
<1>2. /\ DOMAIN handlers = 1 .. Len(handlers) /\ Len(handlers) \in Nat
      /\ DOMAIN handlers' = 1 .. Len(handlers) + 1
      /\ \A i \in 1 .. Len(handlers) : handlers'[i] = handlers[i]
      /\ handlers'[Len(handlers) + 1] = h
  BY <1>1
<1>3. \A i \in DOMAIN handlers : handlers[i] # h
  BY DEF Subscribe, Elements
<1>4. NoTwins(handlers')
  BY <1>2, <1>3 DEF NoTwins, SeenOnce
<1>5. \A t \in Tasks : \A i \in DOMAIN Hs(t) : i \in DOMAIN (Hs(t)') /\ Hs(t)'[i] = Hs(t)[i]
  BY <1>1, <1>2 DEF Hs
<1>6. CallsGoForward'
  BY <1>1, <1>5 DEF SeenOnce, CallsGoForward, Handling
<1>7. QED
  BY <1>1, <1>4, <1>6 DEF SeenOnce

(* reset() leaves a task that iterates with the list it has. *)
LEMMA ResetStep ==
  ASSUME ShapeOK, SeenOnce, Reset
  PROVE  SeenOnce'
<1>1. /\ handlers' = <<>>
      /\ list' = [t \in Tasks |-> Hs(t)]
      /\ attached' = [t \in Tasks |-> FALSE]
      /\ UNCHANGED <<at, got, item, Handling, InHand>>
      /\ Settled \subseteq Settled'
  BY DEF Reset, Hs, Handling, InHand, Settled
<1>2. \A t \in Tasks : Hs(t)' = Hs(t) /\ NoTwins(list'[t])
  BY <1>1 DEF Hs, SeenOnce
<1>3. CallsGoForward'
  BY <1>1, <1>2 DEF SeenOnce, CallsGoForward, Handling
<1>4. NoTwins(handlers')
  BY <1>1 DEF NoTwins
<1>5. QED
  BY <1>1, <1>2, <1>3, <1>4 DEF SeenOnce

(* A task that lets an event go calls nobody. *)
LEMMA ThroughStep ==
  ASSUME ShapeOK, SeenOnce, NEW t \in Tasks, NEW e \in Events, Moves(t, e),
         Finish(t, e) \/ \E how \in Over : Abandon(t, e, how),
         UNCHANGED <<handlers, discarded>>
  PROVE  SeenOnce'
<1>1. /\ got' = got
      /\ Handling' = Handling \ {t}
      /\ \A u \in Tasks \ {t} : /\ item'[u] = item[u] /\ attached'[u] = attached[u]
                                /\ list'[u] = list[u] /\ at'[u] = at[u]
      /\ list'[t] = <<>>
      /\ Settled' = Settled \cup {e}
  BY ThroughWith DEF Settled
<1>2. InHand \cup Settled \subseteq InHand' \cup Settled'
  <2>1. InHand \subseteq InHand' \cup {e}
    BY DEF Moves
  <2>2. QED
    BY <1>1, <2>1
<1>3. \A u \in Tasks : NoTwins(list'[u])
  BY <1>1 DEF SeenOnce, NoTwins
<1>4. \A u \in Handling' : u \in Handling /\ u \in Tasks \ {t}
  BY <1>1 DEF Handling
<1>5. \A u \in Handling' : Hs(u)' = Hs(u) /\ at'[u] = at[u] /\ item'[u] = item[u]
  BY <1>1, <1>4 DEF Hs
<1>6. CallsGoForward'
  BY <1>1, <1>4, <1>5 DEF SeenOnce, CallsGoForward
<1>7. QED
  BY <1>1, <1>2, <1>3, <1>6 DEF SeenOnce

(* A call of the next handler: it has not been called with this event, nor  *)
(* has any other task this event in its hands.                              *)
LEMMA CallStep ==
  ASSUME ShapeOK, SeenOnce, NEW t \in Tasks, NEW e \in Events,
         NEW hs \in Seq(Handlers), NEW i \in 1 .. Len(hs), Call(t, e, hs, i),
         got[hs[i]][e] = 0,
         t \in Handling', item'[t] = e, Hs(t)' = hs,
         \A h \in Handlers : got[h][e] = 0 \/ \E j \in 1 .. i : j \in DOMAIN hs /\ hs[j] = h,
         \A u \in Handling' \ {t} : /\ u \in Handling /\ item[u] # e
                                    /\ item'[u] = item[u] /\ Hs(u)' = Hs(u),
         InHand \cup Settled \subseteq InHand' \cup Settled',
         UNCHANGED <<handlers, list>>
  PROVE  SeenOnce'
<1>1. /\ hs[i] \in Handlers
      /\ got'[hs[i]][e] = 1
      /\ \A h \in Handlers, d \in Events :
           <<h, d>> # <<hs[i], e>> => got'[h][d] = got[h][d]
  <2>1. /\ hs[i] \in Handlers
        /\ got'[hs[i]][e] = got[hs[i]][e] + 1
        /\ \A h \in Handlers, d \in Events :
             <<h, d>> # <<hs[i], e>> => got'[h][d] = got[h][d]
    <3>1. ShapeOK /\ hs \in Seq(Handlers) /\ i \in 1 .. Len(hs) /\ Call(t, e, hs, i)
      OBVIOUS
    <3>2. QED
      <4>1. Counted(hs[i], e)
        BY ONLY <3>1, e \in Events, CallCounts
      <4>2. QED
        BY ONLY <4>1 DEF Counted
  <2>2. got'[hs[i]][e] = 0 + 1
    BY <2>1
  <2>3. QED
    BY <2>1, <2>2
<1>2. at'[t] = i /\ \A u \in Tasks \ {t} : at'[u] = at[u]
  BY DEF Call, ShapeOK
<1>3. e \in InHand'
  BY DEF InHand, Handling
<1>4. \A h \in Handlers, d \in Events :
        /\ got'[h][d] <= 1
        /\ d \notin InHand' \cup Settled' => got'[h][d] = 0
  <2> SUFFICES ASSUME NEW h \in Handlers, NEW d \in Events
               PROVE  /\ got'[h][d] <= 1
                      /\ d \notin InHand' \cup Settled' => got'[h][d] = 0
    OBVIOUS
  <2>1. CASE <<h, d>> = <<hs[i], e>>
    BY <1>1, <1>3, <2>1
  <2>2. CASE <<h, d>> # <<hs[i], e>>
    BY <1>1, <2>2 DEF SeenOnce
  <2>3. QED
    BY <2>1, <2>2
<1>5. CallsGoForward'
  <2> SUFFICES ASSUME NEW u \in Handling', NEW h \in Handlers
               PROVE  \/ got'[h][item'[u]] = 0
                      \/ \E j \in 1 .. at'[u] : j \in DOMAIN Hs(u)' /\ Hs(u)'[j] = h
    BY DEF CallsGoForward
  <2>1. CASE u = t
    <3>1. CASE h = hs[i]
      BY <1>2, <2>1, <3>1
    <3>2. CASE h # hs[i]
      BY <1>1, <1>2, <2>1, <3>2
    <3>3. QED
      BY <3>1, <3>2
  <2>2. CASE u # t
    <3>1. u \in Handling /\ item[u] \in Events /\ item[u] # e
      BY <2>2 DEF ShapeOK
    <3>2. got'[h][item[u]] = got[h][item[u]] /\ at'[u] = at[u]
      BY <1>1, <1>2, <2>2, <3>1 DEF Handling
    <3>3. got[h][item[u]] = 0 \/ \E j \in 1 .. at[u] : j \in DOMAIN Hs(u) /\ Hs(u)[j] = h
      BY <3>1 DEF SeenOnce, CallsGoForward
    <3>4. item'[u] = item[u] /\ Hs(u)' = Hs(u)
      BY <2>2
    <3>5. QED
      BY <3>2, <3>3, <3>4
  <2>3. QED
    BY <2>1, <2>2
<1>6. QED
  BY <1>4, <1>5 DEF SeenOnce

(* Every step keeps an event from being seen twice. *)
LEMMA SeenStep ==
  ShapeOK /\ EventsHaveOnePlace /\ SeenOnce /\ [Next]_vars => SeenOnce'
<1> SUFFICES ASSUME ShapeOK, EventsHaveOnePlace, SeenOnce, [Next]_vars PROVE SeenOnce'
  OBVIOUS
<1>1. CASE UNCHANGED <<handlers, list, attached, at, item, got, Handling, Settled>>
  <2>1. InHand' = InHand /\ \A t \in Tasks : Hs(t)' = Hs(t)
    BY <1>1 DEF InHand, Handling, Hs
  <2>2. CallsGoForward'
    BY <1>1, <2>1 DEF SeenOnce, CallsGoForward, Handling
  <2>3. QED
    BY <1>1, <2>1, <2>2 DEF SeenOnce
<1>2. CASE Publish
  BY <1>1, <1>2 DEF Publish, taskVars, Handling, Settled
<1>3. CASE \E h \in Handlers : Subscribe(h)
  BY <1>3, SubscribeStep
<1>4. CASE \/ \E t \in Tasks : Start(t) \/ Begin(t) \/ TimeOut(t) \/ WaitIsCancelled(t)
           \/ Stop
           \/ UNCHANGED vars
  <2>1. Idles
    BY <1>4, IdleSteps
  <2>2. handlers' = handlers
    BY <1>4 DEF Start, Begin, TimeOut, WaitIsCancelled, Stop, vars
  <2>3. QED
    BY <1>1, <2>1, <2>2 DEF Idles, Settled
<1>5. CASE Reset
  BY <1>5, ResetStep
<1>6. ASSUME NEW t \in Tasks, Take(t)
      PROVE  SeenOnce'
  <2> DEFINE e == Head(queue)
  <2>1. /\ e \in Events /\ Work(t, e) /\ t \notin Handling
        /\ UNCHANGED <<handlers, discarded>>
    BY <1>6, ShapeOfHead DEF Take, Handling
  <2>2. Moves(t, e)
    BY <1>6, TakeMoves
  <2>3. e \in Elements(queue) /\ e \notin InHand \cup Settled
    BY <1>6, QueueOfNumbers, TakeFirst DEF Take, EventsHaveOnePlace
  <2> HIDE DEF e
  <2>4. CASE Abandon(t, e, "crashed") \/ Finish(t, e)
    BY <2>1, <2>2, <2>4, ThroughStep DEF Over
  <2>5. CASE /\ handlers # <<>>
             /\ pc'       = [pc EXCEPT ![t] = "handling"]
             /\ item'     = [item EXCEPT ![t] = e]
             /\ attached' = [attached EXCEPT ![t] = TRUE]
             /\ Call(t, e, handlers, 1)
             /\ UNCHANGED <<unfinished, list, done, lost>>
    <3>1. handlers \in Seq(Handlers) /\ 1 \in 1 .. Len(handlers)
      BY <2>5 DEF ShapeOK
    <3>2. \A h \in Handlers : got[h][e] = 0
      BY <2>1, <2>3 DEF SeenOnce
    <3>3. /\ Handling' = Handling \cup {t}
          /\ item'[t] = e /\ \A u \in Handling : item'[u] = item[u]
          /\ InHand' = InHand \cup {e}
      BY <2>1, <2>5, HandsHold
    <3>4. Settled' = Settled
      BY <2>1, <2>5 DEF Settled
    <3>5. attached'[t] = TRUE /\ \A u \in Tasks \ {t} : attached'[u] = attached[u]
      BY <2>5 DEF ShapeOK
    <3>6. /\ Hs(t)' = handlers
          /\ \A u \in Tasks \ {t} : Hs(u)' = Hs(u)
      BY <2>1, <2>5, <3>5 DEF Hs
    <3>7. \A u \in Handling : item[u] # e
      BY <2>3 DEF InHand, Handling
    <3>8. \A u \in Handling' \ {t} : /\ u \in Handling /\ item[u] # e
                                     /\ item'[u] = item[u] /\ Hs(u)' = Hs(u)
      BY <3>3, <3>6, <3>7 DEF Handling
    <3>9. handlers[1] \in Handlers
      BY <3>1
    <3>10. QED
      BY <2>1, <2>5, <3>1, <3>2, <3>3, <3>4, <3>6, <3>8, <3>9, CallStep
  <2>6. QED
    BY <2>1, <2>4, <2>5 DEF Work
<1>7. ASSUME NEW t \in Tasks,
             \/ HandlerEnds(t) /\ Finish(t, item[t])
             \/ HandlerIsCancelled(t)
      PROVE  SeenOnce'
  <2>1. t \in Handling /\ Moves(t, item[t]) /\ item[t] \in Events
    BY <1>7, HandlerMoves DEF ShapeOK
  <2>2. /\ Finish(t, item[t]) \/ Abandon(t, item[t], "cancelled")
        /\ UNCHANGED <<handlers, discarded>>
    BY <1>7 DEF HandlerEnds, HandlerIsCancelled
  <2>3. QED
    BY <2>1, <2>2, ThroughStep DEF Over
<1>8. ASSUME NEW t \in Tasks, HandlerEnds(t), ~Finish(t, item[t])
      PROVE  SeenOnce'
  <2> DEFINE hs == Hs(t)
             e  == item[t]
             i  == at[t] + 1
  <2>1. /\ t \in Handling /\ e \in Events /\ hs \in Seq(Handlers)
        /\ at[t] \in Nat /\ at[t] < Len(hs) /\ Call(t, e, hs, i)
    BY <1>8 DEF HandlerEnds, Handling, ShapeOK, Hs
  <2>2. UNCHANGED <<pc, item, attached, list, handlers, Handling, InHand, Settled>>
    BY <1>8, CallsMoveNothing DEF Handling, InHand, Settled
  <2>3. \A u \in Tasks : Hs(u)' = Hs(u)
    BY <2>2 DEF Hs
  <2>4. NoTwins(hs)
    BY <2>1 DEF Hs, SeenOnce, Handling
  <2>5. i \in 1 .. Len(hs) /\ DOMAIN hs = 1 .. Len(hs) /\ hs[i] \in Handlers
    BY <2>1
  <2>6. \A h \in Handlers : got[h][e] = 0 \/ \E j \in 1 .. at[t] : j \in DOMAIN hs /\ hs[j] = h
    BY <2>1 DEF SeenOnce, CallsGoForward
  <2>7. 1 .. at[t] \subseteq 1 .. i /\ i \notin 1 .. at[t]
    BY <2>1
  <2>8. \A h \in Handlers : got[h][e] = 0 \/ \E j \in 1 .. i : j \in DOMAIN hs /\ hs[j] = h
    BY <2>6, <2>7
  <2>9. got[hs[i]][e] = 0
    BY <2>4, <2>5, <2>6, <2>7 DEF NoTwins
  <2>10. \A u \in Handling \ {t} : item[u] # e
    BY <2>1 DEF EventsHaveOnePlace
  <2>11. \A u \in Handling' \ {t} : /\ u \in Handling /\ item[u] # e
                                    /\ item'[u] = item[u] /\ Hs(u)' = Hs(u)
    BY <2>2, <2>3, <2>10 DEF Handling
  <2>12. t \in Handling' /\ item'[t] = e /\ Hs(t)' = hs
    BY <2>1, <2>2, <2>3 DEF Handling
  <2> HIDE DEF hs, e, i
  <2>13. QED
    BY <2>1, <2>2, <2>5, <2>8, <2>9, <2>11, <2>12, CallStep
<1>9. QED
  BY <1>2, <1>3, <1>4, <1>5, <1>6, <1>7, <1>8 DEF Next, Consume
-----------------------------------------------------------------------------
BusInv ==
  /\ ShapeOK
  /\ EventsHaveOnePlace
  /\ CountIsOpen
  /\ Alone
  /\ TakenInOrder
  /\ OneAtATime
  /\ SeenOnce

(* The invariant at first. *)
LEMMA BusInit == Init => BusInv
<1> SUFFICES ASSUME Init PROVE BusInv
  OBVIOUS
<1> USE ConstantsAssumption
<1>1. Handling = {} /\ InHand = {} /\ Accepted = {} /\ Elements(queue) = {}
  BY DEF Init, Handling, InHand, Accepted, Elements
<1>2. ShapeOK
  <2>1. queue \in Seq(Events) /\ Len(queue) <= MaxQueue
    BY DEF Init
  <2>2. handlers \in Seq(Handlers) /\ list \in [Tasks -> Seq(Handlers)]
    BY DEF Init
  <2>3. /\ got \in [Handlers -> [Events -> Nat]]
        /\ at \in [Tasks -> Nat] /\ published \in 0 .. MaxEvents
    BY DEF Init
  <2>4. /\ pc \in [Tasks -> {"unborn", "ready", "waiting", "handling"} \cup Over]
        /\ asked \in [Tasks -> BOOLEAN] /\ attached \in [Tasks -> BOOLEAN]
        /\ item \in [Tasks -> Events \cup {None}]
    BY DEF Init
  <2>5. QED
    BY <1>1, <2>1, <2>2, <2>3, <2>4 DEF Init, ShapeOK
<1>3. EventsHaveOnePlace
  BY <1>1 DEF Init, EventsHaveOnePlace, Settled, Increasing
<1>4. CountIsOpen
  BY <1>1, FS_EmptySet DEF Init, CountIsOpen
<1>5. Alone /\ TakenInOrder /\ OneAtATime
  BY <1>1 DEF Init, Alone, Alive, TakenInOrder, OneAtATime
<1>6. SeenOnce
  <2>1. NoTwins(<<>>)
    BY DEF NoTwins
  <2>2. CallsGoForward
    BY <1>1 DEF CallsGoForward
  <2>3. QED
    BY <2>1, <2>2 DEF Init, SeenOnce
<1>7. QED
  BY <1>2, <1>3, <1>4, <1>5, <1>6 DEF BusInv

(* Every step keeps the invariant. *)
LEMMA BusStep == BusInv /\ [Next]_vars => BusInv'
BY ShapeStep, PlaceStep, CountStep, AloneStep, TakenStep, OrderStep, SeenStep DEF BusInv

(* Together. *)
LEMMA BusInvHolds == Spec => []BusInv
BY BusInit, BusStep, PTL DEF Spec

(* Every variable of the bus keeps its type: the queue never grows past     *)
(* max_queue_size, and the count of open events, which task_done() and      *)
(* reset() lower, never falls below zero, where asyncio raises ValueError.  *)
THEOREM AsyncTypeCorrect == Spec => []TypeOK
<1>1. BusInv => TypeOK
  <2> SUFFICES ASSUME BusInv PROVE TypeOK
    OBVIOUS
  <2>1. /\ Len(queue) \in Nat
        /\ Cardinality(Handling) \in Nat
        /\ Cardinality(lost) \in Nat
    BY HandsAreCounted, LostIsFinite DEF BusInv, CountIsOpen, ShapeOK
  <2>2. unfinished \in Nat
    BY <2>1 DEF BusInv, CountIsOpen
  <2>3. QED
    BY <2>2 DEF BusInv, ShapeOK, TypeOK
<1>2. QED
  BY <1>1, BusInvHolds, PTL

(* The join() behind wait_until_empty returns only when every accepted      *)
(* event was handled to the end or thrown away by reset(): an event that is *)
(* in hand, or that a cancelled consumer took with it, keeps the count open.*)
THEOREM JoinTellsTruth == Spec => []JoinMeansHandled
<1>1. BusInv => JoinMeansHandled
  <2> SUFFICES ASSUME BusInv, unfinished = 0
               PROVE  /\ Accepted \subseteq done \cup discarded
                      /\ InHand = {} /\ queue = <<>>
    BY DEF JoinMeansHandled
  <2>1. /\ IsFiniteSet(Handling) /\ IsFiniteSet(lost) /\ queue \in Seq(Events)
        /\ unfinished = Len(queue) + Cardinality(Handling) + Cardinality(lost)
    BY LostIsFinite DEF BusInv, CountIsOpen, ShapeOK
  <2>2. Len(queue) \in Nat /\ Cardinality(Handling) \in Nat /\ Cardinality(lost) \in Nat
    BY <2>1, FS_CardinalityType
  <2>3. Len(queue) = 0 /\ Cardinality(Handling) = 0 /\ Cardinality(lost) = 0
    BY <2>1, <2>2
  <2>4. queue = <<>> /\ Handling = {} /\ lost = {}
    BY <2>1, <2>3, FS_EmptySet
  <2>5. Elements(queue) = {} /\ InHand = {}
    BY <2>4 DEF Elements, InHand, Handling
  <2>6. QED
    BY <2>4, <2>5 DEF BusInv, EventsHaveOnePlace, Settled
<1>2. QED
  BY <1>1, BusInvHolds, PTL

(* No handler is called twice with an event, and none with one that         *)
(* publish() refused, for any number of events, handlers and consumers.     *)
THEOREM HandledAtMostOnce == Spec => []AtMostOnce
<1>1. BusInv => AtMostOnce
  <2> SUFFICES ASSUME BusInv, NEW h \in Handlers, NEW e \in Events
               PROVE  got[h][e] <= IF e \in refused THEN 0 ELSE 1
    BY DEF AtMostOnce
  <2>1. got[h][e] <= 1
    BY DEF BusInv, SeenOnce
  <2>2. CASE e \in refused
    <3>1. e \notin InHand \cup Settled
      BY <2>2 DEF BusInv, EventsHaveOnePlace, Accepted
    <3>2. got[h][e] = 0
      BY <3>1 DEF BusInv, SeenOnce
    <3>3. QED
      BY <2>2, <3>2
  <2>3. QED
    BY <2>1, <2>2
<1>2. QED
  BY <1>1, BusInvHolds, PTL

(* An event that has left the queue finds none there that was accepted      *)
(* before it with its priority, and as long as no second start() came while *)
(* a consumer was alive, one that was taken finds all those over.           *)
THEOREM HandledInOrder == Spec => []InOrder
<1>1. BusInv => InOrder
  BY DEF BusInv, TakenInOrder, OneAtATime, InOrder
<1>2. QED
  BY <1>1, BusInvHolds, PTL

-----------------------------------------------------------------------------
(* A stopped bus winds down.                                                *)

(* The longest way a task can still go once the bus is stopped: a task that *)
(* waits may take one more event, one that handles has the handlers behind  *)
(* its place before it, and subscribe() can add no more than there are.     *)
WayToEnd(t) ==
  CASE pc[t] = "ready"    -> 1
    [] pc[t] = "waiting"  -> Cardinality(Handlers) + 2
    [] pc[t] = "handling" -> Cardinality(Handlers) + 1 - at[t]
    [] OTHER              -> 0

(* A task at work is at the place of a handler. *)
PlacesInv == \A t \in Handling : at[t] \in 1 .. Cardinality(Handlers)

(* A list without repetitions is no longer than there are handlers. *)
LEMMA ListIsShort ==
  ASSUME NEW s \in Seq(Handlers), NoTwins(s)
  PROVE  Len(s) <= Cardinality(Handlers)
<1>1. Len(s) \in Nat /\ DOMAIN s = 1 .. Len(s) /\ s \in [1 .. Len(s) -> Handlers]
  OBVIOUS
<1>2. s \in Injection(1 .. Len(s), Handlers)
  BY <1>1 DEF NoTwins, Injection, IsInjective
<1>3. Cardinality(1 .. Len(s)) <= Cardinality(Handlers)
  BY <1>2, HandlersAssumption, FS_Injection
<1>4. Cardinality(1 .. Len(s)) = Len(s)
  BY <1>1, FS_Interval
<1>5. QED
  BY <1>3, <1>4

(* The lists tasks run through have no repetitions. *)
LEMMA ListsAreShort ==
  ASSUME BusInv
  PROVE  /\ Cardinality(Handlers) \in Nat
         /\ handlers \in Seq(Handlers) /\ Len(handlers) <= Cardinality(Handlers)
         /\ \A t \in Tasks : Len(Hs(t)) \in Nat /\ Len(Hs(t)) <= Cardinality(Handlers)
<1>1. Cardinality(Handlers) \in Nat
  BY HandlersAssumption, FS_CardinalityType
<1>2. handlers \in Seq(Handlers) /\ NoTwins(handlers)
  BY DEF BusInv, ShapeOK, SeenOnce
<1>3. ASSUME NEW t \in Tasks
      PROVE  Hs(t) \in Seq(Handlers) /\ NoTwins(Hs(t))
  <2>1. list[t] \in Seq(Handlers) /\ NoTwins(list[t])
    BY DEF BusInv, ShapeOK, SeenOnce
  <2>2. QED
    BY <1>2, <2>1 DEF Hs
<1>4. ASSUME NEW t \in Tasks
      PROVE  Len(Hs(t)) \in Nat /\ Len(Hs(t)) <= Cardinality(Handlers)
  BY <1>3, ListIsShort
<1>5. QED
  BY <1>1, <1>2, <1>4, ListIsShort

(* Where a step of a consumer brings it: it moves on to the next handler,   *)
(* takes an event, or goes on with its loop or ends.                        *)
LEMMA ConsumerMoves ==
  ASSUME BusInv, NEW t \in Tasks, Consume(t)
  PROVE  /\ \A u \in Tasks \ {t} : pc'[u] = pc[u] /\ at'[u] = at[u]
         /\ running' = running
         /\ \/ /\ pc[t] \in {"ready", "waiting", "handling"}
               /\ pc'[t] \in Over \cup {Loop}
            \/ /\ pc[t] = "waiting" /\ pc'[t] = "handling" /\ at'[t] = 1
               /\ 1 <= Len(handlers)
            \/ /\ pc[t] = "handling" /\ pc'[t] = "handling" /\ at'[t] = at[t] + 1
               /\ at[t] + 1 <= Len(Hs(t))
<1>0. /\ pc \in [Tasks -> {"unborn", "ready", "waiting", "handling"} \cup Over]
      /\ at \in [Tasks -> Nat] /\ handlers \in Seq(Handlers)
  BY DEF BusInv, ShapeOK
<1>1. CASE Begin(t) \/ TimeOut(t) \/ WaitIsCancelled(t)
  BY <1>0, <1>1 DEF Begin, TimeOut, WaitIsCancelled, Over
<1>2. ASSUME NEW e, Finish(t, e) \/ \E how \in Over : Abandon(t, e, how)
      PROVE  /\ \A u \in Tasks \ {t} : pc'[u] = pc[u] /\ at'[u] = at[u]
             /\ pc'[t] \in Over \cup {Loop}
  BY <1>0, <1>2 DEF Finish, Abandon, Release
<1>3. CASE Take(t)
  <2>1. pc[t] = "waiting" /\ running' = running /\ Work(t, Head(queue))
    BY <1>3 DEF Take
  <2>2. CASE Finish(t, Head(queue)) \/ Abandon(t, Head(queue), "crashed")
    BY <1>2, <2>1, <2>2 DEF Over
  <2>3. CASE /\ handlers # <<>>
             /\ pc' = [pc EXCEPT ![t] = "handling"] /\ at' = [at EXCEPT ![t] = 1]
    <3>1. 1 <= Len(handlers)
      BY <1>0, <2>3
    <3>2. QED
      BY <1>0, <2>1, <2>3, <3>1
  <2>4. QED
    BY <2>1, <2>2, <2>3 DEF Work, Call
<1>4. CASE HandlerEnds(t)
  <2>1. pc[t] = "handling" /\ running' = running
    BY <1>4 DEF HandlerEnds
  <2>2. CASE Finish(t, item[t])
    BY <1>2, <2>1, <2>2
  <2>3. CASE /\ at[t] < Len(Hs(t)) /\ pc' = pc
             /\ at' = [at EXCEPT ![t] = at[t] + 1]
    <3>1. Len(Hs(t)) \in Nat /\ at[t] \in Nat
      BY <1>0, ListsAreShort
    <3>2. at[t] + 1 <= Len(Hs(t))
      BY <2>3, <3>1
    <3>3. QED
      BY <1>0, <2>1, <2>3, <3>2
  <2>4. QED
    BY <1>4, <2>2, <2>3 DEF HandlerEnds, Call, Hs
<1>5. CASE HandlerIsCancelled(t)
  <2>1. pc[t] = "handling" /\ running' = running /\ Abandon(t, item[t], "cancelled")
    BY <1>5 DEF HandlerIsCancelled
  <2>2. QED
    BY <1>2, <2>1 DEF Over
<1>6. QED
  BY <1>1, <1>3, <1>4, <1>5 DEF Consume

(* A step that is none of a consumer creates a task or leaves them alone. *)
LEMMA OthersLeaveTasks ==
  ASSUME [Next]_vars, \A t \in Tasks : ~Consume(t)
  PROVE  \/ pc' = pc /\ at' = at
         \/ running' = TRUE /\ at' = at
            /\ \E t \in Tasks : pc[t] = "unborn" /\ pc' = [pc EXCEPT ![t] = "ready"]
BY DEF Next, Publish, Subscribe, Start, Stop, Reset, vars, taskVars

(* Every step keeps the places. *)
LEMMA PlacesStep == BusInv /\ PlacesInv /\ [Next]_vars => PlacesInv'
<1> SUFFICES ASSUME BusInv, PlacesInv, [Next]_vars PROVE PlacesInv'
  OBVIOUS
<1>0. pc \in [Tasks -> {"unborn", "ready", "waiting", "handling"} \cup Over]
  BY DEF BusInv, ShapeOK
<1>1. ASSUME NEW t \in Tasks, Consume(t)
      PROVE  PlacesInv'
  <2> SUFFICES ASSUME NEW u \in Tasks, pc'[u] = "handling"
               PROVE  at'[u] \in 1 .. Cardinality(Handlers)
    BY DEF PlacesInv, Handling
  <2>1. CASE u # t
    BY <1>1, <2>1, ConsumerMoves DEF PlacesInv, Handling
  <2>2. CASE u = t
    <3>1. "handling" \notin Over \cup {Loop}
      BY DEF Over, Loop
    <3>2. CASE at'[t] = 1 /\ 1 <= Len(handlers)
      <4>1. Cardinality(Handlers) \in Nat /\ Len(handlers) <= Cardinality(Handlers)
            /\ Len(handlers) \in Nat
        BY ListsAreShort
      <4>2. QED
        BY <2>2, <3>2, <4>1
    <3>3. CASE pc[t] = "handling" /\ at'[t] = at[t] + 1 /\ at[t] + 1 <= Len(Hs(t))
      <4>1. Cardinality(Handlers) \in Nat /\ Len(Hs(t)) <= Cardinality(Handlers)
            /\ Len(Hs(t)) \in Nat
        BY ListsAreShort
      <4>2. at[t] \in 1 .. Cardinality(Handlers)
        BY <3>3 DEF PlacesInv, Handling
      <4>3. QED
        BY <2>2, <3>3, <4>1, <4>2
    <3>4. QED
      BY <1>1, <2>2, <3>1, <3>2, <3>3, ConsumerMoves
  <2>3. QED
    BY <2>1, <2>2
<1>2. CASE \A t \in Tasks : ~Consume(t)
  <2>1. at' = at /\ Handling' \subseteq Handling
    BY <1>0, <1>2, OthersLeaveTasks DEF Handling
  <2>2. QED
    BY <2>1 DEF PlacesInv
<1>3. QED
  BY <1>1, <1>2

(* What winding down means for a task. *)
NearsItsEnd(t) ==
  /\ WayToEnd(t) \in 0 .. Cardinality(Handlers) + 2
  /\ WayToEnd(t) = 0 <=> ~Alive(t)
  /\ WayToEnd(t)' <= WayToEnd(t)
  /\ Consume(t) => WayToEnd(t)' < WayToEnd(t)

(* The way is a number, and none is left for a task that is over. *)
LEMMA WayIsNumber ==
  ASSUME BusInv, PlacesInv, NEW t \in Tasks
  PROVE  /\ WayToEnd(t) \in 0 .. Cardinality(Handlers) + 2
         /\ WayToEnd(t) = 0 <=> ~Alive(t)
         /\ pc[t] = "handling" => at[t] \in 1 .. Cardinality(Handlers)
<1>1. /\ pc[t] \in {"unborn", "ready", "waiting", "handling"} \cup Over
      /\ Cardinality(Handlers) \in Nat
  BY ListsAreShort DEF BusInv, ShapeOK
<1>2. pc[t] = "handling" => at[t] \in 1 .. Cardinality(Handlers)
  BY DEF PlacesInv, Handling
<1>3. QED
  BY <1>1, <1>2 DEF WayToEnd, Alive, Over

(* Each step of a consumer of a stopped bus brings it nearer to its end. *)
LEMMA ConsumerShrinks ==
  ASSUME BusInv, PlacesInv, ~running, NEW t \in Tasks, Consume(t)
  PROVE  WayToEnd(t)' < WayToEnd(t)
<1>1. /\ Cardinality(Handlers) \in Nat
      /\ pc[t] = "handling" => at[t] \in 1 .. Cardinality(Handlers)
  BY ListsAreShort, WayIsNumber
<1>2. CASE pc[t] \in {"ready", "waiting", "handling"} /\ pc'[t] \in Over \cup {Loop}
  <2>1. WayToEnd(t)' = 0
    BY <1>2 DEF WayToEnd, Over, Loop
  <2>2. WayToEnd(t) > 0
    BY <1>1, <1>2 DEF WayToEnd
  <2>3. QED
    BY <2>1, <2>2
<1>3. CASE pc[t] = "waiting" /\ pc'[t] = "handling" /\ at'[t] = 1
  <2>1. WayToEnd(t)' = Cardinality(Handlers) + 1 - 1
    BY <1>3 DEF WayToEnd
  <2>2. WayToEnd(t) = Cardinality(Handlers) + 2
    BY <1>3 DEF WayToEnd
  <2>3. QED
    BY <1>1, <2>1, <2>2
<1>4. CASE pc[t] = "handling" /\ pc'[t] = "handling" /\ at'[t] = at[t] + 1
  <2>1. WayToEnd(t)' = Cardinality(Handlers) + 1 - (at[t] + 1)
    BY <1>4 DEF WayToEnd
  <2>2. WayToEnd(t) = Cardinality(Handlers) + 1 - at[t]
    BY <1>4 DEF WayToEnd
  <2>3. QED
    BY <1>1, <1>4, <2>1, <2>2
<1>5. QED
  BY <1>2, <1>3, <1>4, ConsumerMoves

(* A bus that is stopped has a bounded way to rest, whatever the number of  *)
(* consumers, events and handlers: each of them is at most as many steps    *)
(* from its end as there are handlers and two more, each of its own steps   *)
(* brings it nearer, and no publish, subscribe, reset or other consumer     *)
(* takes it back before start() is called again.  An orphaned consumer is   *)
(* no exception.  The fairness of the loop makes of this that all end.      *)
THEOREM StoppedBusWindsDown ==
  Spec => [][~running /\ ~running' => \A t \in Tasks : NearsItsEnd(t)]_vars
<1>1. ASSUME BusInv, PlacesInv, BusInv', PlacesInv', [Next]_vars, ~running, ~running',
             NEW t \in Tasks
      PROVE  NearsItsEnd(t)
  <2>1. /\ WayToEnd(t) \in 0 .. Cardinality(Handlers) + 2
        /\ WayToEnd(t) = 0 <=> ~Alive(t)
    BY <1>1, WayIsNumber
  <2>2. Cardinality(Handlers) \in Nat
    BY <1>1, ListsAreShort
  <2>3. CASE Consume(t)
    <3>1. WayToEnd(t)' < WayToEnd(t)
      BY <1>1, <2>3, ConsumerShrinks
    <3>2. WayToEnd(t)' \in Int
      <4>1. pc'[t] = "handling" => at'[t] \in 1 .. Cardinality(Handlers)
        BY <1>1 DEF PlacesInv, Handling
      <4>2. QED
        BY <2>2, <4>1 DEF WayToEnd
    <3>3. WayToEnd(t)' <= WayToEnd(t)
      BY <2>1, <2>2, <3>1, <3>2
    <3>4. QED
      BY <2>1, <3>1, <3>3 DEF NearsItsEnd
  <2>4. CASE ~Consume(t)
    <3>1. pc'[t] = pc[t] /\ at'[t] = at[t]
      <4>1. CASE \A u \in Tasks : ~Consume(u)
        BY <1>1, <4>1, OthersLeaveTasks
      <4>2. ASSUME NEW u \in Tasks, Consume(u)
            PROVE  pc'[t] = pc[t] /\ at'[t] = at[t]
        BY <1>1, <2>4, <4>2, ConsumerMoves
      <4>3. QED
        BY <4>1, <4>2
    <3>2. WayToEnd(t)' = WayToEnd(t)
      BY <3>1 DEF WayToEnd
    <3>3. QED
      BY <2>1, <2>2, <2>4, <3>2 DEF NearsItsEnd
  <2>5. QED
    BY <2>3, <2>4
<1>2. BusInv /\ PlacesInv /\ BusInv' /\ PlacesInv' /\ [Next]_vars =>
        [~running /\ ~running' => \A t \in Tasks : NearsItsEnd(t)]_vars
  BY <1>1
<1>3. Init => PlacesInv
  BY DEF Init, PlacesInv, Handling
<1>4. QED
  BY <1>2, <1>3, PlacesStep, BusInvHolds, PTL DEF Spec
=============================================================================
