--------------------------- MODULE RiskGateProofs ---------------------------
(* Theorems about the risk gate on the bus.                                 *)
EXTENDS RiskGate, FoldLemmas, SequenceTheorems, TLAPS

(* A publish that is still to begin. *)
Pending(frame, type) == frame.event.type = type /\ frame.next = 0

(* Orders and acceptances on the way are about orders that were submitted,  *)
(* and only orders wait in the queue.  While the switch is tripped, every   *)
(* acceptance still to be published is one that was on its way when it      *)
(* tripped.  Reports of positions are about portfolios.                     *)
WayInv ==
  /\ stack \in Seq(Frame)
  /\ queue \in Seq(Event)
  /\ published \in Seq(Event)
  /\ triggered \in BOOLEAN
  /\ submitted \subseteq Orders
  /\ \A i \in DOMAIN queue :
       queue[i].type = "ORDER_SUBMITTED" /\ queue[i].about \in submitted
  /\ \A i \in DOMAIN stack :
       /\ stack[i].event.type \in {"ORDER_SUBMITTED", "ORDER_ACCEPTED"}
            => stack[i].event.about \in submitted
       /\ stack[i].event.type = "POSITION_UPDATED" => stack[i].event.about \in Portfolios

FlightInv ==
  triggered =>
    \A i \in DOMAIN stack :
      Pending(stack[i], "ORDER_ACCEPTED") => stack[i].event.about \in inFlight

(* Two sequences in a row, place by place. *)
LEMMA Joined ==
  ASSUME NEW S, NEW s \in Seq(S), NEW t \in Seq(S)
  PROVE  /\ s \o t \in Seq(S)
         /\ DOMAIN (s \o t) = 1 .. Len(s) + Len(t)
         /\ \A i \in 1 .. Len(s) + Len(t) :
              (s \o t)[i] = IF i <= Len(s) THEN s[i] ELSE t[i - Len(s)]
OBVIOUS

(* What lies on the stack after a handler has answered. *)
LEMMA AnswerFrames ==
  ASSUME stack \in Seq(Frame), stack # <<>>, NEW events \in Seq(Event), Answers(events)
  PROVE  /\ stack' \in Seq(Frame)
         /\ \A i \in DOMAIN stack' :
              \/ \E k \in DOMAIN events : stack'[i] = [event |-> events[k], next |-> 0]
              \/ \E j \in DOMAIN stack : /\ stack'[i].event = stack[j].event
                                         /\ stack'[i].next = 0 => stack[j].next = 0
<1> DEFINE old == [stack EXCEPT ![1].next = @ + 1]
           new == Frames(events)
<1>1. /\ DOMAIN stack = 1 .. Len(stack) /\ Len(stack) \in Nat \ {0}
      /\ \A j \in 1 .. Len(stack) : stack[j] \in Frame
  OBVIOUS
<1>2. /\ DOMAIN old = 1 .. Len(stack)
      /\ \A j \in 1 .. Len(stack) : /\ old[j] \in Frame
                                    /\ old[j].event = stack[j].event
                                    /\ old[j].next = 0 => stack[j].next = 0
  BY <1>1 DEF Frame
<1>3. old \in Seq(Frame) /\ Len(old) = Len(stack)
  BY <1>1, <1>2
<1>4. /\ DOMAIN events = 1 .. Len(events) /\ Len(events) \in Nat
      /\ \A k \in 1 .. Len(events) : events[k] \in Event
  OBVIOUS
<1>5. /\ DOMAIN new = 1 .. Len(events)
      /\ \A k \in 1 .. Len(events) : /\ new[k] = [event |-> events[k], next |-> 0]
                                     /\ new[k] \in Frame
  BY <1>4 DEF Frames, Frame
<1>6. new \in Seq(Frame) /\ Len(new) = Len(events)
  <2>1. new = [k \in 1 .. Len(events) |-> [event |-> events[k], next |-> 0]]
    BY <1>4 DEF Frames
  <2>2. new \in [1 .. Len(events) -> Frame]
    BY <1>4, <2>1 DEF Frame
  <2> HIDE DEF new
  <2>3. QED
    BY <1>4, <2>2
<1>7. stack' = new \o old
  BY DEF Answers
<1> HIDE DEF old, new
<1>8. /\ stack' \in Seq(Frame)
      /\ DOMAIN stack' = 1 .. Len(events) + Len(stack)
      /\ \A i \in 1 .. Len(events) + Len(stack) :
           stack'[i] = IF i <= Len(events) THEN new[i] ELSE old[i - Len(events)]
  <2>1. new \in Seq(Frame) /\ old \in Seq(Frame)
    BY <1>3, <1>6
  <2>2. /\ new \o old \in Seq(Frame)
        /\ DOMAIN (new \o old) = 1 .. Len(new) + Len(old)
        /\ \A i \in 1 .. Len(new) + Len(old) :
             (new \o old)[i] = IF i <= Len(new) THEN new[i] ELSE old[i - Len(new)]
    BY ONLY <2>1, Joined, Zenon
  <2>3. QED
    BY <1>3, <1>6, <1>7, <2>2
<1>9. ASSUME NEW i \in DOMAIN stack'
      PROVE  \/ \E k \in DOMAIN events : stack'[i] = [event |-> events[k], next |-> 0]
             \/ \E j \in DOMAIN stack : /\ stack'[i].event = stack[j].event
                                        /\ stack'[i].next = 0 => stack[j].next = 0
  <2>1. CASE i <= Len(events)
    BY <1>4, <1>5, <1>8, <2>1
  <2>2. CASE ~(i <= Len(events))
    <3>1. i - Len(events) \in 1 .. Len(stack) /\ stack'[i] = old[i - Len(events)]
      BY <1>1, <1>4, <1>8, <2>2
    <3>2. QED
      BY <1>1, <1>2, <3>1
  <2>3. QED
    BY <2>1, <2>2
<1>10. QED
  BY <1>8, <1>9

(* A handler that answers keeps the two invariants if its answers do. *)
LEMMA AnswerKeepsWay ==
  ASSUME WayInv, FlightInv, stack # <<>>, NEW events \in Seq(Event), Answers(events),
         \A k \in DOMAIN events :
           /\ events[k].type \in {"ORDER_SUBMITTED", "ORDER_ACCEPTED"}
                => events[k].about \in submitted'
           /\ events[k].type = "ORDER_ACCEPTED" => ~triggered'
           /\ events[k].type = "POSITION_UPDATED" => events[k].about \in Portfolios,
         submitted \subseteq submitted', submitted' \subseteq Orders,
         UNCHANGED published,
         queue' \in Seq(Event),
         \A i \in DOMAIN queue' :
           queue'[i].type = "ORDER_SUBMITTED" /\ queue'[i].about \in submitted',
         triggered' = triggered, inFlight' = inFlight
  PROVE  WayInv' /\ FlightInv'
<1>1. /\ stack' \in Seq(Frame)
      /\ \A i \in DOMAIN stack' :
           \/ \E k \in DOMAIN events : stack'[i] = [event |-> events[k], next |-> 0]
           \/ \E j \in DOMAIN stack : /\ stack'[i].event = stack[j].event
                                      /\ stack'[i].next = 0 => stack[j].next = 0
  BY AnswerFrames DEF WayInv
<1>2. ASSUME NEW i \in DOMAIN stack'
      PROVE  /\ stack'[i].event.type \in {"ORDER_SUBMITTED", "ORDER_ACCEPTED"}
                  => stack'[i].event.about \in submitted'
             /\ triggered' /\ Pending(stack'[i], "ORDER_ACCEPTED")
                  => stack'[i].event.about \in inFlight'
             /\ stack'[i].event.type = "POSITION_UPDATED" => stack'[i].event.about \in Portfolios
  <2>1. CASE \E k \in DOMAIN events : stack'[i] = [event |-> events[k], next |-> 0]
    BY <2>1 DEF Pending
  <2>2. CASE \E j \in DOMAIN stack : /\ stack'[i].event = stack[j].event
                                     /\ stack'[i].next = 0 => stack[j].next = 0
    BY <2>2 DEF WayInv, FlightInv, Pending
  <2>3. QED
    BY <1>1, <2>1, <2>2
<1>3. WayInv'
  BY <1>1, <1>2 DEF WayInv
<1>4. QED
  BY <1>2, <1>3 DEF FlightInv

(* The same where nothing but the answers is new. *)
LEMMA AnswerAlone ==
  ASSUME WayInv, FlightInv, stack # <<>>, NEW events \in Seq(Event), Answers(events),
         \A k \in DOMAIN events :
           /\ events[k].type # "ORDER_SUBMITTED"
           /\ events[k].type = "ORDER_ACCEPTED" =>
                events[k].about \in submitted /\ ~triggered
           /\ events[k].type = "POSITION_UPDATED" => events[k].about \in Portfolios,
         UNCHANGED <<queue, published, triggered, submitted, inFlight>>
  PROVE  WayInv' /\ FlightInv'
<1>1. \A k \in DOMAIN events :
        /\ events[k].type \in {"ORDER_SUBMITTED", "ORDER_ACCEPTED"}
             => events[k].about \in submitted'
        /\ events[k].type = "ORDER_ACCEPTED" => ~triggered'
        /\ events[k].type = "POSITION_UPDATED" => events[k].about \in Portfolios
  OBVIOUS
<1>2. /\ submitted \subseteq submitted' /\ submitted' \subseteq Orders
      /\ queue' \in Seq(Event)
      /\ \A i \in DOMAIN queue' :
           queue'[i].type = "ORDER_SUBMITTED" /\ queue'[i].about \in submitted'
  BY DEF WayInv
<1>3. QED
  BY <1>1, <1>2, AnswerKeepsWay

(* A handler that publishes nothing moves no order on its way. *)
LEMMA AnswersNothing ==
  ASSUME WayInv, FlightInv, stack # <<>>, Answers(<<>>),
         UNCHANGED <<queue, published, triggered, submitted, inFlight>>
  PROVE  WayInv' /\ FlightInv'
<1>1. <<>> \in Seq(Event) /\ \A k \in DOMAIN <<>> : FALSE
  OBVIOUS
<1>2. QED
  BY <1>1, AnswerAlone

(* A handler that publishes one event, of a type that is not on the way of  *)
(* an order to the venue.                                                   *)
LEMMA AnswersOne ==
  ASSUME WayInv, FlightInv, stack # <<>>, NEW e \in Event, Answers(<<e>>),
         e.type \notin {"ORDER_SUBMITTED", "ORDER_ACCEPTED"},
         e.type = "POSITION_UPDATED" => e.about \in Portfolios,
         UNCHANGED <<queue, published, triggered, submitted, inFlight>>
  PROVE  WayInv' /\ FlightInv'
<1>1. <<e>> \in Seq(Event) /\ \A k \in DOMAIN <<e>> : <<e>>[k] = e
  OBVIOUS
<1>2. QED
  BY <1>1, AnswerAlone

(* What the actions of the application and of the bus leave on the stack.   *)
LEMMA NothingNew ==
  ASSUME WayInv, FlightInv,
         stack' \in Seq(Frame),
         \A i \in DOMAIN stack' : \E j \in DOMAIN stack :
           /\ stack'[i].event = stack[j].event
           /\ stack'[i].next = 0 => stack[j].next = 0,
         queue' \in Seq(Event),
         \A i \in DOMAIN queue' :
           queue'[i].type = "ORDER_SUBMITTED" /\ queue'[i].about \in submitted,
         published' \in Seq(Event),
         triggered' \in BOOLEAN,
         submitted' = submitted,
         triggered' => triggered /\ inFlight' = inFlight
  PROVE  WayInv' /\ FlightInv'
BY DEF WayInv, FlightInv, Pending

(* The stack with one frame, that of an event published from outside. *)
LEMMA OneFrame ==
  ASSUME NEW e \in Event, stack' = Frames(<<e>>)
  PROVE  /\ stack' \in Seq(Frame)
         /\ \A i \in DOMAIN stack' : stack'[i] = [event |-> e, next |-> 0]
<1>1. stack' = [i \in 1 .. 1 |-> [event |-> e, next |-> 0]]
  BY DEF Frames
<1>2. stack' \in [1 .. 1 -> Frame]
  BY <1>1 DEF Frame
<1>3. stack' \in Seq(Frame)
  BY <1>2, 1 \in Nat
<1>4. QED
  BY <1>1, <1>3

(* Every event of an order, a portfolio or a subject is one of Event. *)
LEMMA EventsOfOrders ==
  /\ \A o \in Orders : OrderEvent(o) \in Event
  /\ \A p \in Portfolios : PositionEvent(p) \in Event
  /\ \A type \in Types, s \in Subjects : [type |-> type, about |-> s] \in Event
BY GateAssumption DEF OrderEvent, PositionEvent, Event, Types

(* The bus hands events on and moves no order further than it was. *)
LEMMA BusKeepsWay ==
  ASSUME WayInv, FlightInv, BusStep
  PROVE  WayInv' /\ FlightInv'
<1>0. UNCHANGED <<triggered, submitted, inFlight>> /\ triggered \in BOOLEAN
  BY DEF BusStep, killSwitchVars, WayInv
<1>1. CASE Begin
  <2>1. /\ stack # <<>> /\ stack' = [stack EXCEPT ![1].next = 1]
        /\ queue' = queue /\ published' = Append(published, Head(stack).event)
    BY <1>1 DEF Begin, Idle
  <2>0. /\ DOMAIN stack = 1 .. Len(stack) /\ Len(stack) \in Nat \ {0}
        /\ stack \in [1 .. Len(stack) -> Frame]
        /\ Head(stack) \in Frame /\ published \in Seq(Event)
    BY <2>1 DEF WayInv
  <2>2. /\ DOMAIN stack' = 1 .. Len(stack)
        /\ stack' \in [1 .. Len(stack) -> Frame]
        /\ \A j \in 1 .. Len(stack) : /\ stack'[j].event = stack[j].event
                                      /\ stack'[j].next = 0 => stack[j].next = 0
    BY <2>0, <2>1, SMTT(30) DEF Frame
  <2>3. stack' \in Seq(Frame)
    BY <2>0, <2>2
  <2>4. published' \in Seq(Event)
    <3>1. Head(stack).event \in Event
      BY <2>0 DEF Frame
    <3>2. QED
      BY <2>0, <2>1, <3>1
  <2>5. QED
    BY <1>0, <2>0, <2>1, <2>2, <2>3, <2>4, NothingNew DEF WayInv
<1>2. CASE Return
  <2>1. stack # <<>> /\ stack' = Tail(stack) /\ queue' = queue /\ published' = published
    BY <1>2 DEF Return, Idle
  <2>2. /\ stack' \in Seq(Frame)
        /\ \A i \in DOMAIN stack' : i + 1 \in DOMAIN stack /\ stack'[i] = stack[i + 1]
    BY <2>1 DEF WayInv
  <2>3. QED
    BY <1>0, <2>1, <2>2, NothingNew DEF WayInv
<1>3. CASE Consume
  <2>1. /\ queue # <<>> /\ queue' = Tail(queue) /\ published' = published
        /\ stack' = Frames(<<Head(queue)>>)
    BY <1>3 DEF Consume
  <2>2. /\ queue' \in Seq(Event) /\ Head(queue) \in Event
        /\ \A i \in DOMAIN queue' : i + 1 \in DOMAIN queue /\ queue'[i] = queue[i + 1]
        /\ 1 \in DOMAIN queue /\ Head(queue) = queue[1]
    BY <2>1 DEF WayInv
  <2>3. /\ stack' \in Seq(Frame)
        /\ \A i \in DOMAIN stack' : stack'[i] = [event |-> Head(queue), next |-> 0]
    BY <2>1, <2>2, OneFrame
  <2>4. /\ Head(queue).type = "ORDER_SUBMITTED" /\ Head(queue).about \in submitted
        /\ \A i \in DOMAIN queue' :
             queue'[i].type = "ORDER_SUBMITTED" /\ queue'[i].about \in submitted
    BY <2>2 DEF WayInv
  <2>5. QED
    BY <1>0, <2>1, <2>2, <2>3, <2>4, SMTT(30) DEF WayInv, FlightInv, Pending
<1>4. QED
  BY <1>1, <1>2, <1>3 DEF BusStep

(* The gate moves an order on only when it approves it. *)
LEMMA GateKeepsWay ==
  ASSUME WayInv, FlightInv, GateStep
  PROVE  WayInv' /\ FlightInv'
<1>0. UNCHANGED <<queue, published, triggered, submitted, inFlight>>
  BY DEF GateStep, GateTurn, OnOrder, OnPositionUpdate, killSwitchVars
<1>1. ASSUME NEW s \in Subjects, Turn("gate", OrderEvent(s)), OnOrder(s)
      PROVE  WayInv' /\ FlightInv'
  <2>1. stack # <<>> /\ s \in submitted
    BY <1>1 DEF Turn, Idle, OrderEvent, WayInv
  <2>2. Verdict(s) \in Seq(Event)
    BY EventsOfOrders DEF Verdict, Types
  <2>3. \A k \in DOMAIN Verdict(s) :
          /\ Verdict(s)[k].about = s
          /\ Verdict(s)[k].type # "ORDER_SUBMITTED"
          /\ Verdict(s)[k].type = "ORDER_ACCEPTED" => ~triggered
          /\ Verdict(s)[k].type # "POSITION_UPDATED"
    BY DEF Verdict, Approves, IsAlive
  <2>4. Answers(Verdict(s))
    BY <1>1 DEF OnOrder
  <2>5. QED
    BY <1>0, <2>1, <2>2, <2>3, <2>4, AnswerAlone
<1>2. ASSUME NEW s \in Subjects, Turn("gate", PositionEvent(s)), OnPositionUpdate(s)
      PROVE  WayInv' /\ FlightInv'
  <2>1. stack # <<>> /\ Answers(<<>>)
    BY <1>2 DEF Turn, Idle, OnPositionUpdate
  <2>2. QED
    BY <1>0, <2>1, AnswersNothing
<1>3. QED
  BY <1>1, <1>2 DEF GateStep, GateTurn, OrderEvent, PositionEvent

(* The venue only reports. *)
LEMMA VenueKeepsWay ==
  ASSUME WayInv, FlightInv, VenueStep
  PROVE  WayInv' /\ FlightInv'
<1>1. PICK o \in Orders :
        /\ Turn("venue", [type |-> "ORDER_ACCEPTED", about |-> o])
        /\ Answers(<<[type |-> "ORDER_FILLED", about |-> o]>>) \/ Answers(<<>>)
        /\ UNCHANGED <<subscribers, queue, published, killSwitchVars, now, riskVars, sessionVars>>
  BY DEF VenueStep
<1>2. stack # <<>> /\ UNCHANGED <<queue, published, triggered, submitted, inFlight>>
  BY <1>1 DEF Turn, Idle, killSwitchVars, sessionVars
<1>3. [type |-> "ORDER_FILLED", about |-> o] \in Event
  BY EventsOfOrders, GateAssumption DEF Types
<1>4. CASE Answers(<<>>)
  BY <1>2, <1>4, AnswersNothing
<1>5. CASE Answers(<<[type |-> "ORDER_FILLED", about |-> o]>>)
  BY <1>2, <1>3, <1>5, AnswersOne
<1>6. QED
  BY <1>1, <1>4, <1>5

(* An order that is submitted begins its way. *)
LEMMA SubmitKeepsWay ==
  ASSUME WayInv, FlightInv, NEW o \in Orders, SubmitOrder(o)
  PROVE  WayInv' /\ FlightInv'
<1>0. /\ submitted' = submitted \cup {o} /\ submitted' \subseteq Orders
      /\ UNCHANGED <<published, triggered, inFlight>>
      /\ triggered \in BOOLEAN
      /\ OrderEvent(o) \in Event
  BY EventsOfOrders DEF SubmitOrder, killSwitchVars, Publish, WayInv
<1>1. /\ OrderEvent(o).type = "ORDER_SUBMITTED"
      /\ OrderEvent(o).about \in submitted'
  BY <1>0 DEF OrderEvent
<1> HIDE DEF OrderEvent
<1>2. ASSUME PublishAsync(OrderEvent(o))
      PROVE  /\ queue' \in Seq(Event)
             /\ \A i \in DOMAIN queue' :
                  queue'[i].type = "ORDER_SUBMITTED" /\ queue'[i].about \in submitted'
  <2>1. queue' = Append(queue, OrderEvent(o)) /\ queue \in Seq(Event)
    BY <1>2 DEF PublishAsync, WayInv
  <2>2. /\ queue' \in Seq(Event)
        /\ \A i \in DOMAIN queue' :
             \/ i \in DOMAIN queue /\ queue'[i] = queue[i]
             \/ queue'[i] = OrderEvent(o)
    BY <1>0, <2>1
  <2>3. QED
    BY <1>0, <1>1, <2>2 DEF WayInv
<1>3. CASE Publish(OrderEvent(o))
  <2>1. /\ stack' \in Seq(Frame)
        /\ \A i \in DOMAIN stack' : stack'[i] = [event |-> OrderEvent(o), next |-> 0]
        /\ queue' = queue
    BY <1>0, <1>3, OneFrame DEF Publish
  <2>2. QED
    BY <1>0, <1>1, <2>1 DEF WayInv, FlightInv, Pending
<1>4. CASE PublishAsync(OrderEvent(o)) /\ stack' = stack
  BY <1>0, <1>2, <1>4 DEF WayInv, FlightInv
<1>5. CASE /\ \E e \in Event : Turn("application", e)
           /\ \/ Answers(<<OrderEvent(o)>>) /\ UNCHANGED queue
              \/ Answers(<<>>) /\ PublishAsync(OrderEvent(o))
  <2>1. stack # <<>>
    BY <1>5 DEF Turn, Idle
  <2>2. <<OrderEvent(o)>> \in Seq(Event) /\ <<>> \in Seq(Event)
    BY <1>0
  <2>3. CASE Answers(<<OrderEvent(o)>>) /\ UNCHANGED queue
    <3>1. \A k \in DOMAIN <<OrderEvent(o)>> : <<OrderEvent(o)>>[k] = OrderEvent(o)
      OBVIOUS
    <3>2. QED
      BY <1>0, <1>1, <2>1, <2>2, <2>3, <3>1, AnswerKeepsWay DEF WayInv
  <2>4. CASE Answers(<<>>) /\ PublishAsync(OrderEvent(o))
    <3>1. \A k \in DOMAIN <<>> : FALSE
      OBVIOUS
    <3>2. submitted \subseteq submitted'
      BY <1>0
    <3>3. QED
      BY <1>0, <1>2, <2>1, <2>2, <2>4, <3>1, <3>2, AnswerKeepsWay
  <2>5. QED
    BY <1>5, <2>3, <2>4
<1>6. QED
  BY <1>3, <1>4, <1>5 DEF SubmitOrder

(* A report of positions is about no order. *)
LEMMA ReportKeepsWay ==
  ASSUME WayInv, FlightInv, NEW p \in Portfolios, ReportPositions(p)
  PROVE  WayInv' /\ FlightInv'
<1>0. /\ UNCHANGED <<queue, published, triggered, submitted, inFlight>>
      /\ PositionEvent(p) \in Event
      /\ PositionEvent(p).type = "POSITION_UPDATED"
      /\ PositionEvent(p).about \in Portfolios
  BY EventsOfOrders DEF ReportPositions, Publish, killSwitchVars, PositionEvent
<1>1. CASE Publish(PositionEvent(p))
  <2>1. /\ stack' \in Seq(Frame)
        /\ \A i \in DOMAIN stack' : stack'[i] = [event |-> PositionEvent(p), next |-> 0]
    BY <1>0, <1>1, OneFrame DEF Publish
  <2>2. QED
    BY <1>0, <2>1 DEF WayInv, FlightInv, Pending
<1>2. CASE /\ \E e \in Event : Turn("application", e)
           /\ Answers(<<PositionEvent(p)>>)
  <2>1. stack # <<>>
    BY <1>2 DEF Turn, Idle
  <2>2. QED
    BY <1>0, <1>2, <2>1, AnswersOne
<1>3. QED
  BY <1>1, <1>2 DEF ReportPositions

(* The other actions of the application put nothing on the stack. *)
LEMMA ActsPushNothing ==
  ASSUME WayInv, Acts
  PROVE  /\ UNCHANGED <<queue, published, submitted>>
         /\ stack' \in Seq(Frame)
         /\ \A i \in DOMAIN stack' : \E j \in DOMAIN stack :
              /\ stack'[i].event = stack[j].event
              /\ stack'[i].next = 0 => stack[j].next = 0
<1>1. UNCHANGED <<queue, published, submitted>>
  BY DEF Acts
<1>2. CASE stack' = stack
  BY <1>1, <1>2 DEF WayInv
<1>3. CASE (\E e \in Event : Turn("application", e)) /\ Answers(<<>>)
  <2>1. stack # <<>> /\ stack \in Seq(Frame) /\ <<>> \in Seq(Event)
    BY <1>3 DEF Turn, Idle, WayInv
  <2>2. \A k : k \notin DOMAIN <<>>
    OBVIOUS
  <2>3. QED
    BY <1>1, <1>3, <2>1, <2>2, AnswerFrames
<1>4. QED
  BY <1>2, <1>3 DEF Acts

(* When the switch trips, the acceptances on their way are remembered. *)
LEMMA TradeKeepsWay ==
  ASSUME WayInv, FlightInv, NEW trade \in Trades, TellKillSwitch(trade)
  PROVE  WayInv' /\ FlightInv'
<1>1. /\ UNCHANGED <<queue, published, submitted>>
      /\ stack' \in Seq(Frame)
      /\ \A i \in DOMAIN stack' : \E j \in DOMAIN stack :
           /\ stack'[i].event = stack[j].event
           /\ stack'[i].next = 0 => stack[j].next = 0
  BY ActsPushNothing DEF TellKillSwitch
<1>2. /\ triggered' \in BOOLEAN
      /\ inFlight' = IF triggered' /\ ~triggered THEN {o \in submitted : Approved(o)}
                     ELSE inFlight
  BY DEF TellKillSwitch, Update, killSwitchVars, WayInv
<1>3. WayInv'
  BY <1>1, <1>2 DEF WayInv
<1>4. ASSUME triggered', NEW i \in DOMAIN stack', Pending(stack'[i], "ORDER_ACCEPTED")
      PROVE  stack'[i].event.about \in inFlight'
  <2>1. PICK j \in DOMAIN stack : /\ stack'[i].event = stack[j].event
                                  /\ Pending(stack[j], "ORDER_ACCEPTED")
    BY <1>1, <1>4 DEF Pending
  <2>2. stack[j] \in Frame /\ stack[j].event.about \in submitted
    BY <2>1 DEF WayInv, Pending
  <2> DEFINE o == stack[j].event.about
  <2>3. stack[j] = [event |-> [type |-> "ORDER_ACCEPTED", about |-> o], next |-> 0]
    BY <2>1, <2>2 DEF Frame, Event, Pending
  <2>4. Approved(o)
    BY <2>3 DEF Approved, ToSet
  <2>5. CASE triggered
    BY <1>2, <2>1, <2>5 DEF FlightInv
  <2>6. CASE ~triggered
    BY <1>2, <1>4, <2>1, <2>2, <2>4, <2>6
  <2>7. QED
    BY <2>5, <2>6
<1>5. QED
  BY <1>3, <1>4 DEF FlightInv

(* Every step keeps the orders on their way, one action after the other. *)
LEMMA WayStep ==
  ASSUME WayInv, FlightInv, [Next]_vars
  PROVE  WayInv' /\ FlightInv'
<1>1. CASE \/ BusStep \/ GateStep \/ VenueStep
           \/ \E o \in Orders : SubmitOrder(o)
           \/ \E trade \in Trades : TellKillSwitch(trade)
           \/ \E p \in Portfolios : ReportPositions(p)
  BY <1>1, BusKeepsWay, GateKeepsWay, VenueKeepsWay, SubmitKeepsWay, TradeKeepsWay,
     ReportKeepsWay
<1>2. CASE Ignore
  <2>1. /\ UNCHANGED <<queue, published, triggered, submitted, inFlight>>
        /\ stack # <<>> /\ Answers(<<>>)
    BY <1>2 DEF Ignore, killSwitchVars, sessionVars, Turn, Idle
  <2>2. QED
    BY <2>1, AnswersNothing
<1>3. CASE ResetKillSwitch \/ DisarmKillSwitch \/ StopGate \/ StartGate \/ SetLimits
  <2>1. Acts
    BY <1>3 DEF ResetKillSwitch, DisarmKillSwitch, StopGate, StartGate, SetLimits
  <2>2. /\ triggered' \in BOOLEAN
        /\ triggered' => triggered
        /\ inFlight' = inFlight
    <3>1. CASE ResetKillSwitch
      BY <3>1 DEF ResetKillSwitch, Reset
    <3>2. CASE DisarmKillSwitch
      BY <3>2 DEF DisarmKillSwitch, Disarm, WayInv
    <3>3. CASE StopGate \/ StartGate \/ SetLimits
      <4>1. UNCHANGED killSwitchVars /\ inFlight' = inFlight
        BY <3>3 DEF StopGate, StartGate, SetLimits
      <4>2. QED
        BY <4>1 DEF killSwitchVars, WayInv
    <3>4. QED
      BY <1>3, <3>1, <3>2, <3>3
  <2>3. QED
    BY <2>1, <2>2, ActsPushNothing, NothingNew DEF WayInv
<1>4. CASE Tick \/ UNCHANGED vars
  BY <1>4 DEF Tick, vars, busVars, killSwitchVars, sessionVars, WayInv, FlightInv
<1>5. QED
  BY <1>1, <1>2, <1>3, <1>4 DEF Next

(* Nothing is on its way at first. *)
LEMMA WayInit == Init => WayInv /\ FlightInv
<1> SUFFICES ASSUME Init PROVE WayInv /\ FlightInv
  OBVIOUS
<1>1. stack = <<>> /\ queue = <<>> /\ published = <<>> /\ submitted = {} /\ triggered = FALSE
  BY DEF Init, KillSwitchInit
<1>2. stack \in Seq(Frame) /\ queue \in Seq(Event) /\ published \in Seq(Event)
  BY <1>1
<1>3. DOMAIN stack = {} /\ DOMAIN queue = {}
  BY <1>1
<1>4. QED
  BY <1>1, <1>2, <1>3 DEF WayInv, FlightInv

(* Together. *)
LEMMA WayInvHolds == Spec => [](WayInv /\ FlightInv)
BY WayInit, WayStep, PTL DEF Spec

(* Once the kill switch has tripped, and until it is reset, no order is     *)
(* accepted but those whose acceptance was already on its way: however      *)
(* deep the calls of publish() are nested, and whether or not the gate is   *)
(* stopped, started or told other limits meanwhile.                         *)
THEOREM TrippedStopsOrders == Spec => TripStopsOrders
<1>1. ASSUME WayInv, FlightInv, [Next]_vars, published' # published, triggered,
             Last(published').type = "ORDER_ACCEPTED"
      PROVE  Last(published').about \in inFlight
  <2>1. BusStep /\ Begin
    BY <1>1 DEF Next, BusStep, Return, Consume, GateStep, GateTurn, OnOrder,
       OnPositionUpdate, VenueStep, SubmitOrder, Publish, Ignore, TellKillSwitch, Acts,
       ResetKillSwitch, DisarmKillSwitch, StopGate, StartGate, SetLimits, ReportPositions,
       Tick, vars, busVars
  <2>2. /\ stack # <<>> /\ Head(stack).next = 0
        /\ published' = Append(published, Head(stack).event)
    BY <2>1 DEF Begin, Idle
  <2>3. Last(published') = Head(stack).event
    BY <1>1, <2>2 DEF WayInv, Last
  <2>4. 1 \in DOMAIN stack /\ Head(stack) = stack[1]
    BY <1>1, <2>2 DEF WayInv
  <2>5. QED
    BY <1>1, <2>2, <2>3, <2>4 DEF FlightInv, Pending
<1>2. WayInv /\ FlightInv /\ [Next]_vars =>
        [published' # published /\ triggered =>
           LET e == Last(published')
           IN e.type = "ORDER_ACCEPTED" => e.about \in inFlight]_vars
  BY <1>1
<1>3. QED
  BY <1>2, WayInvHolds, PTL DEF Spec, TripStopsOrders

-----------------------------------------------------------------------------
(* The lists of subscribers: the gate is in none of its two twice. *)
ListsInv ==
  /\ subscribers \in [EventTypes -> Seq(Handlers)]
  /\ \A t \in GateTypes : \A i, j \in DOMAIN subscribers[t] :
       subscribers[t][i] = "gate" /\ subscribers[t][j] = "gate" => i = j

SwitchInv ==
  /\ KillSwitchTypeOK
  /\ ~triggered => lossStreak < MaxLossStreak

GateTypeInv ==
  /\ RiskTypeOK
  /\ approvals \in Seq(0 .. now)

SessionInv ==
  /\ acts \in 0 .. MaxActs
  /\ expected \subseteq submitted
  /\ disturbed \subseteq submitted
  /\ inFlight \subseteq submitted

(* A sequence whose elements are in T is a sequence over T. *)
LEMMA SeqOver ==
  ASSUME NEW S, NEW T, NEW s \in Seq(S), \A i \in DOMAIN s : s[i] \in T
  PROVE  s \in Seq(T)
<1>1. DOMAIN s = 1 .. Len(s) /\ Len(s) \in Nat /\ s = [i \in 1 .. Len(s) |-> s[i]]
  OBVIOUS
<1>2. s \in [1 .. Len(s) -> T]
  BY <1>1
<1>3. QED
  BY <1>1, <1>2, SeqDef

(* A sequence over a set is one over any larger set. *)
LEMMA SeqGrows ==
  ASSUME NEW S, NEW T, S \subseteq T, NEW s \in Seq(S)
  PROVE  s \in Seq(T)
<1>1. \A i \in DOMAIN s : s[i] \in T
  OBVIOUS
<1>2. QED
  BY <1>1, SeqOver

(* The lists of Init have the gate in one place at most. *)
LEMMA PairOf ==
  ASSUME NEW T, NEW a \in T, NEW b \in T, a # b, NEW h
  PROVE  /\ <<a>> \o <<b>> \in Seq(T)
         /\ \A i, j \in DOMAIN (<<a>> \o <<b>>) :
              (<<a>> \o <<b>>)[i] = h /\ (<<a>> \o <<b>>)[j] = h => i = j
<1> DEFINE p == <<a>>
           q == <<b>>
<1>1. /\ p \in Seq(T) /\ Len(p) = 1 /\ p[1] = a
      /\ q \in Seq(T) /\ Len(q) = 1 /\ q[1] = b
  OBVIOUS
<1> HIDE DEF p, q
<1>2. /\ p \o q \in Seq(T) /\ DOMAIN (p \o q) = 1 .. Len(p) + Len(q)
      /\ \A i \in 1 .. Len(p) + Len(q) :
           (p \o q)[i] = IF i <= Len(p) THEN p[i] ELSE q[i - Len(p)]
  BY <1>1, Joined
<1>3. DOMAIN (p \o q) = 1 .. 2 /\ (p \o q)[1] = a /\ (p \o q)[2] = b
  BY <1>1, <1>2
<1>4. \A i, j \in 1 .. 2 : (p \o q)[i] = h /\ (p \o q)[j] = h => i = j
  BY <1>3
<1>5. p \o q \in Seq(T) /\ \A i, j \in DOMAIN (p \o q) : (p \o q)[i] = h /\ (p \o q)[j] = h => i = j
  BY <1>2, <1>3, <1>4
<1>6. QED
  BY <1>5 DEF p, q

(* A sequence of one, joined with nothing: it has one place. *)
LEMMA SingleOf ==
  ASSUME NEW T, NEW a \in T
  PROVE  /\ <<a>> \o <<>> \in Seq(T) /\ <<>> \o <<a>> \in Seq(T)
         /\ \A i, j \in DOMAIN (<<a>> \o <<>>) : i = j
         /\ \A i, j \in DOMAIN (<<>> \o <<a>>) : i = j
<1>1. <<a>> \o <<>> = <<a>> /\ <<>> \o <<a>> = <<a>>
  OBVIOUS
<1>2. <<a>> \in Seq(T) /\ \A i, j \in DOMAIN <<a>> : i = j
  OBVIOUS
<1>3. QED
  BY <1>1, <1>2

(* A part of a sequence, element by element. *)
LEMMA SubSeqType ==
  ASSUME NEW T, NEW s \in Seq(T), NEW a \in 1 .. Len(s) + 1, NEW b \in 0 .. Len(s)
  PROVE  /\ SubSeq(s, a, b) \in Seq(T)
         /\ Len(SubSeq(s, a, b)) = IF a <= b THEN b - a + 1 ELSE 0
         /\ \A i \in 1 .. b - a + 1 : SubSeq(s, a, b)[i] = s[a + i - 1]
<1>1. \A i \in a .. b : s[i] \in T
  OBVIOUS
<1>2. QED
  BY <1>1, SubSeqProperties

(* unsubscribe(): the list without the handler, which was in it once. *)
LEMMA RemoveFirstIs ==
  ASSUME NEW T, NEW s \in Seq(T), NEW h,
         \A i, j \in DOMAIN s : s[i] = h /\ s[j] = h => i = j
  PROVE  /\ RemoveFirst(s, h) \in Seq(T)
         /\ \A i \in DOMAIN RemoveFirst(s, h) : RemoveFirst(s, h)[i] # h
<1>0. DOMAIN s = 1 .. Len(s) /\ Len(s) \in Nat
  OBVIOUS
<1>1. CASE ~\E i \in 1 .. Len(s) : s[i] = h
  BY <1>0, <1>1 DEF RemoveFirst
<1>2. ASSUME NEW i \in 1 .. Len(s), s[i] = h
      PROVE  /\ RemoveFirst(s, h) \in Seq(T)
             /\ \A k \in DOMAIN RemoveFirst(s, h) : RemoveFirst(s, h)[k] # h
  <2>1. {k \in 1 .. Len(s) : s[k] = h} = {i}
    BY <1>0, <1>2
  <2>2. Min({i}) = i
    BY DEF Min
  <2>3. SelectInSeq(s, LAMBDA v : v = h) = i
    BY <2>1, <2>2 DEF SelectInSeq
  <2> DEFINE a == SubSeq(s, 1, i - 1)
             b == SubSeq(s, i + 1, Len(s))
  <2>4. RemoveFirst(s, h) = a \o b
    BY <1>2, <2>3 DEF RemoveFirst, RemoveAt
  <2>5. /\ a \in Seq(T) /\ Len(a) = i - 1
        /\ \A k \in 1 .. i - 1 : a[k] = s[k]
    <3>1. 1 \in 1 .. Len(s) + 1 /\ i - 1 \in 0 .. Len(s)
      BY <1>0
    <3>2. /\ a \in Seq(T) /\ Len(a) = (IF 1 <= i - 1 THEN i - 1 - 1 + 1 ELSE 0)
          /\ \A k \in 1 .. i - 1 - 1 + 1 : a[k] = s[1 + k - 1]
      BY <3>1, SubSeqType
    <3> HIDE DEF a
    <3>3. QED
      BY <1>0, <3>2
  <2>6. /\ b \in Seq(T) /\ Len(b) = Len(s) - i
        /\ \A k \in 1 .. Len(s) - i : b[k] = s[i + k]
    <3>1. i + 1 \in 1 .. Len(s) + 1 /\ Len(s) \in 0 .. Len(s)
      BY <1>0
    <3>2. /\ b \in Seq(T) /\ Len(b) = (IF i + 1 <= Len(s) THEN Len(s) - (i + 1) + 1 ELSE 0)
          /\ \A k \in 1 .. Len(s) - (i + 1) + 1 : b[k] = s[(i + 1) + k - 1]
      BY <3>1, SubSeqType
    <3>3. \A k \in 1 .. Len(s) - i :
            k \in 1 .. Len(s) - (i + 1) + 1 /\ (i + 1) + k - 1 = i + k
      BY <1>0
    <3>4. Len(b) = Len(s) - i
      <4>1. Len(b) = IF i + 1 <= Len(s) THEN Len(s) - (i + 1) + 1 ELSE 0
        BY <3>2
      <4> DEFINE n == Len(s)
      <4> HIDE DEF b, n
      <4>2. n \in Nat /\ i \in 1 .. n /\ Len(b) = IF i + 1 <= n THEN n - (i + 1) + 1 ELSE 0
        BY <1>0, <4>1 DEF n
      <4>3. Len(b) = n - i
        BY <4>2
      <4>4. QED
        BY <4>3 DEF n
    <3> HIDE DEF b
    <3>5. QED
      BY <3>2, <3>3, <3>4
  <2> HIDE DEF a, b
  <2>7. /\ a \o b \in Seq(T)
        /\ DOMAIN (a \o b) = 1 .. Len(a) + Len(b)
        /\ \A k \in 1 .. Len(a) + Len(b) : (a \o b)[k] = IF k <= Len(a) THEN a[k] ELSE b[k - Len(a)]
    BY <2>5, <2>6, Joined
  <2>8. ASSUME NEW k \in DOMAIN (a \o b), (a \o b)[k] = h
        PROVE  FALSE
    <3>1. k \in 1 .. (i - 1) + (Len(s) - i)
      BY <2>5, <2>6, <2>7
    <3>2. CASE k <= i - 1
      BY <1>0, <1>2, <2>5, <2>7, <2>8, <3>1, <3>2
    <3>3. CASE k > i - 1
      <4>1. b[k - (i - 1)] = h /\ k - (i - 1) \in 1 .. Len(s) - i
        BY <1>0, <2>5, <2>6, <2>7, <2>8, <3>1, <3>3
      <4>2. s[k + 1] = h /\ k + 1 \in 1 .. Len(s) /\ k + 1 # i
        <5>1. s[i + (k - (i - 1))] = h
          BY <2>6, <4>1
        <5>2. /\ i + (k - (i - 1)) = k + 1 /\ k + 1 \in 1 .. Len(s)
              /\ k + 1 # i
          BY <1>0, <3>1, <3>3, <4>1
        <5>3. QED
          BY <5>1, <5>2
      <4>3. QED
        BY <1>0, <1>2, <4>2
    <3>4. QED
      BY <3>1, <3>2, <3>3
  <2>9. QED
    BY <2>4, <2>7, <2>8
<1>3. QED
  BY <1>1, <1>2

(* stop() takes the gate out of both its lists. *)
LEMMA StopLeaves ==
  ASSUME ListsInv, StopGate
  PROVE  /\ subscribers' \in [EventTypes -> Seq(Handlers)]
         /\ \A t \in GateTypes : \A i \in DOMAIN subscribers'[t] : subscribers'[t][i] # "gate"
         /\ \A i \in DOMAIN subscribers'["ORDER_SUBMITTED"] :
              subscribers'["ORDER_SUBMITTED"][i] # "gate"
<1>0. "gate" \in Handlers /\ GateTypes \subseteq EventTypes /\ "ORDER_SUBMITTED" \in GateTypes
  BY GateAssumption DEF GateTypes, Types
<1>1. subscribers' = [t \in EventTypes |->
        IF t \in GateTypes THEN RemoveFirst(subscribers[t], "gate") ELSE subscribers[t]]
  BY DEF StopGate, Stop, Unsubscribe
<1>2. \A t \in GateTypes :
        /\ RemoveFirst(subscribers[t], "gate") \in Seq(Handlers)
        /\ \A i \in DOMAIN RemoveFirst(subscribers[t], "gate") :
             RemoveFirst(subscribers[t], "gate")[i] # "gate"
  BY <1>0, RemoveFirstIs DEF ListsInv
<1>3. \A t \in EventTypes : subscribers'[t] \in Seq(Handlers)
  BY <1>1, <1>2 DEF ListsInv
<1>4. \A t \in GateTypes : \A i \in DOMAIN subscribers'[t] : subscribers'[t][i] # "gate"
  BY <1>0, <1>1, <1>2
<1>5. subscribers' \in [EventTypes -> Seq(Handlers)]
  BY <1>1, <1>3
<1>6. QED
  BY <1>0, <1>4, <1>5

(* The gate is in each of its lists at most once: start() refuses a second time. *)
LEMMA ListsStep ==
  ASSUME ListsInv, [Next]_vars
  PROVE  ListsInv'
<1>0. "gate" \in Handlers /\ GateTypes \subseteq EventTypes
  BY GateAssumption DEF GateTypes, Types
<1>1. CASE UNCHANGED subscribers
  BY <1>1 DEF ListsInv
<1>2. CASE StopGate
  BY <1>2, StopLeaves DEF ListsInv
<1>3. CASE StartGate
  <2>1. /\ subscribers' = [t \in EventTypes |->
             IF t \in GateTypes THEN Append(subscribers[t], "gate") ELSE subscribers[t]]
        /\ \A t \in GateTypes : ~Subscribed(t, "gate")
    BY <1>3 DEF StartGate, Start, Subscribe
  <2>2. \A t \in EventTypes : subscribers[t] \in Seq(Handlers)
    BY DEF ListsInv
  <2>3. \A t \in EventTypes : subscribers'[t] \in Seq(Handlers)
    BY <1>0, <2>1, <2>2
  <2>4. \A t \in GateTypes : \A i \in DOMAIN subscribers[t] : subscribers[t][i] # "gate"
    BY <2>1 DEF Subscribed, ToSet
  <2>5. ASSUME NEW t \in GateTypes, NEW i \in DOMAIN subscribers'[t],
               NEW j \in DOMAIN subscribers'[t],
               subscribers'[t][i] = "gate", subscribers'[t][j] = "gate"
        PROVE  i = j
    <3> DEFINE old == subscribers[t]
    <3>1. /\ old \in Seq(Handlers) /\ subscribers'[t] = Append(old, "gate")
          /\ \A k \in DOMAIN old : old[k] # "gate"
      BY <1>0, <2>1, <2>2, <2>4
    <3> HIDE DEF old
    <3>2. /\ DOMAIN Append(old, "gate") = 1 .. Len(old) + 1
          /\ DOMAIN old = 1 .. Len(old) /\ Len(old) \in Nat
          /\ \A k \in 1 .. Len(old) : Append(old, "gate")[k] = old[k]
      BY <3>1
    <3>3. i = Len(old) + 1
      BY <2>5, <3>1, <3>2
    <3>4. j = Len(old) + 1
      BY <2>5, <3>1, <3>2
    <3>5. QED
      BY <3>3, <3>4
  <2>6. subscribers' \in [EventTypes -> Seq(Handlers)]
    BY <2>1, <2>3
  <2>7. QED
    BY <2>5, <2>6 DEF ListsInv
<1>4. QED
  BY <1>1, <1>2, <1>3 DEF Next, BusStep, Begin, Return, Consume, GateStep, GateTurn, OnOrder,
     OnPositionUpdate, VenueStep, SubmitOrder, Publish, Ignore, TellKillSwitch, ResetKillSwitch,
     DisarmKillSwitch, SetLimits, ReportPositions, Tick, vars, busVars

(* update() stops at the limit of the streak. *)
LEMMA SwitchStep ==
  ASSUME SwitchInv, [Next]_vars
  PROVE  SwitchInv'
<1>0. /\ MaxLossStreak \in Nat \ {0} /\ peak \in Nat
      /\ lossStreak \in 0 .. MaxLossStreak
      /\ ~triggered => lossStreak < MaxLossStreak
      /\ armed \in BOOLEAN /\ triggered \in BOOLEAN
  BY KillSwitchAssumption DEF SwitchInv, KillSwitchTypeOK
<1>1. CASE UNCHANGED killSwitchVars
  BY <1>1 DEF SwitchInv, KillSwitchTypeOK, killSwitchVars
<1>2. ASSUME NEW trade \in Trades, TellKillSwitch(trade), armed, ~triggered
      PROVE  SwitchInv'
  <2> DEFINE top    == Higher(peak, trade.capital)
             limits == DrawdownHit(top, trade.capital) \/ DailyLossHit(trade.daily, trade.capital)
  <2>1. top \in Nat
    BY <1>0, GateAssumption DEF Higher
  <2>2. /\ peak' = top
        /\ lossStreak' = IF limits THEN lossStreak ELSE Streak(trade.last)
        /\ triggered' = (limits \/ lossStreak' >= MaxLossStreak)
        /\ armed' = armed
    BY <1>2 DEF TellKillSwitch, Update
  <2>3. limits \in BOOLEAN
    BY DEF DrawdownHit, DailyLossHit
  <2> HIDE DEF top, limits
  <2>4. Streak(trade.last) \in 0 .. MaxLossStreak
    BY <1>0, <1>2 DEF Streak
  <2>5. lossStreak' \in 0 .. MaxLossStreak
    BY <1>0, <2>2, <2>4
  <2>6. triggered' \in BOOLEAN
    BY <2>2
  <2>7. ~triggered' => lossStreak' < MaxLossStreak
    <3>1. ~triggered' => ~(lossStreak' >= MaxLossStreak)
      BY <2>2, Zenon
    <3>2. QED
      BY <1>0, <2>5, <3>1
  <2>8. QED
    BY <1>0, <2>1, <2>2, <2>5, <2>6, <2>7 DEF SwitchInv, KillSwitchTypeOK
<1>3. ASSUME NEW trade \in Trades, TellKillSwitch(trade)
      PROVE  SwitchInv'
  <2>1. ~armed \/ triggered => UNCHANGED killSwitchVars
    BY <1>3 DEF TellKillSwitch, Update
  <2>2. QED
    BY <1>1, <1>2, <1>3, <2>1
<1>4. CASE ResetKillSwitch
  <2>1. armed' \in BOOLEAN /\ triggered' \in BOOLEAN
    BY <1>4, Zenon DEF ResetKillSwitch, Reset
  <2>2. lossStreak' = 0 /\ peak' = peak
    BY <1>4 DEF ResetKillSwitch, Reset
  <2>3. QED
    BY <1>0, <2>1, <2>2 DEF SwitchInv, KillSwitchTypeOK
<1>5. CASE DisarmKillSwitch
  <2>1. armed' \in BOOLEAN
    BY <1>5, Zenon DEF DisarmKillSwitch, Disarm
  <2>2. UNCHANGED <<triggered, peak, lossStreak>>
    BY <1>5 DEF DisarmKillSwitch, Disarm
  <2>3. QED
    BY <1>0, <2>1, <2>2 DEF SwitchInv, KillSwitchTypeOK
<1>6. QED
  BY <1>1, <1>3, <1>4, <1>5 DEF Next, BusStep, GateStep, GateTurn, OnOrder,
     OnPositionUpdate, VenueStep, SubmitOrder, Ignore, StopGate, StartGate, SetLimits,
     ReportPositions, Tick, vars

(* The attempts of the last minute: of the attempts, those after its begin. *)
LEMMA RecentIs ==
  ASSUME GateTypeInv
  PROVE  /\ Recent \in Seq(0 .. now) /\ Recent \in Seq(Int) /\ orderTimes \in Seq(Int)
         /\ \A i \in DOMAIN Recent : Recent[i] > now - Minute
         /\ \A P \in SUBSET {x \in Int : x > now - Minute} :
              CountIn(Recent, P) = CountIn(orderTimes, P)
<1> DEFINE low == now - Minute
<1>1. /\ now \in Nat /\ orderTimes \in Seq(0 .. now) /\ orderTimes \in Seq(Int)
      /\ low \in Int
  BY RiskAssumption DEF GateTypeInv, RiskTypeOK
<1>2. Recent = FilterAbove(orderTimes, low)
  BY DEF Recent, FilterAbove
<1> HIDE DEF low
<1>3. /\ Recent \in Seq(Int)
      /\ \A i \in DOMAIN Recent : Recent[i] > low /\ \E j \in DOMAIN orderTimes : Recent[i] = orderTimes[j]
      /\ \A P \in SUBSET {x \in Int : x > low} : CountIn(Recent, P) = CountIn(orderTimes, P)
  BY <1>1, <1>2, FilterAboveKeeps
<1>4. \A j \in DOMAIN orderTimes : orderTimes[j] \in 0 .. now
  BY <1>1
<1>5. \A i \in DOMAIN Recent : Recent[i] \in 0 .. now
  BY <1>3, <1>4
<1>6. Recent \in Seq(0 .. now)
  BY <1>3, <1>5, SeqOver
<1>7. QED
  BY <1>1, <1>3, <1>6 DEF low

(* What _on_order() leaves of the attempts, the new one included. *)
LEMMA OrderTimesType ==
  ASSUME GateTypeInv
  PROVE  /\ Append(Recent, now) \in Seq(0 .. now)
         /\ Last(Append(Recent, now)) = now
         /\ \A i \in DOMAIN Append(Recent, now) : Append(Recent, now)[i] > now - Minute
<1>1. now \in Nat /\ Minute \in Nat \ {0}
  BY RiskAssumption DEF GateTypeInv, RiskTypeOK
<1>2. Recent \in Seq(0 .. now) /\ \A i \in DOMAIN Recent : Recent[i] > now - Minute
  BY RecentIs
<1> DEFINE old == Recent
           new == Append(old, now)
<1> HIDE DEF old
<1>3. /\ old \in Seq(0 .. now) /\ now \in 0 .. now
      /\ \A i \in DOMAIN old : old[i] > now - Minute
  BY <1>1, <1>2 DEF old
<1>4. /\ new \in Seq(0 .. now) /\ DOMAIN new = 1 .. Len(old) + 1 /\ Len(new) = Len(old) + 1
      /\ DOMAIN old = 1 .. Len(old) /\ Len(old) \in Nat
      /\ \A i \in 1 .. Len(old) : new[i] = old[i]
      /\ new[Len(old) + 1] = now
  BY <1>3
<1> HIDE DEF new
<1>5. Last(new) = now
  BY <1>4 DEF Last
<1>6. \A i \in DOMAIN new : new[i] > now - Minute
  BY <1>1, <1>3, <1>4, SMTT(30)
<1>7. QED
  BY <1>4, <1>5, <1>6 DEF new, old

(* The attempts, the approvals and the limits keep their types. *)
LEMMA GateTypesStep ==
  ASSUME WayInv, GateTypeInv, [Next]_vars
  PROVE  GateTypeInv'
<1>0. /\ now \in Nat /\ orderTimes \in Seq(0 .. now) /\ approvals \in Seq(0 .. now)
      /\ \A i \in DOMAIN orderTimes : orderTimes[i] > Last(orderTimes) - Minute
      /\ positions \in Portfolios /\ capital \in Capitals
  BY DEF GateTypeInv, RiskTypeOK
<1>1. CASE UNCHANGED <<now, riskVars, approvals>>
  BY <1>0, <1>1 DEF GateTypeInv, RiskTypeOK, riskVars
<1>2. CASE GateStep
  <2>1. /\ now' = now /\ capital' = capital
        /\ approvals' = approvals \/ approvals' = Append(approvals, now)
    BY <1>2 DEF GateStep, GateTurn, OnOrder, OnPositionUpdate
  <2>2. /\ positions' \in Portfolios
        /\ orderTimes' = orderTimes \/ orderTimes' = Append(Recent, now)
    <3>1. ASSUME NEW s \in Subjects, OnOrder(s)
          PROVE  /\ positions' = positions
                 /\ orderTimes' = orderTimes \/ orderTimes' = Append(Recent, now)
      BY <3>1 DEF OnOrder
    <3>2. ASSUME NEW s \in Subjects, Turn("gate", PositionEvent(s)), OnPositionUpdate(s)
          PROVE  positions' \in Portfolios /\ orderTimes' = orderTimes
      <4>1. s \in Portfolios
        <5>1. stack # <<>> /\ Head(stack).event = PositionEvent(s)
          BY <3>2 DEF Turn, Idle
        <5>2. 1 \in DOMAIN stack /\ Head(stack) = stack[1]
          BY <5>1 DEF WayInv
        <5>3. QED
          BY <5>1, <5>2 DEF WayInv, PositionEvent
      <4>2. QED
        BY <1>0, <3>2, <4>1 DEF OnPositionUpdate
    <3>3. QED
      BY <1>0, <1>2, <3>1, <3>2 DEF GateStep, GateTurn, PositionEvent
  <2>3. /\ orderTimes' \in Seq(0 .. now)
        /\ \A i \in DOMAIN orderTimes' : orderTimes'[i] > Last(orderTimes') - Minute
    <3>1. CASE orderTimes' = orderTimes
      BY <1>0, <3>1
    <3>2. CASE orderTimes' = Append(Recent, now)
      BY <3>2, OrderTimesType
    <3>3. QED
      BY <2>2, <3>1, <3>2
  <2>4. approvals' \in Seq(0 .. now)
    <3> DEFINE T == 0 .. now
    <3>1. now \in T /\ approvals \in Seq(T)
      BY <1>0
    <3> HIDE DEF T
    <3>2. Append(approvals, now) \in Seq(T)
      BY <3>1, AppendProperties
    <3>3. approvals' \in Seq(T)
      BY <2>1, <3>1, <3>2
    <3>4. QED
      BY <3>3 DEF T
  <2>5. QED
    BY <1>0, <2>1, <2>2, <2>3, <2>4 DEF GateTypeInv, RiskTypeOK
<1>3. CASE SetLimits
  <2>1. /\ UNCHANGED <<now, orderTimes, approvals>>
        /\ positions' \in Portfolios /\ capital' \in Capitals
    BY <1>0, <1>3 DEF SetLimits, Acts, SetPositions, SetCapital
  <2>2. QED
    BY <1>0, <2>1 DEF GateTypeInv, RiskTypeOK
<1>4. CASE Tick
  <2>1. now' = now + 1 /\ UNCHANGED <<orderTimes, positions, capital, approvals>>
    BY <1>4 DEF Tick, riskVars, sessionVars
  <2>2. now' \in Nat /\ 0 .. now \subseteq 0 .. now'
    BY <1>0, <2>1
  <2>3. \A s \in Seq(0 .. now) : s \in Seq(0 .. now')
    BY <2>2, SeqGrows
  <2>4. QED
    BY <1>0, <2>1, <2>2, <2>3 DEF GateTypeInv, RiskTypeOK
<1>5. QED
  BY <1>1, <1>2, <1>3, <1>4 DEF Next, BusStep, VenueStep, SubmitOrder, Ignore, StopGate, StartGate,
     TellKillSwitch, ResetKillSwitch, DisarmKillSwitch, ReportPositions, vars, Acts, sessionVars

(* The histories are about orders that were submitted. *)
LEMMA SessionStep ==
  ASSUME WayInv, SessionInv, [Next]_vars
  PROVE  SessionInv'
<1>0. /\ MaxActs \in Nat
      /\ acts \in 0 .. MaxActs
      /\ expected \subseteq submitted /\ disturbed \subseteq submitted /\ inFlight \subseteq submitted
  BY GateAssumption DEF SessionInv
<1>1. submitted \subseteq submitted' /\ (submitted' = submitted \/ UNCHANGED <<expected, disturbed, inFlight>>)
  BY DEF Next, BusStep, GateStep, VenueStep, SubmitOrder, Ignore, Acts, TellKillSwitch,
     ResetKillSwitch, DisarmKillSwitch, StopGate, StartGate, SetLimits, ReportPositions, Tick, vars,
     sessionVars
<1>2. acts' \in 0 .. MaxActs
  <2>1. acts' = acts \/ (acts < MaxActs /\ acts' = acts + 1)
    BY DEF Next, BusStep, GateStep, VenueStep, SubmitOrder, Ignore, Acts, TellKillSwitch,
       ResetKillSwitch, DisarmKillSwitch, StopGate, StartGate, SetLimits, ReportPositions, Tick, vars,
       sessionVars
  <2>2. QED
    BY <1>0, <2>1
<1>3. Passing \subseteq submitted
  BY DEF Passing, WayInv, OrderEvent
<1>4. disturbed' \subseteq submitted'
  <2>1. disturbed' = disturbed \/ disturbed' = disturbed \cup Passing
    BY DEF Next, BusStep, GateStep, VenueStep, SubmitOrder, Ignore, TellKillSwitch,
       ResetKillSwitch, DisarmKillSwitch, StopGate, StartGate, SetLimits, ReportPositions, Tick, vars,
       sessionVars
  <2>2. QED
    BY <1>0, <1>1, <1>3, <2>1
<1>5. inFlight' \subseteq submitted'
  <2>1. inFlight' = inFlight \/ inFlight' = {o \in submitted : Approved(o)}
    BY DEF Next, BusStep, GateStep, VenueStep, SubmitOrder, Ignore, TellKillSwitch,
       ResetKillSwitch, DisarmKillSwitch, StopGate, StartGate, SetLimits, ReportPositions, Tick, vars,
       sessionVars
  <2>2. QED
    BY <1>0, <1>1, <2>1
<1>6. expected' \subseteq submitted'
  <2>1. CASE BusStep /\ Begin
    <3>1. stack # <<>> /\ (\/ expected' = expected
                           \/ /\ Head(stack).event.type = "ORDER_SUBMITTED"
                              /\ expected' = expected \cup {Head(stack).event.about})
      BY <2>1 DEF BusStep, Begin, Return, Consume, Idle
    <3>2. 1 \in DOMAIN stack /\ Head(stack) = stack[1]
      BY <3>1 DEF WayInv
    <3>3. QED
      BY <1>0, <1>1, <3>1, <3>2 DEF WayInv
  <2>2. CASE ~(BusStep /\ Begin)
    <3>1. expected' \subseteq expected
      BY <2>2 DEF Next, BusStep, GateStep, VenueStep, SubmitOrder, Ignore, TellKillSwitch,
         ResetKillSwitch, DisarmKillSwitch, StopGate, StartGate, SetLimits, ReportPositions, Tick,
         vars, sessionVars
    <3>2. QED
      BY <1>0, <1>1, <3>1
  <2>3. QED
    BY <2>1, <2>2
<1>7. QED
  BY <1>2, <1>4, <1>5, <1>6 DEF SessionInv

TypesInv == WayInv /\ FlightInv /\ ListsInv /\ SwitchInv /\ GateTypeInv /\ SessionInv

(* The invariant the theorems about the gate rest on. *)
LEMMA TypesAlways == Spec => []TypesInv
<1>1. Init => ListsInv /\ SwitchInv /\ GateTypeInv /\ SessionInv
  <2> SUFFICES ASSUME Init PROVE ListsInv /\ SwitchInv /\ GateTypeInv /\ SessionInv
    OBVIOUS
  <2>1. ListsInv
    <3>1. PICK first \in BOOLEAN :
            subscribers = [t \in EventTypes |->
              LET own == CASE t \in GateTypes       -> <<"gate">>
                           [] t = "ORDER_ACCEPTED" -> <<"venue">>
                           [] OTHER                -> <<>>
              IN IF first THEN <<"application">> \o own ELSE own \o <<"application">>]
      BY DEF Init
    <3>2. "gate" \in Handlers /\ "venue" \in Handlers /\ "application" \in Handlers
          /\ GateTypes \subseteq EventTypes
      BY GateAssumption DEF GateTypes, Types
    <3>3. \A t \in EventTypes :
            subscribers[t] \in {<<"application">> \o <<"gate">>, <<"application">> \o <<"venue">>,
                                <<"application">> \o <<>>, <<"gate">> \o <<"application">>,
                                <<"venue">> \o <<"application">>, <<>> \o <<"application">>}
      BY <3>1
    <3>4. \A list \in {<<"application">> \o <<"gate">>, <<"application">> \o <<"venue">>,
                       <<"application">> \o <<>>, <<"gate">> \o <<"application">>,
                       <<"venue">> \o <<"application">>, <<>> \o <<"application">>} :
            /\ list \in Seq(Handlers)
            /\ \A i, j \in DOMAIN list : list[i] = "gate" /\ list[j] = "gate" => i = j
      <4> DEFINE Fine(list) == /\ list \in Seq(Handlers)
                               /\ \A i, j \in DOMAIN list : list[i] = "gate" /\ list[j] = "gate" => i = j
      <4>1. Fine(<<"application">> \o <<"gate">>)
        <5>1. "application" # "gate"
          OBVIOUS
        <5>2. QED
          BY <3>2, <5>1, PairOf
      <4>2. Fine(<<"application">> \o <<"venue">>)
        <5>1. "application" # "venue"
          OBVIOUS
        <5>2. QED
          BY <3>2, <5>1, PairOf
      <4>3. Fine(<<"gate">> \o <<"application">>)
        <5>1. "gate" # "application"
          OBVIOUS
        <5>2. QED
          BY <3>2, <5>1, PairOf
      <4>4. Fine(<<"venue">> \o <<"application">>)
        <5>1. "venue" # "application"
          OBVIOUS
        <5>2. QED
          BY <3>2, <5>1, PairOf
      <4>5. Fine(<<"application">> \o <<>>) /\ Fine(<<>> \o <<"application">>)
        BY <3>2, SingleOf
      <4> HIDE DEF Fine
      <4>6. \A list \in {<<"application">> \o <<"gate">>, <<"application">> \o <<"venue">>,
                         <<"application">> \o <<>>, <<"gate">> \o <<"application">>,
                         <<"venue">> \o <<"application">>, <<>> \o <<"application">>} : Fine(list)
        BY <4>1, <4>2, <4>3, <4>4, <4>5
      <4>7. QED
        BY <4>6 DEF Fine
    <3>5. subscribers \in [EventTypes -> Seq(Handlers)]
      BY <3>1, <3>3, <3>4
    <3>6. QED
      BY <3>2, <3>3, <3>4, <3>5 DEF ListsInv
  <2>2. SwitchInv
    <3>1. armed \in BOOLEAN /\ triggered \in BOOLEAN
      BY Zenon DEF Init, KillSwitchInit
    <3>2. peak \in Nat /\ lossStreak \in 0 .. MaxLossStreak /\ lossStreak < MaxLossStreak
      BY KillSwitchAssumption DEF Init, KillSwitchInit
    <3>3. QED
      BY <3>1, <3>2 DEF SwitchInv, KillSwitchTypeOK
  <2>3. GateTypeInv
    BY DEF Init, GateTypeInv, RiskTypeOK
  <2>4. SessionInv
    BY GateAssumption DEF Init, SessionInv
  <2>5. QED
    BY <2>1, <2>2, <2>3, <2>4
<1>2. TypesInv /\ [Next]_vars => TypesInv'
  BY WayStep, ListsStep, SwitchStep, GateTypesStep, SessionStep DEF TypesInv
<1>3. QED
  BY <1>1, <1>2, WayInit, PTL DEF Spec, TypesInv

(* For any limits, portfolios and orders the variables of the gate and of   *)
(* the bus keep their types; above all the attempts it remembers are all of *)
(* the last minute, and the switch never counts beyond its streak.          *)
THEOREM GateTypeCorrect == Spec => []TypeOK
<1>1. TypesInv => TypeOK
  BY DEF TypesInv, WayInv, ListsInv, SwitchInv, GateTypeInv, SessionInv, TypeOK, BusTypeOK
<1>2. QED
  BY <1>1, TypesAlways, PTL
-----------------------------------------------------------------------------
(* Times after c, and the minute that ends at t. *)
After(c) == {x \in Int : x > c}
Window(t) == {x \in Int : t - Minute < x /\ x <= t}

(* Of the last minute, and of any later part of it, at least as many        *)
(* attempts are remembered as orders were approved.  Hence the limit on the *)
(* attempts is one on the approvals, in every minute there has been.        *)
RateInv ==
  /\ \A c \in Int : c >= now - Minute =>
       CountIn(approvals, After(c)) <= CountIn(orderTimes, After(c))
  /\ \A t \in 0 .. now : CountIn(approvals, Window(t)) <= MaxPerMinute

(* More elements of a sequence are in a set that has more of them. *)
LEMMA CountMonotone ==
  ASSUME NEW T, NEW s \in Seq(T), NEW P, NEW Q, \A i \in DOMAIN s : s[i] \in P => s[i] \in Q
  PROVE  CountIn(s, P) <= CountIn(s, Q) /\ CountIn(s, P) <= Len(s)
<1> DEFINE all == 1 .. Len(s)
<1>1. /\ DOMAIN s = all /\ Len(s) \in Nat
      /\ Places(s, P) \subseteq Places(s, Q) /\ Places(s, P) \subseteq all
  BY DEF Places
<1>2. IsFiniteSet(Places(s, Q)) /\ IsFiniteSet(all) /\ Cardinality(all) = Len(s)
  <2>1. IsFiniteSet(all) /\ Cardinality(all) = IF 1 <= Len(s) THEN Len(s) - 1 + 1 ELSE 0
    BY <1>1, FS_Interval
  <2> HIDE DEF all
  <2>2. Cardinality(all) = Len(s)
    BY <1>1, <2>1
  <2>3. QED
    BY <2>1, <2>2, CountType
<1> HIDE DEF all
<1>3. Cardinality(Places(s, P)) <= Cardinality(Places(s, Q)) /\ Cardinality(Places(s, P)) <= Len(s)
  BY <1>1, <1>2, FS_Subset
<1>4. QED
  BY <1>3 DEF CountIn

(* What the gate does to the attempts and to the approvals. *)
LEMMA GateOutcomes ==
  ASSUME GateStep
  PROVE  /\ now' = now
         /\ \/ UNCHANGED <<orderTimes, approvals>>
            \/ orderTimes' = Append(Recent, now) /\ approvals' = approvals
            \/ /\ Len(Append(Recent, now)) <= MaxPerMinute \/ ~(Len(Append(Recent, now)) > MaxPerMinute)
               /\ orderTimes' = Append(Recent, now) /\ approvals' = Append(approvals, now)
<1>1. ASSUME NEW s \in Subjects, Turn("gate", OrderEvent(s)), OnOrder(s)
      PROVE  /\ now' = now
             /\ \/ UNCHANGED <<orderTimes, approvals>>
                \/ orderTimes' = Append(Recent, now) /\ approvals' = approvals
                \/ /\ ~RateLimitExceeded
                   /\ orderTimes' = Append(Recent, now) /\ approvals' = Append(approvals, now)
  BY <1>1, Zenon DEF GateStep, OnOrder, Approves
<1>2. ASSUME NEW s \in Subjects, Turn("gate", PositionEvent(s)), OnPositionUpdate(s)
      PROVE  /\ now' = now /\ UNCHANGED <<orderTimes, approvals>>
  <2>1. Head(stack).event.type # "ORDER_SUBMITTED"
    BY <1>2 DEF Turn, PositionEvent
  <2>2. QED
    BY <1>2, <2>1 DEF GateStep, OnPositionUpdate
<1>3. QED
  BY <1>1, <1>2 DEF GateStep, GateTurn, OrderEvent, PositionEvent, RateLimitExceeded

(* Approvals are appended by the gate only, when it counts fewer than the   *)
(* limit in the window that ends now; every other step leaves them and the  *)
(* times the gate remembers, or lets time pass.                             *)
LEMMA RateStep ==
  ASSUME GateTypeInv, RateInv, [Next]_vars
  PROVE  RateInv'
<1>0. /\ now \in Nat /\ Minute \in Nat \ {0} /\ MaxPerMinute \in Nat
      /\ orderTimes \in Seq(Int) /\ approvals \in Seq(0 .. now) /\ approvals \in Seq(Int)
      /\ \A i \in DOMAIN approvals : approvals[i] \in 0 .. now
  <2>1. approvals \in Seq(Int)
    <3>1. 0 .. now \subseteq Int
      BY DEF GateTypeInv, RiskTypeOK
    <3>2. QED
      BY <3>1, SeqGrows DEF GateTypeInv
  <2>2. QED
    BY <2>1, RecentIs, RiskAssumption, SMTT(30) DEF GateTypeInv, RiskTypeOK
<1>1. CASE UNCHANGED <<now, orderTimes, approvals>>
  BY <1>1 DEF RateInv
<1>2. CASE GateStep
  <2>1. /\ Recent \in Seq(Int) /\ Append(Recent, now) \in Seq(Int)
        /\ \A c \in Int : c >= now - Minute =>
             CountIn(Recent, After(c)) = CountIn(orderTimes, After(c))
    <3>1. \A c \in Int : c >= now - Minute => After(c) \in SUBSET {x \in Int : x > now - Minute}
      BY <1>0 DEF After
    <3>2. Recent \in Seq(Int) /\ \A P \in SUBSET {x \in Int : x > now - Minute} :
                                   CountIn(Recent, P) = CountIn(orderTimes, P)
      BY RecentIs
    <3>3. Append(Recent, now) \in Seq(Int)
      BY <1>0, <3>2, AppendProperties
    <3>4. QED
      BY <3>1, <3>2, <3>3
  <2> DEFINE old == Recent
             new == Append(old, now)
  <2>2. \A c \in Int : CountIn(new, After(c)) = CountIn(old, After(c)) + One(now, After(c))
    BY <1>0, <2>1, CountAppend
  <2>3. \A P : CountIn(Append(approvals, now), P) = CountIn(approvals, P) + One(now, P)
    BY <1>0, CountAppend, SMTT(30)
  <2>4. \A P : /\ CountIn(approvals, P) \in Nat /\ CountIn(old, P) \in Nat
               /\ CountIn(orderTimes, P) \in Nat /\ One(now, P) \in {0, 1}
    BY <1>0, <2>1, CountType DEF One
  <2>5. now' = now
    BY <1>2, GateOutcomes
  <2> HIDE DEF old, new
  <2>6. CASE UNCHANGED <<orderTimes, approvals>>
    BY <2>5, <2>6 DEF RateInv
  <2>7. CASE orderTimes' = new /\ approvals' = approvals
    <3>1. ASSUME NEW c \in Int, c >= now - Minute
          PROVE  CountIn(approvals, After(c)) <= CountIn(new, After(c))
      <4>1. CountIn(approvals, After(c)) <= CountIn(orderTimes, After(c))
        BY <3>1 DEF RateInv
      <4>2. CountIn(new, After(c)) = CountIn(orderTimes, After(c)) + One(now, After(c))
        BY <2>1, <2>2, <3>1 DEF old
      <4>3. QED
        BY <2>4, <4>1, <4>2
    <3>2. QED
      BY <2>5, <2>7, <3>1 DEF RateInv
  <2>8. CASE /\ Len(new) <= MaxPerMinute \/ ~(Len(new) > MaxPerMinute)
             /\ orderTimes' = new /\ approvals' = Append(approvals, now)
    <3>1. ASSUME NEW c \in Int, c >= now - Minute
          PROVE  CountIn(Append(approvals, now), After(c)) <= CountIn(new, After(c))
      <4>1. CountIn(approvals, After(c)) <= CountIn(orderTimes, After(c))
        BY <3>1 DEF RateInv
      <4>2. CountIn(new, After(c)) = CountIn(orderTimes, After(c)) + One(now, After(c))
        BY <2>1, <2>2, <3>1 DEF old
      <4>3. QED
        BY <2>3, <2>4, <4>1, <4>2
    <3>2. ASSUME NEW t \in 0 .. now
          PROVE  CountIn(Append(approvals, now), Window(t)) <= MaxPerMinute
      <4>1. CASE t < now
        <5>1. One(now, Window(t)) = 0
          BY <1>0, <4>1 DEF One, Window
        <5>2. CountIn(approvals, Window(t)) <= MaxPerMinute
          BY DEF RateInv
        <5>3. QED
          BY <1>0, <2>3, <2>4, <5>1, <5>2
      <4>2. CASE t = now
        <5> DEFINE low == now - Minute
                   more == Append(approvals, now)
        <5>1. low \in Int /\ low >= now - Minute /\ Window(now) \subseteq After(low)
          BY <1>0 DEF Window, After
        <5>2. more \in Seq(Int)
          BY <1>0, AppendProperties
        <5>3. new \in Seq(Int) /\ Len(new) \in Nat
          BY <2>1 DEF new, old
        <5>4. CountIn(more, After(low)) <= CountIn(new, After(low))
          BY <3>1, <5>1
        <5> HIDE DEF low, more
        <5>5. CountIn(more, Window(now)) <= CountIn(more, After(low))
          <6>1. \A i \in DOMAIN more : more[i] \in Window(now) => more[i] \in After(low)
            BY <5>1
          <6>2. QED
            BY <5>2, <6>1, CountMonotone
        <5>6. CountIn(new, After(low)) <= Len(new)
          BY <5>3, CountMonotone
        <5>7. /\ CountIn(more, Window(now)) \in Nat /\ CountIn(more, After(low)) \in Nat
              /\ CountIn(new, After(low)) \in Nat
          BY <5>2, <5>3, CountType
        <5>8. CountIn(more, Window(now)) <= MaxPerMinute
          BY <1>0, <2>8, <5>3, <5>4, <5>5, <5>6, <5>7
        <5>9. QED
          BY <4>2, <5>8 DEF more
      <4>3. QED
        BY <1>0, <4>1, <4>2
    <3>3. QED
      BY <2>5, <2>8, <3>1, <3>2 DEF RateInv
  <2>9. QED
    BY <1>2, <2>6, <2>7, <2>8, GateOutcomes DEF new, old
<1>3. CASE Tick
  <2>1. now' = now + 1 /\ UNCHANGED <<orderTimes, approvals>>
    BY <1>3 DEF Tick, riskVars, sessionVars
  <2>2. ASSUME NEW c \in Int, c >= now' - Minute
        PROVE  CountIn(approvals, After(c)) <= CountIn(orderTimes, After(c))
    <3>1. c >= now - Minute
      BY <1>0, <2>1, <2>2
    <3>2. QED
      BY <3>1 DEF RateInv
  <2>3. ASSUME NEW t \in 0 .. now'
        PROVE  CountIn(approvals, Window(t)) <= MaxPerMinute
    <3>1. CASE t \in 0 .. now
      BY <3>1 DEF RateInv
    <3>2. CASE t = now + 1
      <4>1. \A i \in DOMAIN approvals : approvals[i] \in Window(t) => approvals[i] \in Window(now)
        BY <1>0, <3>2 DEF Window
      <4>2. CountIn(approvals, Window(t)) <= CountIn(approvals, Window(now))
        BY <1>0, <4>1, CountMonotone
      <4>3. CountIn(approvals, Window(now)) <= MaxPerMinute
        BY <1>0 DEF RateInv
      <4>4. CountIn(approvals, Window(t)) \in Nat /\ CountIn(approvals, Window(now)) \in Nat
        BY <1>0, CountType
      <4>5. QED
        BY <1>0, <4>2, <4>3, <4>4
    <3>3. QED
      BY <1>0, <2>1, <3>1, <3>2
  <2>4. /\ \A c \in Int : c >= now' - Minute =>
             CountIn(approvals', After(c)) <= CountIn(orderTimes', After(c))
        /\ \A t \in 0 .. now' : CountIn(approvals', Window(t)) <= MaxPerMinute
    BY <2>1, <2>2, <2>3, Zenon
  <2>5. QED
    BY <2>4, Zenon DEF RateInv
<1>4. QED
  BY <1>1, <1>2, <1>3 DEF Next, BusStep, VenueStep, SubmitOrder, Ignore, StopGate, StartGate,
     TellKillSwitch, ResetKillSwitch, DisarmKillSwitch, SetLimits, SetPositions, SetCapital,
     ReportPositions, vars, Acts, sessionVars, riskVars

(* Nothing is approved at first. *)
LEMMA RateInit == Init => RateInv
<1> SUFFICES ASSUME Init PROVE RateInv
  OBVIOUS
<1>1. approvals = <<>> /\ orderTimes = <<>> /\ <<>> \in Seq(Int)
  BY DEF Init
<1>2. \A P : CountIn(approvals, P) = 0 /\ CountIn(orderTimes, P) = 0
  BY <1>1, CountType
<1>3. QED
  BY <1>2, RiskAssumption DEF RateInv

(* For any limit and any minute: no minute has more approvals than the      *)
(* limit, however the orders are nested and however often the gate is       *)
(* stopped and started, since the attempts it remembers outlive the stop.   *)
THEOREM RateKept == Spec => []RateIsKept
<1>1. ASSUME GateTypeInv, RateInv PROVE RateIsKept
  <2>1. now \in Nat /\ Minute \in Nat /\ \A i \in DOMAIN approvals : approvals[i] \in 0 .. now
    BY <1>1, RiskAssumption DEF GateTypeInv, RiskTypeOK
  <2>2. \A t \in 0 .. now :
          {i \in DOMAIN approvals : t - Minute < approvals[i] /\ approvals[i] <= t}
            = Places(approvals, Window(t))
    BY <2>1 DEF Places, Window
  <2>3. QED
    BY <1>1, <2>2 DEF RateIsKept, RateInv, CountIn
<1>2. TypesInv => GateTypeInv
  BY DEF TypesInv
<1>3. GateTypeInv /\ RateInv /\ [Next]_vars => RateInv'
  BY RateStep
<1>4. GateTypeInv /\ RateInv => RateIsKept
  BY <1>1
<1>5. Spec => []RateInv
  BY <1>2, <1>3, RateInit, TypesAlways, PTL DEF Spec
<1>6. QED
  BY <1>2, <1>4, <1>5, TypesAlways, PTL

-----------------------------------------------------------------------------
(* The verdicts.  An event has been published or will be: it is in the      *)
(* history or on the stack, in a frame that has not begun.                  *)
Ev(type, o) == [type |-> type, about |-> o]
Fresh(e) == [event |-> e, next |-> 0]
FreshOf(P) == {f \in Frame : f.next = 0 /\ f.event \in P}
FramesOf(o) == {f \in Frame : f.event = OrderEvent(o)}

Ever(P) == CountIn(published, P) + CountIn(stack, FreshOf(P))

(* Where an order is that was submitted and has not been published wholly. *)
Tokens(o) == CountIn(queue, {OrderEvent(o)}) + CountIn(stack, FramesOf(o))

(* The call at the top of the stack goes on to the next handler. *)
Bumped == [stack EXCEPT ![1].next = @ + 1]

(* What lies on the stack after a handler has answered, place by place. *)
LEMMA AnswerShape ==
  ASSUME stack \in Seq(Frame), stack # <<>>, NEW events \in Seq(Event), Answers(events)
  PROVE  /\ stack' = Frames(events) \o Bumped
         /\ Frames(events) \in Seq(Frame) /\ Len(Frames(events)) = Len(events)
         /\ \A k \in 1 .. Len(events) : Frames(events)[k] = Fresh(events[k])
         /\ Bumped \in Seq(Frame) /\ Len(Bumped) = Len(stack)
         /\ \A j \in 1 .. Len(stack) :
              /\ Bumped[j].event = stack[j].event
              /\ Bumped[j].next = IF j = 1 THEN stack[1].next + 1 ELSE stack[j].next
         /\ stack' \in Seq(Frame) /\ Len(stack') = Len(events) + Len(stack)
         /\ \A k \in 1 .. Len(events) : stack'[k] = Fresh(events[k])
         /\ \A j \in 1 .. Len(stack) : stack'[Len(events) + j] = Bumped[j]
<1>1. /\ DOMAIN stack = 1 .. Len(stack) /\ Len(stack) \in Nat \ {0}
      /\ \A j \in 1 .. Len(stack) : stack[j] \in Frame
  OBVIOUS
<1>2. /\ DOMAIN Bumped = 1 .. Len(stack)
      /\ \A j \in 1 .. Len(stack) :
           /\ Bumped[j] \in Frame
           /\ Bumped[j].event = stack[j].event
           /\ Bumped[j].next = IF j = 1 THEN stack[1].next + 1 ELSE stack[j].next
  BY <1>1 DEF Frame, Bumped
<1>3. Bumped \in Seq(Frame) /\ Len(Bumped) = Len(stack)
  BY <1>1, <1>2 DEF Bumped
<1>4. /\ DOMAIN events = 1 .. Len(events) /\ Len(events) \in Nat
      /\ \A k \in 1 .. Len(events) : events[k] \in Event
  OBVIOUS
<1>5. /\ DOMAIN Frames(events) = 1 .. Len(events)
      /\ \A k \in 1 .. Len(events) : /\ Frames(events)[k] = Fresh(events[k])
                                     /\ Frames(events)[k] \in Frame
  BY <1>4 DEF Frames, Frame, Fresh
<1>6. Frames(events) \in Seq(Frame) /\ Len(Frames(events)) = Len(events)
  <2>1. Frames(events) = [k \in 1 .. Len(events) |-> [event |-> events[k], next |-> 0]]
    BY <1>4 DEF Frames
  <2>2. Frames(events) \in [1 .. Len(events) -> Frame]
    BY <1>4, <2>1 DEF Frame
  <2>3. QED
    BY <1>4, <2>2
<1>7. stack' = Frames(events) \o Bumped
  BY DEF Answers, Bumped
<1> DEFINE new == Frames(events)
           old == Bumped
<1> HIDE DEF new, old
<1>8. /\ new \o old \in Seq(Frame) /\ Len(new \o old) = Len(new) + Len(old)
      /\ DOMAIN (new \o old) = 1 .. Len(new) + Len(old)
      /\ \A i \in 1 .. Len(new) + Len(old) :
           (new \o old)[i] = IF i <= Len(new) THEN new[i] ELSE old[i - Len(new)]
  <2>1. new \in Seq(Frame) /\ old \in Seq(Frame)
    BY <1>3, <1>6 DEF new, old
  <2>2. Len(new \o old) = Len(new) + Len(old)
    BY <2>1
  <2>3. QED
    BY ONLY <2>1, <2>2, Joined, Zenon
<1>9. Len(new) = Len(events) /\ Len(old) = Len(stack) /\ stack' = new \o old
  BY <1>3, <1>6, <1>7 DEF new, old
<1>10. \A k \in 1 .. Len(events) : stack'[k] = new[k]
  BY <1>1, <1>4, <1>8, <1>9
<1>11. \A j \in 1 .. Len(stack) : stack'[Len(events) + j] = old[j]
  <2>1. ASSUME NEW j \in 1 .. Len(stack) PROVE stack'[Len(events) + j] = old[j]
    <3>1. /\ Len(events) + j \in 1 .. Len(new) + Len(old)
          /\ ~(Len(events) + j <= Len(new)) /\ (Len(events) + j) - Len(new) = j
      BY <1>1, <1>4, <1>9
    <3>2. QED
      BY <1>8, <1>9, <3>1
  <2>2. QED
    BY <2>1
<1>12. stack' \in Seq(Frame) /\ Len(stack') = Len(events) + Len(stack)
  BY <1>8, <1>9
<1>13. QED
  BY <1>2, <1>3, <1>5, <1>6, <1>7, <1>10, <1>11, <1>12 DEF new, old

(* A step that is a handler's answer: what it publishes is counted, and the *)
(* call it answers is still there.                                          *)
LEMMA AnswerCounts ==
  ASSUME stack \in Seq(Frame), stack # <<>>, stack[1].next > 0,
         NEW events \in Seq(Event), Answers(events)
  PROVE  /\ \A P : CountIn(stack', FreshOf(P)) = CountIn(events, P) + CountIn(stack, FreshOf(P))
         /\ \A o : CountIn(stack', FramesOf(o))
                     = CountIn(events, {OrderEvent(o)}) + CountIn(stack, FramesOf(o))
<1>1. /\ stack' = Frames(events) \o Bumped
      /\ Frames(events) \in Seq(Frame) /\ Len(Frames(events)) = Len(events)
      /\ \A k \in 1 .. Len(events) : Frames(events)[k] = Fresh(events[k])
      /\ Bumped \in Seq(Frame) /\ Len(Bumped) = Len(stack)
      /\ \A j \in 1 .. Len(stack) :
           /\ Bumped[j].event = stack[j].event
           /\ Bumped[j].next = IF j = 1 THEN stack[1].next + 1 ELSE stack[j].next
  BY AnswerShape
<1>2. \A P : CountIn(stack', P) = CountIn(Frames(events), P) + CountIn(Bumped, P)
  BY <1>1, CountJoin
<1>3. /\ DOMAIN stack = 1 .. Len(stack) /\ DOMAIN Bumped = 1 .. Len(stack)
      /\ DOMAIN events = 1 .. Len(events) /\ DOMAIN Frames(events) = 1 .. Len(events)
      /\ \A j \in 1 .. Len(stack) : stack[j] \in Frame /\ Bumped[j] \in Frame
      /\ \A k \in 1 .. Len(events) : events[k] \in Event /\ Fresh(events[k]) \in Frame
  <2>1. \A e \in Event : Fresh(e) \in Frame
    BY DEF Fresh, Frame
  <2>2. \A k \in 1 .. Len(events) : events[k] \in Event
    OBVIOUS
  <2>3. \A j \in 1 .. Len(stack) : stack[j] \in Frame /\ Bumped[j] \in Frame
    BY <1>1
  <2>4. DOMAIN stack = 1 .. Len(stack) /\ DOMAIN events = 1 .. Len(events)
    OBVIOUS
  <2>5. DOMAIN Bumped = 1 .. Len(stack) /\ DOMAIN Frames(events) = 1 .. Len(events)
    BY <1>1
  <2>6. QED
    BY <2>1, <2>2, <2>3, <2>4, <2>5
<1>4. ASSUME NEW P
      PROVE  /\ Places(Frames(events), FreshOf(P)) = Places(events, P)
             /\ Places(Bumped, FreshOf(P)) = Places(stack, FreshOf(P))
  <2>1. \A k \in 1 .. Len(events) : Fresh(events[k]) \in FreshOf(P) <=> events[k] \in P
    BY <1>3 DEF Fresh, FreshOf
  <2>2. \A j \in 1 .. Len(stack) : Bumped[j] \in FreshOf(P) <=> stack[j] \in FreshOf(P)
    BY <1>1, <1>3, SMTT(30) DEF FreshOf, Frame
  <2>3. QED
    BY <1>1, <1>3, <2>1, <2>2 DEF Places
<1>5. ASSUME NEW o
      PROVE  /\ Places(Frames(events), FramesOf(o)) = Places(events, {OrderEvent(o)})
             /\ Places(Bumped, FramesOf(o)) = Places(stack, FramesOf(o))
  <2>1. \A k \in 1 .. Len(events) : Fresh(events[k]) \in FramesOf(o) <=> events[k] \in {OrderEvent(o)}
    BY <1>3 DEF Fresh, FramesOf
  <2>2. \A j \in 1 .. Len(stack) : Bumped[j] \in FramesOf(o) <=> stack[j] \in FramesOf(o)
    BY <1>1, <1>3 DEF FramesOf
  <2>3. QED
    BY <1>1, <1>3, <2>1, <2>2 DEF Places
<1>6. QED
  BY <1>2, <1>4, <1>5 DEF CountIn

(* A publish begins: the event moves from the stack to the history. *)
LEMMA BeginEffect ==
  ASSUME WayInv, Begin
  PROVE  /\ stack # <<>> /\ 1 \in DOMAIN stack /\ DOMAIN stack' = DOMAIN stack
         /\ stack[1] \in Frame /\ stack[1].next = 0
         /\ stack'[1] = [event |-> stack[1].event, next |-> 1]
         /\ \A j \in DOMAIN stack : j # 1 => stack'[j] = stack[j]
         /\ published' = Append(published, stack[1].event)
         /\ UNCHANGED <<subscribers, queue>>
         /\ \A P : Ever(P)' = Ever(P)
         /\ \A o : Tokens(o)' = Tokens(o)
<1>1. /\ stack # <<>> /\ stack' = [stack EXCEPT ![1].next = 1] /\ Head(stack).next = 0
      /\ published' = Append(published, Head(stack).event)
      /\ UNCHANGED <<subscribers, queue>>
  BY DEF Begin, Idle
<1>2. /\ DOMAIN stack = 1 .. Len(stack) /\ 1 \in DOMAIN stack /\ Len(stack) \in Nat \ {0}
      /\ Head(stack) = stack[1] /\ \A j \in DOMAIN stack : stack[j] \in Frame
      /\ stack \in Seq(Frame) /\ published \in Seq(Event) /\ stack[1].event \in Event
  <2>1. stack \in Seq(Frame) /\ published \in Seq(Event)
    BY DEF WayInv
  <2>2. /\ DOMAIN stack = 1 .. Len(stack) /\ 1 \in DOMAIN stack /\ Len(stack) \in Nat \ {0}
        /\ Head(stack) = stack[1] /\ \A j \in DOMAIN stack : stack[j] \in Frame
    BY <1>1, <2>1
  <2>3. stack[1].event \in Event
    BY <2>2 DEF Frame
  <2>4. QED
    BY <2>1, <2>2, <2>3
<1>3. /\ DOMAIN stack' = DOMAIN stack
      /\ stack'[1] = [event |-> stack[1].event, next |-> 1]
      /\ \A j \in DOMAIN stack : j # 1 => stack'[j] = stack[j]
      /\ \A j \in DOMAIN stack : stack'[j] \in Frame
  BY <1>1, <1>2 DEF Frame
<1>4. ASSUME NEW P PROVE Ever(P)' = Ever(P)
  <2> DEFINE e == stack[1].event
  <2>1. CountIn(published', P) = CountIn(published, P) + One(e, P)
    BY <1>1, <1>2, CountAppend
  <2>2. CountIn(stack, FreshOf(P)) = CountIn(stack', FreshOf(P)) + One(e, P)
    <3>1. /\ IsFiniteSet(Places(stack, FreshOf(P)))
          /\ CountIn(stack, FreshOf(P)) \in Nat
      BY <1>2, CountType
    <3>2. \A j \in DOMAIN stack : stack'[j] \in FreshOf(P) <=> j # 1 /\ stack[j] \in FreshOf(P)
      BY <1>2, <1>3 DEF FreshOf
    <3>3. Places(stack', FreshOf(P)) = Places(stack, FreshOf(P)) \ {1}
      BY <1>3, <3>2 DEF Places
    <3>4. 1 \in Places(stack, FreshOf(P)) <=> e \in P
      BY <1>1, <1>2 DEF Places, FreshOf
    <3>5. CASE e \in P
      <4>1. Cardinality(Places(stack', FreshOf(P))) = Cardinality(Places(stack, FreshOf(P))) - 1
        BY <3>1, <3>3, <3>4, <3>5, FS_RemoveElement
      <4>2. Cardinality(Places(stack, FreshOf(P))) \in Nat
        BY <3>1 DEF CountIn
      <4>3. QED
        BY <3>5, <4>1, <4>2 DEF CountIn, One
    <3>6. CASE e \notin P
      <4>1. Places(stack', FreshOf(P)) = Places(stack, FreshOf(P))
        BY <3>3, <3>4, <3>6
      <4>2. QED
        BY <3>1, <3>6, <4>1 DEF CountIn, One
    <3>7. QED
      BY <3>5, <3>6
  <2>3. stack' \in Seq(Frame)
    <3>1. stack' = [j \in 1 .. Len(stack) |-> stack'[j]]
      BY <1>1, <1>2
    <3>2. stack' \in [1 .. Len(stack) -> Frame]
      BY <1>2, <1>3, <3>1
    <3>3. QED
      BY <1>2, <3>2
  <2>4. /\ CountIn(published, P) \in Nat /\ CountIn(stack', FreshOf(P)) \in Nat
        /\ One(e, P) \in {0, 1}
    BY <1>2, <2>3, CountType DEF One
  <2>5. Ever(P)' = CountIn(published', P) + CountIn(stack', FreshOf(P))
    BY DEF Ever, FreshOf
  <2>6. QED
    BY <2>1, <2>2, <2>4, <2>5 DEF Ever
<1>5. ASSUME NEW o PROVE Tokens(o)' = Tokens(o)
  <2>1. \A j \in DOMAIN stack : stack'[j] \in FramesOf(o) <=> stack[j] \in FramesOf(o)
    BY <1>2, <1>3 DEF FramesOf
  <2>2. Places(stack', FramesOf(o)) = Places(stack, FramesOf(o))
    BY <1>3, <2>1 DEF Places
  <2>3. CountIn(stack', FramesOf(o)) = CountIn(stack, FramesOf(o))
    BY <2>2 DEF CountIn
  <2>4. QED
    BY <1>1, <2>3 DEF Tokens, FramesOf
<1>6. QED
  BY <1>1, <1>2, <1>3, <1>4, <1>5

(* The call that is at the end of its list returns. *)
LEMMA ReturnEffect ==
  ASSUME WayInv, ListsInv, Return
  PROVE  /\ stack # <<>> /\ 1 \in DOMAIN stack /\ stack[1] \in Frame
         /\ stack[1].next > Len(subscribers[stack[1].event.type]) /\ stack[1].next > 0
         /\ \A i \in DOMAIN stack' : i + 1 \in DOMAIN stack /\ stack'[i] = stack[i + 1]
         /\ \A j \in DOMAIN stack : j # 1 => j - 1 \in DOMAIN stack' /\ stack'[j - 1] = stack[j]
         /\ UNCHANGED <<subscribers, queue, published>>
         /\ \A P : Ever(P)' = Ever(P)
         /\ \A o : Tokens(o)' \in Nat /\ Tokens(o)' <= Tokens(o)
<1>1. /\ stack # <<>> /\ stack' = Tail(stack) /\ UNCHANGED <<subscribers, queue, published>>
      /\ Head(stack).next > Len(subscribers[Head(stack).event.type])
  BY DEF Return, Idle
<1> DEFINE n == Len(stack)
<1>2. /\ stack \in Seq(Frame) /\ queue \in Seq(Event) /\ published \in Seq(Event)
      /\ n \in Nat \ {0} /\ Len(stack) = n /\ DOMAIN stack = 1 .. n /\ Head(stack) = stack[1]
      /\ \A j \in 1 .. n : stack[j] \in Frame
  BY <1>1 DEF WayInv
<1>3. /\ stack' \in Seq(Frame) /\ DOMAIN stack' = 1 .. n - 1
      /\ \A i \in 1 .. n - 1 : stack'[i] = stack[i + 1]
  BY <1>1, <1>2
<1>4. stack[1] \in Frame /\ stack[1].event.type \in EventTypes /\ stack[1].next \in Nat
  BY <1>2 DEF Frame, Event
<1>5. subscribers[stack[1].event.type] \in Seq(Handlers)
  BY <1>4 DEF ListsInv
<1>6. stack[1].next > 0
  <2> DEFINE l == Len(subscribers[stack[1].event.type])
  <2>1. l \in Nat
    BY <1>5
  <2>2. stack[1].next > l
    BY <1>1, <1>2
  <2> HIDE DEF l
  <2>3. QED
    BY <1>4, <2>1, <2>2
<1> HIDE DEF n
<1>7. \A j \in 1 .. n : j # 1 => j - 1 \in DOMAIN stack' /\ stack'[j - 1] = stack[j]
  <2>1. ASSUME NEW j \in 1 .. n, j # 1 PROVE j - 1 \in DOMAIN stack' /\ stack'[j - 1] = stack[j]
    <3>1. j - 1 \in 1 .. n - 1 /\ (j - 1) + 1 = j
      BY <1>2, <2>1
    <3>2. QED
      BY <1>3, <3>1
  <2>2. QED
    BY <2>1
<1>8. \A i \in DOMAIN stack' : i + 1 \in DOMAIN stack /\ stack'[i] = stack[i + 1]
  BY <1>2, <1>3
<1>9. ASSUME NEW Q
      PROVE  /\ CountIn(stack, Q) = One(stack[1], Q) + CountIn(stack', Q)
             /\ CountIn(stack', Q) \in Nat /\ One(stack[1], Q) \in {0, 1}
  <2>1. CountIn(stack, Q) = One(Head(stack), Q) + CountIn(Tail(stack), Q)
    BY <1>1, <1>2, CountTail
  <2>2. QED
    BY <1>1, <1>2, <1>3, <2>1, CountType DEF One
<1>10. ASSUME NEW P PROVE Ever(P)' = Ever(P)
  <2>1. stack[1] \notin FreshOf(P)
    BY <1>6 DEF FreshOf
  <2>2. CountIn(stack', FreshOf(P)) = CountIn(stack, FreshOf(P))
    BY <1>9, <2>1 DEF One
  <2>3. QED
    BY <1>1, <2>2 DEF Ever, FreshOf
<1>11. ASSUME NEW o PROVE Tokens(o)' \in Nat /\ Tokens(o)' <= Tokens(o)
  <2>1. CountIn(stack', FramesOf(o)) <= CountIn(stack, FramesOf(o))
    BY <1>9
  <2>2. /\ CountIn(stack', FramesOf(o)) \in Nat /\ CountIn(stack, FramesOf(o)) \in Nat
        /\ CountIn(queue, {OrderEvent(o)}) \in Nat
    BY <1>2, <1>3, CountType
  <2>3. Tokens(o)' = CountIn(queue, {OrderEvent(o)}) + CountIn(stack', FramesOf(o))
    BY <1>1 DEF Tokens, FramesOf
  <2>4. QED
    BY <2>1, <2>2, <2>3 DEF Tokens
<1>12. QED
  BY <1>1, <1>2, <1>4, <1>6, <1>7, <1>8, <1>10, <1>11, SMTT(30)

(* A publish when no call is in progress. *)
LEMMA IdleEffect ==
  ASSUME WayInv, Idle, NEW e \in Event, stack' = Frames(<<e>>), published' = published
  PROVE  /\ stack = <<>> /\ DOMAIN stack = {} /\ DOMAIN stack' = {1} /\ stack'[1] = Fresh(e)
         /\ \A P : Ever(P)' = Ever(P) + One(e, P)
         /\ \A o : /\ CountIn(stack, FramesOf(o)) = 0
                   /\ CountIn(stack', FramesOf(o)) = One(e, {OrderEvent(o)})
<1>1. stack = <<>> /\ DOMAIN stack = {} /\ \A P : CountIn(stack, P) = 0
  <2>1. stack = <<>> /\ stack \in Seq(Frame) /\ DOMAIN stack = {}
    BY DEF Idle, WayInv
  <2>2. \A P : CountIn(stack, P) = 0
    BY <2>1, CountType
  <2>3. QED
    BY <2>1, <2>2
<1>2. stack' \in Seq(Frame) /\ \A i \in DOMAIN stack' : stack'[i] = Fresh(e)
  BY OneFrame DEF Fresh
<1>3. DOMAIN stack' = {1}
  BY DEF Frames
<1>4. Fresh(e) \in Frame
  BY DEF Fresh, Frame
<1>5. \A P : CountIn(stack', P) = One(Fresh(e), P)
  <2>1. stack' = <<Fresh(e)>>
    <3> DEFINE single == <<Fresh(e)>>
    <3>1. single \in Seq(Frame) /\ Len(single) = 1 /\ single[1] = Fresh(e)
      BY <1>4
    <3> HIDE DEF single
    <3>2. Len(stack') = 1 /\ stack'[1] = Fresh(e)
      BY <1>2, <1>3
    <3>3. \A i \in 1 .. Len(stack') : stack'[i] = single[i]
      BY <3>1, <3>2
    <3>4. stack' = single
      BY <1>2, <3>1, <3>2, <3>3, SeqEqual
    <3>5. QED
      BY <3>4 DEF single
  <2>2. QED
    BY <1>4, <2>1, CountOfOne
<1>6. ASSUME NEW P PROVE Ever(P)' = Ever(P) + One(e, P)
  <2>1. One(Fresh(e), FreshOf(P)) = One(e, P)
    BY <1>4 DEF One, Fresh, FreshOf
  <2>2. CountIn(published, P) \in Nat /\ One(e, P) \in {0, 1}
    BY CountType DEF WayInv, One
  <2>3. Ever(P)' = CountIn(published, P) + CountIn(stack', FreshOf(P))
    BY DEF Ever, FreshOf
  <2>4. Ever(P) = CountIn(published, P) + 0
    BY <1>1 DEF Ever
  <2>5. QED
    BY <1>5, <2>1, <2>2, <2>3, <2>4
<1>7. ASSUME NEW o PROVE CountIn(stack', FramesOf(o)) = One(e, {OrderEvent(o)})
  BY <1>4, <1>5 DEF One, Fresh, FramesOf
<1>8. QED
  BY <1>1, <1>2, <1>3, <1>6, <1>7

(* A handler whose turn it is. *)
LEMMA TurnIs ==
  ASSUME WayInv, ListsInv, NEW h, NEW e, Turn(h, e)
  PROVE  /\ stack # <<>> /\ 1 \in DOMAIN stack /\ stack[1] \in Frame
         /\ e = stack[1].event /\ e \in Event /\ stack[1].next > 0 /\ Head(stack) = stack[1]
         /\ stack[1].next \in DOMAIN subscribers[e.type]
         /\ subscribers[e.type][stack[1].next] = h
<1>1. stack # <<>> /\ stack \in Seq(Frame)
  BY DEF Turn, Idle, WayInv
<1>2. 1 \in DOMAIN stack /\ stack[1] \in Frame /\ Head(stack) = stack[1]
  BY <1>1
<1>3. /\ e = stack[1].event /\ stack[1].next \in DOMAIN subscribers[e.type]
      /\ subscribers[e.type][stack[1].next] = h
  BY <1>2 DEF Turn
<1>4. e \in Event /\ e.type \in EventTypes
  BY <1>2, <1>3 DEF Frame, Event
<1>5. subscribers[e.type] \in Seq(Handlers)
  BY <1>4 DEF ListsInv
<1>6. stack[1].next > 0
  BY <1>3, <1>5
<1>7. QED
  BY <1>1, <1>2, <1>3, <1>4, <1>6

(* The effect of an answer on what has been published or will be. *)
LEMMA AnswerEffect ==
  ASSUME WayInv, ListsInv, NEW h, NEW e, Turn(h, e), NEW events \in Seq(Event), Answers(events),
         published' = published
  PROVE  /\ \A P : Ever(P)' = Ever(P) + CountIn(events, P)
         /\ \A o : CountIn(stack', FramesOf(o))
                     = CountIn(events, {OrderEvent(o)}) + CountIn(stack, FramesOf(o))
<1>1. /\ \A P : CountIn(stack', FreshOf(P)) = CountIn(events, P) + CountIn(stack, FreshOf(P))
      /\ \A o : CountIn(stack', FramesOf(o))
                  = CountIn(events, {OrderEvent(o)}) + CountIn(stack, FramesOf(o))
  BY TurnIs, AnswerCounts DEF WayInv
<1>2. ASSUME NEW P PROVE Ever(P)' = Ever(P) + CountIn(events, P)
  <2>1. /\ CountIn(published, P) \in Nat /\ CountIn(events, P) \in Nat
        /\ CountIn(stack, FreshOf(P)) \in Nat
    BY CountType DEF WayInv
  <2>2. Ever(P)' = CountIn(published, P) + CountIn(stack', FreshOf(P))
    BY DEF Ever, FreshOf
  <2>3. QED
    BY <1>1, <2>1, <2>2 DEF Ever
<1>3. QED
  BY <1>1, <1>2

-----------------------------------------------------------------------------
RiskVerdicts(o) == {Ev("RISK_APPROVED", o), Ev("RISK_DENIED", o)}
OrderVerdicts(o) == {Ev("ORDER_ACCEPTED", o), Ev("ORDER_REJECTED", o)}

(* The gate is to be called for an order: it waits in the queue, its publish *)
(* has not begun, or the gate is not yet past in the list.                   *)
From(list, n) == \E k \in DOMAIN list : k >= n /\ list[k] = "gate"

GateFrom(n) == From(subscribers["ORDER_SUBMITTED"], n)

Ahead(o) ==
  \/ \E i \in DOMAIN queue : queue[i] = OrderEvent(o)
  \/ \E i \in DOMAIN stack :
       stack[i].event = OrderEvent(o) /\ (stack[i].next = 0 \/ GateFrom(stack[i].next))

(* An order is on its way at most once, and has a risk verdict for every    *)
(* order verdict, published or to be published.                             *)
CountInv ==
  \A o \in Orders :
    /\ Tokens(o) <= 1
    /\ o \notin submitted => Tokens(o) = 0 /\ Ever(RiskVerdicts(o)) = 0
    /\ Ever(RiskVerdicts(o)) = Ever(OrderVerdicts(o))

(* One verdict, and none yet as long as the gate is still to be called. *)
OnceInv ==
  \A o \in Orders \ disturbed :
    /\ Ever(RiskVerdicts(o)) <= 1
    /\ Ahead(o) => Ever(RiskVerdicts(o)) = 0

(* What is counted is a number. *)
LEMMA Numbers ==
  ASSUME WayInv
  PROVE  /\ \A P : Ever(P) \in Nat
         /\ \A o : Tokens(o) \in Nat
<1>1. stack \in Seq(Frame) /\ queue \in Seq(Event) /\ published \in Seq(Event)
  BY DEF WayInv
<1>2. \A P : CountIn(stack, P) \in Nat /\ CountIn(queue, P) \in Nat /\ CountIn(published, P) \in Nat
  BY <1>1, CountType
<1>3. QED
  BY <1>2 DEF Ever, Tokens

(* Two places of which there is at most one are the same. *)
LEMMA AtMostOne ==
  ASSUME NEW T, NEW s \in Seq(T), NEW P, CountIn(s, P) <= 1,
         NEW i \in DOMAIN s, NEW j \in DOMAIN s, s[i] \in P, s[j] \in P
  PROVE  i = j
<1>1. IsFiniteSet(Places(s, P)) /\ CountIn(s, P) \in Nat /\ i \in Places(s, P) /\ j \in Places(s, P)
  BY CountType DEF Places
<1> DEFINE rest == Places(s, P) \ {i}
<1>2. IsFiniteSet(rest) /\ Cardinality(rest) = Cardinality(Places(s, P)) - 1
  BY <1>1, FS_RemoveElement
<1>3. Cardinality(rest) \in Nat
  BY <1>2, FS_CardinalityType
<1> HIDE DEF rest
<1>4. Cardinality(rest) = 0
  BY <1>1, <1>2, <1>3 DEF CountIn
<1>5. rest = {}
  BY <1>2, <1>4, FS_EmptySet
<1>6. QED
  BY <1>1, <1>5 DEF rest

(* A step that publishes no verdict and brings no order back to the gate. *)
LEMMA QuietStep ==
  ASSUME WayInv, CountInv, OnceInv,
         submitted \subseteq submitted', disturbed \subseteq disturbed',
         \A o \in Orders : Ever(RiskVerdicts(o))' = Ever(RiskVerdicts(o)),
         \A o \in Orders : Ever(OrderVerdicts(o))' = Ever(OrderVerdicts(o)),
         \A o \in Orders : Tokens(o)' \in Nat,
         \A o \in Orders : Tokens(o)' <= Tokens(o) \/ (o \in submitted' \ submitted /\ Tokens(o)' <= 1),
         \A o \in Orders \ disturbed' : Ahead(o)' => Ahead(o) \/ Ever(RiskVerdicts(o)) = 0
  PROVE  CountInv' /\ OnceInv'
<1>1. /\ \A o \in Orders : Ever(RiskVerdicts(o)) \in Nat /\ Tokens(o) \in Nat
  BY Numbers
<1>2. ASSUME NEW o \in Orders
      PROVE  /\ Tokens(o)' <= 1
             /\ o \notin submitted' => Tokens(o)' = 0 /\ Ever(RiskVerdicts(o))' = 0
             /\ Ever(RiskVerdicts(o))' = Ever(OrderVerdicts(o))'
  <2>1. /\ Tokens(o) <= 1
        /\ o \notin submitted => Tokens(o) = 0 /\ Ever(RiskVerdicts(o)) = 0
        /\ Ever(RiskVerdicts(o)) = Ever(OrderVerdicts(o))
    BY DEF CountInv
  <2>2. PICK t \in Nat : t = Tokens(o)'
    OBVIOUS
  <2>3. t <= Tokens(o) \/ (o \in submitted' \ submitted /\ t <= 1)
    BY <2>2, Zenon
  <2>4. t <= 1
    BY <1>1, <2>1, <2>3
  <2>5. ASSUME o \notin submitted' PROVE t = 0 /\ Ever(RiskVerdicts(o)) = 0
    BY <1>1, <2>1, <2>3, <2>5
  <2>6. Ever(RiskVerdicts(o))' = Ever(RiskVerdicts(o)) /\ Ever(OrderVerdicts(o))' = Ever(OrderVerdicts(o))
    OBVIOUS
  <2>7. QED
    BY <2>1, <2>2, <2>4, <2>5, <2>6, Zenon
<1>3. ASSUME NEW o \in Orders \ disturbed'
      PROVE  /\ Ever(RiskVerdicts(o))' <= 1
             /\ Ahead(o)' => Ever(RiskVerdicts(o))' = 0
  BY DEF OnceInv
<1>4. CountInv'
  BY <1>2 DEF CountInv
<1>5. OnceInv'
  BY <1>3 DEF OnceInv
<1>6. QED
  BY <1>4, <1>5

(* A later place in the list is not nearer to the gate. *)
LEMMA GateFromLater ==
  ASSUME ListsInv, NEW m \in Nat, NEW n \in Nat, m <= n, GateFrom(n)
  PROVE  GateFrom(m)
<1>1. PICK k \in DOMAIN subscribers["ORDER_SUBMITTED"] :
        k >= n /\ subscribers["ORDER_SUBMITTED"][k] = "gate"
  BY DEF GateFrom, From
<1>2. subscribers["ORDER_SUBMITTED"] \in Seq(Handlers)
  BY GateAssumption DEF ListsInv, Types
<1>3. k \in Nat
  BY <1>1, <1>2
<1>4. k >= m
  BY <1>1, <1>3
<1>5. QED
  BY <1>1, <1>4 DEF GateFrom, From

(* An order that was not ahead of the gate is not after an answer, unless   *)
(* the answer is the order.                                                 *)
LEMMA AnswerAhead ==
  ASSUME WayInv, ListsInv, NEW h, NEW e, Turn(h, e), NEW events \in Seq(Event), Answers(events),
         NEW o, \A k \in DOMAIN events : events[k] # OrderEvent(o),
         \A i \in DOMAIN queue' : queue'[i] = OrderEvent(o) =>
           \E k \in DOMAIN queue : queue[k] = OrderEvent(o),
         \/ subscribers' = subscribers
         \/ \A k \in DOMAIN subscribers'["ORDER_SUBMITTED"] :
              subscribers'["ORDER_SUBMITTED"][k] # "gate",
         Ahead(o)'
  PROVE  Ahead(o)
<1>1. CASE \E i \in DOMAIN queue' : queue'[i] = OrderEvent(o)
  BY <1>1 DEF Ahead
<1>2. CASE \E i \in DOMAIN stack' : /\ stack'[i].event = OrderEvent(o)
                                    /\ \/ stack'[i].next = 0
                                       \/ From(subscribers'["ORDER_SUBMITTED"], stack'[i].next)
  <2>1. PICK i \in DOMAIN stack' : /\ stack'[i].event = OrderEvent(o)
                                   /\ \/ stack'[i].next = 0
                                      \/ From(subscribers'["ORDER_SUBMITTED"], stack'[i].next)
    BY <1>2
  <2>2. /\ stack' \in Seq(Frame) /\ Len(stack') = Len(events) + Len(stack)
        /\ \A k \in 1 .. Len(events) : stack'[k] = Fresh(events[k])
        /\ \A j \in 1 .. Len(stack) : stack'[Len(events) + j] = Bumped[j]
        /\ \A j \in 1 .. Len(stack) :
             /\ Bumped[j].event = stack[j].event
             /\ Bumped[j].next = IF j = 1 THEN stack[1].next + 1 ELSE stack[j].next
    BY TurnIs, AnswerShape DEF WayInv
  <2>3. /\ DOMAIN stack' = 1 .. Len(events) + Len(stack) /\ Len(events) \in Nat /\ Len(stack) \in Nat
        /\ DOMAIN events = 1 .. Len(events) /\ DOMAIN stack = 1 .. Len(stack)
        /\ \A j \in 1 .. Len(stack) : stack[j] \in Frame
    BY <2>2 DEF WayInv
  <2>4. ~(i <= Len(events))
    <3>1. \A k \in 1 .. Len(events) : stack'[k].event = events[k]
      <4>1. \A x : Fresh(x).event = x
        BY DEF Fresh
      <4>2. QED
        BY <2>2, <4>1, Zenon
    <3>2. i \in Nat \ {0}
      BY <2>3
    <3>3. QED
      BY <2>1, <2>3, <3>1, <3>2
  <2> DEFINE j == i - Len(events)
  <2>5. j \in 1 .. Len(stack) /\ i = Len(events) + j
    BY <2>1, <2>3, <2>4
  <2> HIDE DEF j
  <2>6. /\ stack[j].event = OrderEvent(o) /\ stack[j].next \in Nat
        /\ stack'[i].next = IF j = 1 THEN stack[1].next + 1 ELSE stack[j].next
    BY <2>1, <2>2, <2>3, <2>5 DEF Frame
  <2>7. stack[j].next = 0 \/ GateFrom(stack[j].next)
    <3>1. CASE stack'[i].next = 0
      BY <2>6, <3>1
    <3>2. CASE From(subscribers'["ORDER_SUBMITTED"], stack'[i].next)
      <4>1. subscribers' = subscribers
        BY <3>2 DEF From
      <4>2. GateFrom(stack'[i].next)
        BY <3>2, <4>1 DEF GateFrom
      <4>3. stack'[i].next \in Nat /\ stack[j].next <= stack'[i].next
        BY <2>6
      <4>4. QED
        BY <2>6, <4>2, <4>3, GateFromLater
    <3>3. QED
      BY <2>1, <3>1, <3>2
  <2>8. QED
    BY <2>3, <2>5, <2>6, <2>7 DEF Ahead
<1>3. QED
  BY <1>1, <1>2 DEF Ahead, GateFrom

(* The gate that judges an order had it ahead, and has it ahead no more. *)
LEMMA GatePasses ==
  ASSUME WayInv, ListsInv, NEW o, Turn("gate", OrderEvent(o)), Tokens(o) <= 1,
         NEW events \in Seq(Event), Answers(events),
         \A k \in DOMAIN events : events[k] # OrderEvent(o),
         queue' = queue, subscribers' = subscribers
  PROVE  Ahead(o) /\ ~Ahead(o)'
<1>1. /\ stack # <<>> /\ 1 \in DOMAIN stack /\ stack[1] \in Frame
      /\ OrderEvent(o) = stack[1].event /\ stack[1].next > 0
      /\ stack[1].next \in DOMAIN subscribers["ORDER_SUBMITTED"]
      /\ subscribers["ORDER_SUBMITTED"][stack[1].next] = "gate"
  <2>1. /\ stack # <<>> /\ 1 \in DOMAIN stack /\ stack[1] \in Frame
        /\ OrderEvent(o) = stack[1].event /\ stack[1].next > 0
        /\ stack[1].next \in DOMAIN subscribers[OrderEvent(o).type]
        /\ subscribers[OrderEvent(o).type][stack[1].next] = "gate"
    BY TurnIs
  <2>2. QED
    BY <2>1 DEF OrderEvent
<1>2. subscribers["ORDER_SUBMITTED"] \in Seq(Handlers)
  BY GateAssumption DEF ListsInv, Types
<1>3. stack[1].next \in Nat /\ stack[1].next >= stack[1].next
  BY <1>1 DEF Frame
<1>4. Ahead(o)
  BY <1>1, <1>3 DEF Ahead, GateFrom, From
<1>5. /\ stack \in Seq(Frame) /\ queue \in Seq(Event)
      /\ CountIn(stack, FramesOf(o)) \in Nat /\ CountIn(queue, {OrderEvent(o)}) \in Nat
      /\ stack[1] \in FramesOf(o)
  BY <1>1, CountType DEF WayInv, FramesOf
<1>6. CountIn(stack, FramesOf(o)) # 0
  BY <1>1, <1>5, CountType
<1>7. CountIn(stack, FramesOf(o)) <= 1 /\ CountIn(queue, {OrderEvent(o)}) = 0
  BY <1>5, <1>6 DEF Tokens
<1>8. \A i \in DOMAIN queue : queue[i] # OrderEvent(o)
  BY <1>5, <1>7, CountType
<1>9. \A j \in DOMAIN stack : stack[j].event = OrderEvent(o) => j = 1
  <2>1. \A j \in DOMAIN stack : stack[j] \in Frame
    BY <1>5
  <2>2. QED
    BY <1>1, <1>5, <1>7, <2>1, AtMostOne DEF FramesOf
<1>10. ~GateFrom(stack[1].next + 1)
  <2>1. ASSUME NEW k \in DOMAIN subscribers["ORDER_SUBMITTED"], k >= stack[1].next + 1,
               subscribers["ORDER_SUBMITTED"][k] = "gate"
        PROVE  FALSE
    <3>1. k = stack[1].next
      BY <1>1, <2>1 DEF ListsInv, GateTypes
    <3>2. QED
      BY <1>3, <2>1, <3>1
  <2>2. QED
    BY <2>1 DEF GateFrom, From
<1>11. ASSUME Ahead(o)' PROVE FALSE
  <2>1. PICK i \in DOMAIN stack' : /\ stack'[i].event = OrderEvent(o)
                                   /\ \/ stack'[i].next = 0
                                      \/ From(subscribers'["ORDER_SUBMITTED"], stack'[i].next)
    BY <1>8, <1>11 DEF Ahead, GateFrom
  <2>2. /\ stack' \in Seq(Frame) /\ Len(stack') = Len(events) + Len(stack)
        /\ \A k \in 1 .. Len(events) : stack'[k] = Fresh(events[k])
        /\ \A j \in 1 .. Len(stack) : stack'[Len(events) + j] = Bumped[j]
        /\ \A j \in 1 .. Len(stack) :
             /\ Bumped[j].event = stack[j].event
             /\ Bumped[j].next = IF j = 1 THEN stack[1].next + 1 ELSE stack[j].next
    BY <1>1, <1>5, AnswerShape
  <2>3. /\ DOMAIN stack' = 1 .. Len(events) + Len(stack) /\ Len(events) \in Nat /\ Len(stack) \in Nat
        /\ DOMAIN events = 1 .. Len(events) /\ DOMAIN stack = 1 .. Len(stack)
    BY <1>5, <2>2
  <2>4. ~(i <= Len(events))
    <3>1. \A k \in 1 .. Len(events) : stack'[k].event = events[k]
      <4>1. \A x : Fresh(x).event = x
        BY DEF Fresh
      <4>2. QED
        BY <2>2, <4>1, Zenon
    <3>2. i \in Nat \ {0}
      BY <2>3
    <3>3. QED
      BY <2>1, <2>3, <3>1, <3>2
  <2> DEFINE j == i - Len(events)
  <2>5. j \in 1 .. Len(stack) /\ i = Len(events) + j
    BY <2>1, <2>3, <2>4
  <2> HIDE DEF j
  <2>6. stack[j].event = OrderEvent(o)
    BY <2>1, <2>2, <2>5
  <2>7. j = 1
    BY <1>9, <2>3, <2>5, <2>6
  <2>8. stack'[i].next = stack[1].next + 1
    BY <2>2, <2>5, <2>7
  <2>9. GateFrom(stack'[i].next)
    <3>1. stack'[i].next # 0
      BY <1>3, <2>8
    <3>2. QED
      BY <2>1, <3>1 DEF GateFrom
  <2>10. QED
    BY <1>10, <2>8, <2>9
<1>12. QED
  BY <1>4, <1>11

Verdicts == {"RISK_APPROVED", "RISK_DENIED", "ORDER_ACCEPTED", "ORDER_REJECTED"}

(* Events that are no verdicts do not count as verdicts. *)
LEMMA NoVerdict ==
  ASSUME NEW events \in Seq(Event), \A k \in DOMAIN events : events[k].type \notin Verdicts, NEW o
  PROVE  CountIn(events, RiskVerdicts(o)) = 0 /\ CountIn(events, OrderVerdicts(o)) = 0
<1>1. \A k \in DOMAIN events : events[k] \notin RiskVerdicts(o) /\ events[k] \notin OrderVerdicts(o)
  BY DEF RiskVerdicts, OrderVerdicts, Ev, Verdicts
<1>2. QED
  BY <1>1, CountType

(* A handler answers with no verdict and with no order. *)
LEMMA AnswerQuiet ==
  ASSUME WayInv, ListsInv, CountInv, OnceInv,
         NEW h, NEW e, Turn(h, e), NEW events \in Seq(Event), Answers(events),
         \A k \in DOMAIN events : events[k].type \notin Verdicts \cup {"ORDER_SUBMITTED"},
         UNCHANGED <<published, queue, submitted>>, disturbed \subseteq disturbed',
         \A o \in Orders \ disturbed' : Ahead(o)' => Ahead(o)
  PROVE  CountInv' /\ OnceInv'
<1>1. /\ \A P : Ever(P)' = Ever(P) + CountIn(events, P)
      /\ \A o : CountIn(stack', FramesOf(o))
                  = CountIn(events, {OrderEvent(o)}) + CountIn(stack, FramesOf(o))
  BY AnswerEffect
<1>2. ASSUME NEW o \in Orders
      PROVE  /\ Ever(RiskVerdicts(o))' = Ever(RiskVerdicts(o))
             /\ Ever(OrderVerdicts(o))' = Ever(OrderVerdicts(o))
             /\ Tokens(o)' = Tokens(o)
  <2>1. /\ CountIn(events, RiskVerdicts(o)) = 0 /\ CountIn(events, OrderVerdicts(o)) = 0
    BY NoVerdict
  <2>2. CountIn(events, {OrderEvent(o)}) = 0
    <3>1. \A k \in DOMAIN events : events[k] \notin {OrderEvent(o)}
      BY DEF OrderEvent
    <3>2. QED
      BY <3>1, CountType
  <2>3. /\ Ever(RiskVerdicts(o)) \in Nat /\ Ever(OrderVerdicts(o)) \in Nat
        /\ CountIn(stack, FramesOf(o)) \in Nat
    BY Numbers, CountType DEF WayInv
  <2>4. Ever(RiskVerdicts(o))' = Ever(RiskVerdicts(o)) + CountIn(events, RiskVerdicts(o))
    BY <1>1 DEF RiskVerdicts, Ev
  <2>5. Ever(OrderVerdicts(o))' = Ever(OrderVerdicts(o)) + CountIn(events, OrderVerdicts(o))
    BY <1>1 DEF OrderVerdicts, Ev
  <2>6. CountIn(stack', FramesOf(o)) = CountIn(stack, FramesOf(o))
    BY <1>1, <2>2, <2>3
  <2>7. Tokens(o)' = Tokens(o)
    BY <2>6 DEF Tokens, FramesOf
  <2>8. QED
    BY <2>1, <2>3, <2>4, <2>5, <2>7
<1>3. \A o \in Orders : Tokens(o) \in Nat /\ Tokens(o) <= Tokens(o)
  BY Numbers
<1>4. QED
  BY <1>2, <1>3, QuietStep

(* Nothing happens to the stack, the queue and the history. *)
LEMMA UnmovedQuiet ==
  ASSUME WayInv, CountInv, OnceInv,
         UNCHANGED <<stack, published, queue, submitted>>, disturbed \subseteq disturbed',
         \A o \in Orders \ disturbed' : Ahead(o)' => Ahead(o)
  PROVE  CountInv' /\ OnceInv'
<1>1. ASSUME NEW o \in Orders
      PROVE  /\ Ever(RiskVerdicts(o))' = Ever(RiskVerdicts(o))
             /\ Ever(OrderVerdicts(o))' = Ever(OrderVerdicts(o))
             /\ Tokens(o)' = Tokens(o)
  BY DEF Ever, RiskVerdicts, OrderVerdicts, Ev, FreshOf, Tokens, FramesOf
<1>2. \A o \in Orders : Tokens(o) \in Nat /\ Tokens(o) <= Tokens(o)
  BY Numbers
<1>3. QED
  BY <1>1, <1>2, QuietStep

(* The bus begins a publish, takes an order from the queue, or returns. *)
LEMMA CountBus ==
  ASSUME WayInv, ListsInv, CountInv, OnceInv, BusStep
  PROVE  CountInv' /\ OnceInv'
<1>1. UNCHANGED <<submitted, disturbed>> /\ subscribers' = subscribers
  BY DEF BusStep, Begin, Return, Consume
<1>2. \A o : Tokens(o) \in Nat
  BY Numbers
<1>3. CASE Begin
  <2>1. /\ 1 \in DOMAIN stack /\ DOMAIN stack' = DOMAIN stack /\ stack[1].next = 0
        /\ stack'[1] = [event |-> stack[1].event, next |-> 1]
        /\ \A j \in DOMAIN stack : j # 1 => stack'[j] = stack[j]
        /\ queue' = queue
        /\ \A P : Ever(P)' = Ever(P)
        /\ \A o : Tokens(o)' = Tokens(o)
    BY <1>3, BeginEffect
  <2>2. ASSUME NEW o \in Orders, Ahead(o)' PROVE Ahead(o)
    <3>1. CASE \E i \in DOMAIN queue' : queue'[i] = OrderEvent(o)
      BY <2>1, <3>1 DEF Ahead
    <3>2. CASE \E i \in DOMAIN stack' :
                 /\ stack'[i].event = OrderEvent(o)
                 /\ stack'[i].next = 0 \/ From(subscribers'["ORDER_SUBMITTED"], stack'[i].next)
      BY <1>1, <2>1, <3>2 DEF Ahead, GateFrom
    <3>3. QED
      BY <2>2, <3>1, <3>2 DEF Ahead, GateFrom
  <2>3. \A o \in Orders : /\ Ever(RiskVerdicts(o))' = Ever(RiskVerdicts(o))
                          /\ Ever(OrderVerdicts(o))' = Ever(OrderVerdicts(o))
    BY <2>1 DEF RiskVerdicts, OrderVerdicts, Ev
  <2>4. \A o \in Orders : Tokens(o)' \in Nat /\ Tokens(o)' <= Tokens(o)
    BY <1>2, <2>1
  <2>5. QED
    BY <1>1, <2>2, <2>3, <2>4, QuietStep
<1>4. CASE Return
  <2>1. /\ \A i \in DOMAIN stack' : i + 1 \in DOMAIN stack /\ stack'[i] = stack[i + 1]
        /\ queue' = queue
        /\ \A P : Ever(P)' = Ever(P)
        /\ \A o : Tokens(o)' \in Nat /\ Tokens(o)' <= Tokens(o)
    BY <1>4, ReturnEffect
  <2>2. ASSUME NEW o \in Orders, Ahead(o)' PROVE Ahead(o)
    <3>1. CASE \E i \in DOMAIN queue' : queue'[i] = OrderEvent(o)
      BY <2>1, <3>1 DEF Ahead
    <3>2. CASE \E i \in DOMAIN stack' :
                 /\ stack'[i].event = OrderEvent(o)
                 /\ stack'[i].next = 0 \/ From(subscribers'["ORDER_SUBMITTED"], stack'[i].next)
      BY <1>1, <2>1, <3>2 DEF Ahead, GateFrom
    <3>3. QED
      BY <2>2, <3>1, <3>2 DEF Ahead, GateFrom
  <2>3. \A o \in Orders : /\ Ever(RiskVerdicts(o))' = Ever(RiskVerdicts(o))
                          /\ Ever(OrderVerdicts(o))' = Ever(OrderVerdicts(o))
    BY <2>1 DEF RiskVerdicts, OrderVerdicts, Ev
  <2>4. QED
    BY <1>1, <2>1, <2>2, <2>3, QuietStep
<1>5. CASE Consume
  <2> DEFINE e == Head(queue)
  <2>1. /\ Idle /\ queue # <<>> /\ queue' = Tail(queue) /\ published' = published
        /\ stack' = Frames(<<e>>)
    BY <1>5 DEF Consume
  <2>2. /\ queue \in Seq(Event) /\ e \in Event /\ 1 \in DOMAIN queue /\ e = queue[1]
        /\ queue' \in Seq(Event)
        /\ \A i \in DOMAIN queue' : i + 1 \in DOMAIN queue /\ queue'[i] = queue[i + 1]
    BY <2>1 DEF WayInv
  <2>3. e.type = "ORDER_SUBMITTED"
    BY <2>2 DEF WayInv
  <2>4. \A P : CountIn(queue, P) = One(e, P) + CountIn(queue', P)
    BY <2>1, <2>2, CountTail
  <2> HIDE DEF e
  <2>5. /\ DOMAIN stack' = {1} /\ stack'[1] = Fresh(e)
        /\ \A P : Ever(P)' = Ever(P) + One(e, P)
        /\ \A o : /\ CountIn(stack, FramesOf(o)) = 0
                  /\ CountIn(stack', FramesOf(o)) = One(e, {OrderEvent(o)})
    BY <2>1, <2>2, IdleEffect
  <2>6. ASSUME NEW o \in Orders
        PROVE  /\ Ever(RiskVerdicts(o))' = Ever(RiskVerdicts(o))
               /\ Ever(OrderVerdicts(o))' = Ever(OrderVerdicts(o))
               /\ Tokens(o)' = Tokens(o)
    <3>1. One(e, RiskVerdicts(o)) = 0 /\ One(e, OrderVerdicts(o)) = 0
      BY <2>3 DEF One, RiskVerdicts, OrderVerdicts, Ev
    <3>2. Ever(RiskVerdicts(o)) \in Nat /\ Ever(OrderVerdicts(o)) \in Nat
      BY Numbers
    <3>3. Ever(RiskVerdicts(o))' = Ever(RiskVerdicts(o)) + One(e, RiskVerdicts(o))
      BY <2>5 DEF RiskVerdicts, Ev
    <3>4. Ever(OrderVerdicts(o))' = Ever(OrderVerdicts(o)) + One(e, OrderVerdicts(o))
      BY <2>5 DEF OrderVerdicts, Ev
    <3>5. Tokens(o)' = CountIn(queue', {OrderEvent(o)}) + CountIn(stack', FramesOf(o))
      BY DEF Tokens, FramesOf, OrderEvent
    <3>6. CountIn(queue', {OrderEvent(o)}) \in Nat /\ One(e, {OrderEvent(o)}) \in {0, 1}
      BY <2>2, CountType DEF One
    <3>7. Tokens(o)' = Tokens(o)
      BY <2>4, <2>5, <3>5, <3>6 DEF Tokens
    <3>8. QED
      BY <3>1, <3>2, <3>3, <3>4, <3>7
  <2>7. ASSUME NEW o \in Orders, Ahead(o)' PROVE Ahead(o)
    <3>1. CASE \E i \in DOMAIN queue' : queue'[i] = OrderEvent(o)
      BY <2>2, <3>1 DEF Ahead
    <3>2. CASE \E i \in DOMAIN stack' : stack'[i].event = OrderEvent(o)
      BY <2>2, <2>5, <3>2 DEF Ahead, Fresh
    <3>3. QED
      BY <2>7, <3>1, <3>2 DEF Ahead, GateFrom
  <2>8. \A o \in Orders : Tokens(o)' \in Nat /\ Tokens(o)' <= Tokens(o)
    BY <1>2, <2>6
  <2>9. QED
    BY <1>1, <2>6, <2>7, <2>8, QuietStep
<1>6. QED
  BY <1>3, <1>4, <1>5 DEF BusStep

(* What the gate publishes of an order: one verdict of each kind. *)
LEMMA VerdictCounts ==
  ASSUME NEW s \in Orders
  PROVE  /\ Verdict(s) \in Seq(Event)
         /\ \A k \in DOMAIN Verdict(s) : Verdict(s)[k].type \in Verdicts
         /\ \A o \in Orders :
              /\ CountIn(Verdict(s), RiskVerdicts(o)) = IF o = s THEN 1 ELSE 0
              /\ CountIn(Verdict(s), OrderVerdicts(o)) = IF o = s THEN 1 ELSE 0
              /\ CountIn(Verdict(s), {OrderEvent(o)}) = 0
<1>1. \A type \in Types : Ev(type, s) \in Event
  BY EventsOfOrders, GateAssumption DEF Ev
<1>2. PICK a \in {"RISK_APPROVED", "RISK_DENIED"}, b \in {"ORDER_ACCEPTED", "ORDER_REJECTED"} :
        Verdict(s) = <<Ev(a, s), Ev(b, s)>>
  BY DEF Verdict, Ev
<1> DEFINE x == Ev(a, s)
           y == Ev(b, s)
<1>3. x \in Event /\ y \in Event /\ x.type = a /\ y.type = b /\ x.about = s /\ y.about = s
  BY <1>1 DEF Types, Ev
<1>4. \A o \in Orders :
        /\ One(x, RiskVerdicts(o)) = (IF o = s THEN 1 ELSE 0) /\ One(y, RiskVerdicts(o)) = 0
        /\ One(x, OrderVerdicts(o)) = 0 /\ One(y, OrderVerdicts(o)) = (IF o = s THEN 1 ELSE 0)
        /\ One(x, {OrderEvent(o)}) = 0 /\ One(y, {OrderEvent(o)}) = 0
  BY DEF One, RiskVerdicts, OrderVerdicts, OrderEvent, Ev
<1> HIDE DEF x, y
<1>5. \A P : CountIn(<<x, y>>, P) = One(x, P) + One(y, P)
  <2> DEFINE both == <<x, y>>
  <2>1. both \in Seq(Event) /\ Len(both) = 2 /\ both[1] = x /\ both[2] = y
    BY <1>3
  <2> HIDE DEF both
  <2>2. \A P : CountIn(both, P) = One(x, P) + One(y, P)
    BY <2>1, CountOfTwo
  <2>3. QED
    BY <2>2 DEF both
<1>6. <<x, y>> \in Seq(Event) /\ \A k \in DOMAIN <<x, y>> : <<x, y>>[k].type \in Verdicts
  BY <1>3 DEF Verdicts
<1>7. Verdict(s) = <<x, y>>
  BY <1>2 DEF x, y
<1>8. QED
  BY <1>4, <1>5, <1>6, <1>7, SMTT(30)

(* The gate judges the order that was ahead of it, and no other. *)
LEMMA CountGate ==
  ASSUME WayInv, ListsInv, CountInv, OnceInv, GateStep
  PROVE  CountInv' /\ OnceInv'
<1>1. UNCHANGED <<published, queue, submitted, disturbed, subscribers>>
  BY DEF GateStep, GateTurn, OnOrder, OnPositionUpdate
<1>2. ASSUME NEW s \in Subjects, Turn("gate", PositionEvent(s)), OnPositionUpdate(s)
      PROVE  CountInv' /\ OnceInv'
  <2>1. Answers(<<>>) /\ <<>> \in Seq(Event) /\ \A k \in DOMAIN <<>> : FALSE
    BY <1>2 DEF OnPositionUpdate
  <2>2. \A o : Ahead(o)' => Ahead(o)
    BY <1>1, <1>2, <2>1, AnswerAhead
  <2>3. QED
    BY <1>1, <1>2, <2>1, <2>2, AnswerQuiet
<1>3. ASSUME NEW s \in Subjects, Turn("gate", OrderEvent(s)), OnOrder(s)
      PROVE  CountInv' /\ OnceInv'
  <2>1. s \in submitted /\ s \in Orders
    <3>1. stack[1].event = OrderEvent(s) /\ 1 \in DOMAIN stack
      BY <1>3, TurnIs
    <3>2. s \in submitted
      BY <3>1 DEF WayInv, OrderEvent
    <3>3. QED
      BY <3>2 DEF WayInv
  <2> DEFINE events == Verdict(s)
  <2>2. /\ events \in Seq(Event) /\ Answers(events)
        /\ \A k \in DOMAIN events : events[k].type \in Verdicts
        /\ \A o \in Orders :
             /\ CountIn(events, RiskVerdicts(o)) = IF o = s THEN 1 ELSE 0
             /\ CountIn(events, OrderVerdicts(o)) = IF o = s THEN 1 ELSE 0
             /\ CountIn(events, {OrderEvent(o)}) = 0
    BY <1>3, <2>1, VerdictCounts DEF OnOrder
  <2> HIDE DEF events
  <2>3. /\ \A P : Ever(P)' = Ever(P) + CountIn(events, P)
        /\ \A o : CountIn(stack', FramesOf(o))
                    = CountIn(events, {OrderEvent(o)}) + CountIn(stack, FramesOf(o))
    BY <1>1, <1>3, <2>2, AnswerEffect
  <2>4. \A o : \A k \in DOMAIN events : events[k] # OrderEvent(o)
    BY <2>2 DEF Verdicts, OrderEvent
  <2>5. \A o : Ahead(o)' => Ahead(o)
    BY <1>1, <1>3, <2>2, <2>4, AnswerAhead
  <2>6. Ahead(s) /\ ~Ahead(s)'
    BY <1>1, <1>3, <2>1, <2>2, <2>4, GatePasses DEF CountInv
  <2>7. ASSUME NEW o \in Orders
        PROVE  /\ Ever(RiskVerdicts(o))' = Ever(RiskVerdicts(o)) + (IF o = s THEN 1 ELSE 0)
               /\ Ever(OrderVerdicts(o))' = Ever(OrderVerdicts(o)) + (IF o = s THEN 1 ELSE 0)
               /\ Tokens(o)' = Tokens(o)
               /\ Ever(RiskVerdicts(o)) \in Nat
    <3>1. Ever(RiskVerdicts(o))' = Ever(RiskVerdicts(o)) + CountIn(events, RiskVerdicts(o))
      BY <2>3 DEF RiskVerdicts, Ev
    <3>2. Ever(OrderVerdicts(o))' = Ever(OrderVerdicts(o)) + CountIn(events, OrderVerdicts(o))
      BY <2>3 DEF OrderVerdicts, Ev
    <3>3. CountIn(stack, FramesOf(o)) \in Nat
      BY CountType DEF WayInv
    <3>4. CountIn(stack', FramesOf(o)) = CountIn(stack, FramesOf(o))
      <4>1. CountIn(events, {OrderEvent(o)}) = 0
        BY <2>2
      <4>2. CountIn(stack', FramesOf(o)) = CountIn(events, {OrderEvent(o)}) + CountIn(stack, FramesOf(o))
        BY <2>3
      <4>3. QED
        BY <3>3, <4>1, <4>2
    <3>5. Tokens(o)' = Tokens(o)
      BY <1>1, <3>4 DEF Tokens, FramesOf
    <3>6. QED
      BY <2>2, <3>1, <3>2, <3>5, Numbers
  <2>8. CountInv'
    <3>1. ASSUME NEW o \in Orders
          PROVE  /\ Tokens(o)' <= 1
                 /\ o \notin submitted' => Tokens(o)' = 0 /\ Ever(RiskVerdicts(o))' = 0
                 /\ Ever(RiskVerdicts(o))' = Ever(OrderVerdicts(o))'
      <4>1. /\ Tokens(o) <= 1
            /\ o \notin submitted => Tokens(o) = 0 /\ Ever(RiskVerdicts(o)) = 0
            /\ Ever(RiskVerdicts(o)) = Ever(OrderVerdicts(o))
        BY DEF CountInv
      <4>2. CASE o = s
        BY <1>1, <2>1, <2>7, <4>1, <4>2
      <4>3. CASE o # s
        BY <1>1, <2>7, <4>1, <4>3
      <4>4. QED
        BY <4>2, <4>3
    <3>2. QED
      BY <3>1 DEF CountInv
  <2>9. OnceInv'
    <3>1. ASSUME NEW o \in Orders \ disturbed
          PROVE  /\ Ever(RiskVerdicts(o))' <= 1
                 /\ Ahead(o)' => Ever(RiskVerdicts(o))' = 0
      <4>1. /\ Ever(RiskVerdicts(o)) <= 1
            /\ Ahead(o) => Ever(RiskVerdicts(o)) = 0
        BY DEF OnceInv
      <4>2. CASE o = s
        BY <2>6, <2>7, <4>1, <4>2
      <4>3. CASE o # s
        BY <2>5, <2>7, <4>1, <4>3
      <4>4. QED
        BY <4>2, <4>3
    <3>2. QED
      BY <1>1, <3>1 DEF OnceInv
  <2>10. QED
    BY <2>8, <2>9
<1>4. QED
  BY <1>2, <1>3 DEF GateStep, GateTurn, OrderEvent, PositionEvent

(* An order is submitted: it had no verdict, and it was nowhere. *)
LEMMA CountSubmit ==
  ASSUME WayInv, ListsInv, CountInv, OnceInv, NEW s \in Orders, SubmitOrder(s)
  PROVE  CountInv' /\ OnceInv'
<1> DEFINE e == OrderEvent(s)
<1>1. /\ s \notin submitted /\ submitted' = submitted \cup {s}
      /\ UNCHANGED <<published, disturbed, subscribers>>
  BY DEF SubmitOrder, Publish
<1>2. /\ e \in Event /\ e.type = "ORDER_SUBMITTED"
      /\ \A o \in Orders : e = OrderEvent(o) <=> o = s
  BY EventsOfOrders DEF OrderEvent
<1>3. /\ queue \in Seq(Event) /\ Tokens(s) = 0 /\ Ever(RiskVerdicts(s)) = 0
      /\ \A o \in Orders : Tokens(o) \in Nat /\ Tokens(o) <= 1
      /\ \A o \in Orders : Ever(RiskVerdicts(o)) \in Nat /\ Ever(OrderVerdicts(o)) \in Nat
      /\ \A o \in Orders : CountIn(queue, {OrderEvent(o)}) \in Nat /\ CountIn(stack, FramesOf(o)) \in Nat
  BY <1>1, Numbers, CountType DEF CountInv, WayInv
<1>4. \A o \in Orders : One(e, {OrderEvent(o)}) = IF o = s THEN 1 ELSE 0
  BY <1>2 DEF One
<1>5. \A o \in Orders : One(e, RiskVerdicts(o)) = 0 /\ One(e, OrderVerdicts(o)) = 0
  BY <1>2 DEF One, RiskVerdicts, OrderVerdicts, Ev
<1> HIDE DEF e
(* Wherever the order goes, it is counted once more and no verdict is. *)
<1>6. ASSUME \A o \in Orders : Tokens(o)' = Tokens(o) + One(e, {OrderEvent(o)}),
             \A o \in Orders : Ever(RiskVerdicts(o))' = Ever(RiskVerdicts(o)),
             \A o \in Orders : Ever(OrderVerdicts(o))' = Ever(OrderVerdicts(o)),
             \A o \in Orders : o # s /\ Ahead(o)' => Ahead(o)
      PROVE  CountInv' /\ OnceInv'
  <2>1. ASSUME NEW o \in Orders
        PROVE  /\ Tokens(o)' \in Nat
               /\ Tokens(o)' <= Tokens(o) \/ (o \in submitted' \ submitted /\ Tokens(o)' <= 1)
               /\ Ahead(o)' => Ahead(o) \/ Ever(RiskVerdicts(o)) = 0
    <3>1. CASE o = s
      <4>1. Tokens(o)' = 1
        <5>1. Tokens(o)' = Tokens(o) + One(e, {OrderEvent(o)})
          BY <1>6
        <5>2. Tokens(o) = 0 /\ One(e, {OrderEvent(o)}) = 1
          BY <1>3, <1>4, <3>1
        <5>3. QED
          BY <5>1, <5>2
      <4>2. QED
        BY <1>1, <1>3, <3>1, <4>1
    <3>2. CASE o # s
      <4>1. Tokens(o)' = Tokens(o)
        <5>1. Tokens(o)' = Tokens(o) + One(e, {OrderEvent(o)})
          BY <1>6
        <5>2. Tokens(o) \in Nat /\ One(e, {OrderEvent(o)}) = 0
          BY <1>3, <1>4, <3>2
        <5>3. QED
          BY <5>1, <5>2
      <4>2. QED
        BY <1>3, <1>6, <3>2, <4>1
    <3>3. QED
      BY <3>1, <3>2
  <2>2. submitted \subseteq submitted' /\ disturbed \subseteq disturbed'
    BY <1>1
  <2>3. QED
    BY <1>6, <2>1, <2>2, QuietStep
<1>7. ASSUME PublishAsync(e)
      PROVE  /\ \A o : CountIn(queue', {OrderEvent(o)})
                         = CountIn(queue, {OrderEvent(o)}) + One(e, {OrderEvent(o)})
             /\ \A o \in Orders : \A i \in DOMAIN queue' :
                  o # s /\ queue'[i] = OrderEvent(o) => \E k \in DOMAIN queue : queue[k] = OrderEvent(o)
  <2>1. queue' = Append(queue, e)
    BY <1>7 DEF PublishAsync
  <2>2. \A o : CountIn(queue', {OrderEvent(o)})
                 = CountIn(queue, {OrderEvent(o)}) + One(e, {OrderEvent(o)})
    BY <1>2, <1>3, <2>1, CountAppend
  <2>3. \A i \in DOMAIN queue' : (i \in DOMAIN queue /\ queue'[i] = queue[i]) \/ queue'[i] = e
    BY <1>2, <1>3, <2>1
  <2>4. QED
    BY <1>2, <2>2, <2>3
<1>8. CASE Publish(e)
  <2>1. Idle /\ stack' = Frames(<<e>>) /\ queue' = queue /\ published' = published
    BY <1>8 DEF Publish
  <2>2. /\ DOMAIN stack' = {1} /\ stack'[1] = Fresh(e)
        /\ \A P : Ever(P)' = Ever(P) + One(e, P)
        /\ \A o : /\ CountIn(stack, FramesOf(o)) = 0
                  /\ CountIn(stack', FramesOf(o)) = One(e, {OrderEvent(o)})
    BY <1>2, <2>1, IdleEffect
  <2>3. ASSUME NEW o \in Orders
        PROVE  /\ Tokens(o)' = Tokens(o) + One(e, {OrderEvent(o)})
               /\ Ever(RiskVerdicts(o))' = Ever(RiskVerdicts(o))
               /\ Ever(OrderVerdicts(o))' = Ever(OrderVerdicts(o))
    <3>1. Ever(RiskVerdicts(o))' = Ever(RiskVerdicts(o)) + One(e, RiskVerdicts(o))
      BY <2>2 DEF RiskVerdicts, Ev
    <3>2. Ever(OrderVerdicts(o))' = Ever(OrderVerdicts(o)) + One(e, OrderVerdicts(o))
      BY <2>2 DEF OrderVerdicts, Ev
    <3>3. Tokens(o)' = CountIn(queue', {OrderEvent(o)}) + CountIn(stack', FramesOf(o))
      BY DEF Tokens, FramesOf, OrderEvent
    <3>4. One(e, {OrderEvent(o)}) \in {0, 1}
      BY DEF One
    <3>5. Tokens(o)' = Tokens(o) + One(e, {OrderEvent(o)})
      BY <1>3, <2>1, <2>2, <3>3, <3>4 DEF Tokens
    <3>6. QED
      BY <1>3, <1>5, <3>1, <3>2, <3>5
  <2>4. ASSUME NEW o \in Orders, o # s, Ahead(o)' PROVE Ahead(o)
    <3>1. ~\E i \in DOMAIN stack' : stack'[i].event = OrderEvent(o)
      BY <1>2, <2>2, <2>4 DEF Fresh, e
    <3>2. QED
      BY <2>1, <2>4, <3>1 DEF Ahead, GateFrom
  <2>5. QED
    BY <1>6, <2>3, <2>4
<1>9. CASE PublishAsync(e) /\ stack' = stack
  <2>1. ASSUME NEW o \in Orders
        PROVE  /\ Tokens(o)' = Tokens(o) + One(e, {OrderEvent(o)})
               /\ Ever(RiskVerdicts(o))' = Ever(RiskVerdicts(o))
               /\ Ever(OrderVerdicts(o))' = Ever(OrderVerdicts(o))
    <3>1. Tokens(o)' = CountIn(queue', {OrderEvent(o)}) + CountIn(stack, FramesOf(o))
      BY <1>9 DEF Tokens, FramesOf, OrderEvent
    <3>2. One(e, {OrderEvent(o)}) \in {0, 1}
      BY DEF One
    <3>3. Tokens(o)' = Tokens(o) + One(e, {OrderEvent(o)})
      BY <1>3, <1>7, <1>9, <3>1, <3>2 DEF Tokens
    <3>4. QED
      BY <1>1, <1>9, <3>3 DEF Ever, FreshOf, RiskVerdicts, OrderVerdicts, Ev
  <2>2. ASSUME NEW o \in Orders, o # s, Ahead(o)' PROVE Ahead(o)
    BY <1>1, <1>7, <1>9, <2>2 DEF Ahead, GateFrom
  <2>3. QED
    BY <1>6, <2>1, <2>2
<1>10. ASSUME NEW f, Turn("application", f), NEW events \in Seq(Event), Answers(events),
              \/ events = <<e>> /\ queue' = queue
              \/ events = <<>> /\ PublishAsync(e)
       PROVE  CountInv' /\ OnceInv'
  <2>1. /\ \A P : Ever(P)' = Ever(P) + CountIn(events, P)
        /\ \A o : CountIn(stack', FramesOf(o))
                    = CountIn(events, {OrderEvent(o)}) + CountIn(stack, FramesOf(o))
    BY <1>1, <1>10, AnswerEffect
  <2>2. \A k \in DOMAIN events : events[k] = e
    BY <1>10
  <2>3. ASSUME NEW P
        PROVE  \/ events = <<e>> /\ CountIn(events, P) = One(e, P)
               \/ events = <<>> /\ CountIn(events, P) = 0
    <3>1. events = <<e>> => CountIn(events, P) = One(e, P)
      <4>1. \A x \in Event : CountIn(<<x>>, P) = One(x, P)
        BY CountOfOne
      <4>2. QED
        BY <1>2, <4>1
    <3>2. events = <<>> => CountIn(events, P) = 0
      BY CountType
    <3>3. QED
      BY <1>10, <3>1, <3>2
  <2>4. ASSUME NEW o \in Orders
        PROVE  /\ Tokens(o)' = Tokens(o) + One(e, {OrderEvent(o)})
               /\ Ever(RiskVerdicts(o))' = Ever(RiskVerdicts(o))
               /\ Ever(OrderVerdicts(o))' = Ever(OrderVerdicts(o))
    <3>1. Ever(RiskVerdicts(o))' = Ever(RiskVerdicts(o)) + CountIn(events, RiskVerdicts(o))
      BY <2>1 DEF RiskVerdicts, Ev
    <3>2. Ever(OrderVerdicts(o))' = Ever(OrderVerdicts(o)) + CountIn(events, OrderVerdicts(o))
      BY <2>1 DEF OrderVerdicts, Ev
    <3>3. CountIn(events, RiskVerdicts(o)) = 0 /\ CountIn(events, OrderVerdicts(o)) = 0
      BY <1>5, <2>3
    <3>4. Tokens(o)' = CountIn(queue', {OrderEvent(o)}) + CountIn(stack', FramesOf(o))
      BY DEF Tokens, FramesOf, OrderEvent
    <3>5. CountIn(stack', FramesOf(o))
            = CountIn(events, {OrderEvent(o)}) + CountIn(stack, FramesOf(o))
      BY <2>1
    <3>6. One(e, {OrderEvent(o)}) \in {0, 1}
      BY DEF One
    <3>7. CASE events = <<e>> /\ queue' = queue
      <4>1. CountIn(events, {OrderEvent(o)}) = One(e, {OrderEvent(o)})
        BY <2>3, <3>7
      <4>2. CountIn(queue', {OrderEvent(o)}) = CountIn(queue, {OrderEvent(o)})
        BY <3>7
      <4>3. Tokens(o)' = Tokens(o) + One(e, {OrderEvent(o)})
        BY <1>3, <3>4, <3>5, <3>6, <4>1, <4>2 DEF Tokens
      <4>4. QED
        BY <1>3, <3>1, <3>2, <3>3, <4>3
    <3>8. CASE events = <<>> /\ PublishAsync(e)
      <4>1. CountIn(events, {OrderEvent(o)}) = 0
        BY <2>3, <3>8
      <4>2. CountIn(queue', {OrderEvent(o)}) = CountIn(queue, {OrderEvent(o)}) + One(e, {OrderEvent(o)})
        BY <1>7, <3>8
      <4>3. QED
        BY <1>3, <3>1, <3>2, <3>3, <3>4, <3>5, <3>6, <4>1, <4>2 DEF Tokens
    <3>9. QED
      BY <1>10, <3>7, <3>8
  <2>5. ASSUME NEW o \in Orders, o # s, Ahead(o)' PROVE Ahead(o)
    <3>1. \A k \in DOMAIN events : events[k] # OrderEvent(o)
      BY <1>2, <2>2, <2>5 DEF e
    <3>2. \A i \in DOMAIN queue' : queue'[i] = OrderEvent(o) =>
            \E k \in DOMAIN queue : queue[k] = OrderEvent(o)
      BY <1>7, <1>10, <2>5
    <3>3. QED
      BY <1>1, <1>10, <2>5, <3>1, <3>2, AnswerAhead
  <2>6. QED
    BY <1>6, <2>4, <2>5
<1>11. <<e>> \in Seq(Event) /\ <<>> \in Seq(Event)
  BY <1>2
<1>12. \/ Publish(e)
       \/ PublishAsync(e) /\ stack' = stack
       \/ \E f : /\ Turn("application", f)
                 /\ \/ Answers(<<e>>) /\ queue' = queue
                    \/ Answers(<<>>) /\ PublishAsync(e)
  BY DEF SubmitOrder, e
<1>13. QED
  BY <1>8, <1>9, <1>10, <1>11, <1>12

(* A report of positions is no verdict and no order. *)
LEMMA CountReport ==
  ASSUME WayInv, ListsInv, CountInv, OnceInv, NEW p \in Portfolios, ReportPositions(p)
  PROVE  CountInv' /\ OnceInv'
<1> DEFINE e == PositionEvent(p)
<1>1. UNCHANGED <<published, queue, submitted, disturbed, subscribers>>
  BY DEF ReportPositions, Publish
<1>2. /\ e \in Event /\ e.type = "POSITION_UPDATED" /\ \A o : e # OrderEvent(o)
      /\ \A o \in Orders : One(e, RiskVerdicts(o)) = 0 /\ One(e, OrderVerdicts(o)) = 0
                           /\ One(e, {OrderEvent(o)}) = 0
  BY EventsOfOrders DEF PositionEvent, OrderEvent, One, RiskVerdicts, OrderVerdicts, Ev
<1>3. Publish(e) \/ \E f : Turn("application", f) /\ Answers(<<e>>)
  BY DEF ReportPositions
<1> HIDE DEF e
<1>4. CASE Publish(e)
  <2>1. Idle /\ stack' = Frames(<<e>>)
    BY <1>4 DEF Publish
  <2>2. /\ DOMAIN stack' = {1} /\ stack'[1] = Fresh(e)
        /\ \A P : Ever(P)' = Ever(P) + One(e, P)
        /\ \A o : /\ CountIn(stack, FramesOf(o)) = 0
                  /\ CountIn(stack', FramesOf(o)) = One(e, {OrderEvent(o)})
    BY <1>1, <1>2, <2>1, IdleEffect
  <2>3. ASSUME NEW o \in Orders
        PROVE  /\ Ever(RiskVerdicts(o))' = Ever(RiskVerdicts(o))
               /\ Ever(OrderVerdicts(o))' = Ever(OrderVerdicts(o))
               /\ Tokens(o)' = Tokens(o) /\ Tokens(o)' \in Nat /\ Tokens(o)' <= Tokens(o)
    <3>1. Ever(RiskVerdicts(o))' = Ever(RiskVerdicts(o)) + One(e, RiskVerdicts(o))
      BY <2>2 DEF RiskVerdicts, Ev
    <3>2. Ever(OrderVerdicts(o))' = Ever(OrderVerdicts(o)) + One(e, OrderVerdicts(o))
      BY <2>2 DEF OrderVerdicts, Ev
    <3>3. CountIn(stack', FramesOf(o)) = CountIn(stack, FramesOf(o))
      BY <1>2, <2>2
    <3>4. Tokens(o)' = Tokens(o)
      BY <1>1, <3>3 DEF Tokens, FramesOf
    <3>5. Ever(RiskVerdicts(o)) \in Nat /\ Ever(OrderVerdicts(o)) \in Nat /\ Tokens(o) \in Nat
      BY Numbers
    <3>6. One(e, RiskVerdicts(o)) = 0 /\ One(e, OrderVerdicts(o)) = 0
      BY <1>2
    <3>7. Tokens(o)' \in Nat /\ Tokens(o)' <= Tokens(o)
      BY <3>4, <3>5
    <3>8. QED
      BY <3>1, <3>2, <3>4, <3>5, <3>6, <3>7
  <2>4. ASSUME NEW o, Ahead(o)' PROVE Ahead(o)
    <3>1. ~\E i \in DOMAIN stack' : stack'[i].event = OrderEvent(o)
      BY <1>2, <2>2 DEF Fresh
    <3>2. QED
      BY <1>1, <2>4, <3>1 DEF Ahead, GateFrom
  <2>5. QED
    BY <1>1, <2>3, <2>4, QuietStep
<1>5. ASSUME NEW f, Turn("application", f), Answers(<<e>>)
      PROVE  CountInv' /\ OnceInv'
  <2> DEFINE events == <<e>>
  <2>1. events \in Seq(Event) /\ \A k \in DOMAIN events : events[k] = e
    BY <1>2
  <2>2. Answers(events)
    BY <1>5
  <2> HIDE DEF events
  <2>3. \A k \in DOMAIN events : /\ events[k].type \notin Verdicts \cup {"ORDER_SUBMITTED"}
                                 /\ \A o : events[k] # OrderEvent(o)
    BY <1>2, <2>1 DEF Verdicts
  <2>4. \A o : Ahead(o)' => Ahead(o)
    BY <1>1, <1>5, <2>1, <2>2, <2>3, AnswerAhead
  <2>5. QED
    BY <1>1, <1>5, <2>1, <2>2, <2>3, <2>4, AnswerQuiet
<1>6. QED
  BY <1>3, <1>4, <1>5

(* A fill is no verdict. *)
LEMMA CountVenue ==
  ASSUME WayInv, ListsInv, CountInv, OnceInv, VenueStep
  PROVE  CountInv' /\ OnceInv'
<1>1. PICK o \in Orders :
        /\ Turn("venue", Ev("ORDER_ACCEPTED", o))
        /\ Answers(<<Ev("ORDER_FILLED", o)>>) \/ Answers(<<>>)
  BY DEF VenueStep, Ev
<1>2. UNCHANGED <<published, queue, submitted, disturbed, subscribers>>
  BY DEF VenueStep, sessionVars
<1>3. PICK events \in Seq(Event) :
        /\ Answers(events)
        /\ \A k \in DOMAIN events : events[k].type = "ORDER_FILLED"
  <2>1. Ev("ORDER_FILLED", o) \in Event /\ Ev("ORDER_FILLED", o).type = "ORDER_FILLED"
    BY EventsOfOrders, GateAssumption DEF Types, Ev
  <2> DEFINE e == Ev("ORDER_FILLED", o)
  <2> HIDE DEF e
  <2>2. /\ <<e>> \in Seq(Event) /\ \A k \in DOMAIN <<e>> : <<e>>[k].type = "ORDER_FILLED"
        /\ <<>> \in Seq(Event) /\ \A k \in DOMAIN <<>> : FALSE
    BY <2>1 DEF e
  <2>3. QED
    BY <1>1, <2>2 DEF e
<1>4. \A k \in DOMAIN events : /\ events[k].type \notin Verdicts \cup {"ORDER_SUBMITTED"}
                               /\ \A p : events[k] # OrderEvent(p)
  BY <1>3 DEF Verdicts, OrderEvent
<1>5. \A p : Ahead(p)' => Ahead(p)
  BY <1>1, <1>2, <1>3, <1>4, AnswerAhead
<1>6. QED
  BY <1>1, <1>2, <1>3, <1>4, <1>5, AnswerQuiet

(* The application does something else: no order comes nearer to the gate,  *)
(* unless the gate joins the list anew.                                     *)
LEMMA IdleAhead ==
  ASSUME WayInv, ListsInv, NEW o, UNCHANGED <<queue, stack>>,
         \/ subscribers' = subscribers
         \/ \A k \in DOMAIN subscribers'["ORDER_SUBMITTED"] :
              subscribers'["ORDER_SUBMITTED"][k] # "gate",
         Ahead(o)'
  PROVE  Ahead(o)
BY DEF Ahead, GateFrom, From

(* The application acts: it may take the gate out of the list, or put it at *)
(* the end of the list when every order in progress is noted as disturbed.  *)
LEMMA CountActs ==
  ASSUME WayInv, ListsInv, CountInv, OnceInv,
         \/ UNCHANGED stack
         \/ (\E e \in Event : Turn("application", e)) /\ Answers(<<>>),
         UNCHANGED <<queue, published, submitted>>, disturbed \subseteq disturbed',
         \/ subscribers' = subscribers
         \/ \A k \in DOMAIN subscribers'["ORDER_SUBMITTED"] :
              subscribers'["ORDER_SUBMITTED"][k] # "gate"
         \/ Passing \subseteq disturbed'
  PROVE  CountInv' /\ OnceInv'
<1>1. CASE UNCHANGED stack
  <2>1. ASSUME NEW o \in Orders \ disturbed', Ahead(o)' PROVE Ahead(o)
    <3>1. CASE Passing \subseteq disturbed'
      <4>1. \A i \in DOMAIN stack : stack[i].event # OrderEvent(o)
        BY <2>1, <3>1 DEF Passing
      <4>2. QED
        BY <1>1, <2>1, <4>1 DEF Ahead, GateFrom
    <3>2. QED
      BY <1>1, <2>1, <3>1, IdleAhead
  <2>2. QED
    BY <1>1, <2>1, UnmovedQuiet
<1>2. ASSUME NEW e \in Event, Turn("application", e), Answers(<<>>)
      PROVE  CountInv' /\ OnceInv'
  <2>1. <<>> \in Seq(Event) /\ \A k \in DOMAIN <<>> : FALSE
    OBVIOUS
  <2>2. ASSUME NEW o \in Orders \ disturbed', Ahead(o)' PROVE Ahead(o)
    <3>1. CASE Passing \subseteq disturbed'
      <4>1. \A i \in DOMAIN stack : stack[i].event # OrderEvent(o)
        BY <2>2, <3>1 DEF Passing
      <4>2. \A i \in DOMAIN stack' : \E j \in DOMAIN stack : stack'[i].event = stack[j].event
        <5>1. stack # <<>> /\ stack \in Seq(Frame)
          BY <1>2 DEF Turn, Idle, WayInv
        <5>2. QED
          BY <1>2, <2>1, <5>1, AnswerFrames
      <4>3. QED
        BY <2>2, <4>1, <4>2 DEF Ahead, GateFrom
    <3>2. CASE ~(Passing \subseteq disturbed')
      BY <1>2, <2>1, <2>2, <3>2, AnswerAhead
    <3>3. QED
      BY <3>1, <3>2
  <2>3. QED
    BY <1>2, <2>1, <2>2, AnswerQuiet
<1>3. QED
  BY <1>1, <1>2

(* Every step keeps the count of verdicts, one action after the other. *)
LEMMA CountStep ==
  ASSUME WayInv, ListsInv, ListsInv', CountInv, OnceInv, [Next]_vars
  PROVE  CountInv' /\ OnceInv'
<1>1. CASE \/ BusStep \/ GateStep \/ VenueStep
           \/ \E o \in Orders : SubmitOrder(o)
           \/ \E p \in Portfolios : ReportPositions(p)
  BY <1>1, CountBus, CountGate, CountVenue, CountSubmit, CountReport
<1>2. CASE \/ Ignore \/ ResetKillSwitch \/ DisarmKillSwitch \/ SetLimits \/ Tick
           \/ \E trade \in Trades : TellKillSwitch(trade)
           \/ UNCHANGED vars
  <2>1. /\ \/ UNCHANGED stack
           \/ (\E e \in Event : Turn("application", e)) /\ Answers(<<>>)
        /\ UNCHANGED <<queue, published, submitted, disturbed, subscribers>>
    BY <1>2 DEF Ignore, ResetKillSwitch, DisarmKillSwitch, SetLimits, Tick, TellKillSwitch, Acts,
       vars, busVars, sessionVars
  <2>2. QED
    BY <2>1, CountActs
<1>3. CASE StopGate
  <2>1. /\ \/ UNCHANGED stack
           \/ (\E e \in Event : Turn("application", e)) /\ Answers(<<>>)
        /\ UNCHANGED <<queue, published, submitted, disturbed>>
    BY <1>3 DEF StopGate, Acts
  <2>2. \A k \in DOMAIN subscribers'["ORDER_SUBMITTED"] :
          subscribers'["ORDER_SUBMITTED"][k] # "gate"
    BY <1>3, StopLeaves
  <2>3. QED
    BY <2>1, <2>2, CountActs
<1>4. CASE StartGate
  <2>1. /\ \/ UNCHANGED stack
           \/ (\E e \in Event : Turn("application", e)) /\ Answers(<<>>)
        /\ UNCHANGED <<queue, published, submitted>>
        /\ disturbed' = disturbed \cup Passing
    BY <1>4 DEF StartGate, Acts
  <2>2. QED
    BY <2>1, CountActs
<1>5. QED
  BY <1>1, <1>2, <1>3, <1>4 DEF Next

-----------------------------------------------------------------------------
(* What a step does to the stack: a publish begins or returns, one is made  *)
(* from outside, a handler answers, or nothing happens to it.               *)
Reports == {"ORDER_SUBMITTED", "POSITION_UPDATED"}

ApplicationAnswers(h, e, events) ==
  /\ h = "application" \/ e.type = "POSITION_UPDATED"
  /\ \A k \in DOMAIN events : events[k].type \in Reports

GateAnswers(h, e, events) ==
  h = "gate" /\ \E s \in Orders : e = OrderEvent(s) /\ events = Verdict(s)

VenueAnswers(h, e, events) ==
  h = "venue" /\ \E s \in Orders :
    e = Ev("ORDER_ACCEPTED", s) /\ \A k \in DOMAIN events : events[k] = Ev("ORDER_FILLED", s)

(* What the steps of the session are to the bus: a call begins or returns,  *)
(* someone publishes from outside of any call, a handler has its turn and   *)
(* answers, the queue is served, or the bus is left alone.                  *)
LEMMA StepKinds ==
  ASSUME WayInv, ListsInv, [Next]_vars
  PROVE  \/ Begin
         \/ Return
         \/ \E e \in Event : /\ Idle /\ stack' = Frames(<<e>>) /\ published' = published
                             /\ e.type \in Reports
         \/ \E h, e : \E events \in Seq(Event) :
              /\ Turn(h, e) /\ Answers(events) /\ published' = published
              /\ \/ ApplicationAnswers(h, e, events)
                 \/ GateAnswers(h, e, events)
                 \/ VenueAnswers(h, e, events)
         \/ UNCHANGED <<stack, published>>
<1> DEFINE Outside == \E e \in Event : /\ Idle /\ stack' = Frames(<<e>>) /\ published' = published
                                       /\ e.type \in Reports
           Inside == \E h, e : \E events \in Seq(Event) :
                       /\ Turn(h, e) /\ Answers(events) /\ published' = published
                       /\ \/ ApplicationAnswers(h, e, events)
                          \/ GateAnswers(h, e, events)
                          \/ VenueAnswers(h, e, events)
           Quiet == UNCHANGED <<stack, published>>
<1> SUFFICES Begin \/ Return \/ Outside \/ Inside \/ Quiet
  BY Zenon
<1>1. <<>> \in Seq(Event) /\ \A k \in DOMAIN <<>> : FALSE
  OBVIOUS
<1>2. ASSUME NEW e \in Event
      PROVE  <<e>> \in Seq(Event) /\ \A k \in DOMAIN <<e>> : <<e>>[k] = e
  OBVIOUS
<1>3. ASSUME NEW e, Turn("application", e), Answers(<<>>), published' = published
      PROVE  Inside
  BY <1>1, <1>3 DEF ApplicationAnswers
<1>4. CASE Consume
  <2>1. /\ Idle /\ queue # <<>> /\ published' = published /\ stack' = Frames(<<Head(queue)>>)
    BY <1>4 DEF Consume
  <2>2. Head(queue) \in Event /\ Head(queue) = queue[1] /\ 1 \in DOMAIN queue
    BY <2>1 DEF WayInv
  <2>3. Head(queue).type \in Reports
    BY <2>2 DEF WayInv, Reports
  <2>4. QED
    BY <2>1, <2>2, <2>3
<1>5. CASE GateStep
  <2>1. published' = published
    BY <1>5 DEF GateStep, GateTurn, OnOrder, OnPositionUpdate
  <2>2. ASSUME NEW s \in Subjects, Turn("gate", PositionEvent(s)), OnPositionUpdate(s)
        PROVE  Inside
    <3>1. Answers(<<>>) /\ PositionEvent(s).type = "POSITION_UPDATED"
      BY <2>2 DEF OnPositionUpdate, PositionEvent
    <3>2. QED
      BY <1>1, <2>1, <2>2, <3>1 DEF ApplicationAnswers
  <2>3. ASSUME NEW s \in Subjects, Turn("gate", OrderEvent(s)), OnOrder(s)
        PROVE  Inside
    <3>1. s \in Orders
      <4>1. stack[1].event = OrderEvent(s) /\ 1 \in DOMAIN stack
        BY <2>3, TurnIs
      <4>2. s \in submitted
        BY <4>1 DEF WayInv, OrderEvent
      <4>3. QED
        BY <4>2 DEF WayInv
    <3>2. Verdict(s) \in Seq(Event) /\ Answers(Verdict(s))
      BY <2>3, <3>1, VerdictCounts DEF OnOrder
    <3>3. GateAnswers("gate", OrderEvent(s), Verdict(s))
      BY <3>1 DEF GateAnswers
    <3>4. QED
      BY <2>1, <2>3, <3>2, <3>3
  <2>4. QED
    BY <1>5, <2>2, <2>3 DEF GateStep, GateTurn, OrderEvent, PositionEvent
<1>6. CASE VenueStep
  <2>1. PICK o \in Orders :
          /\ Turn("venue", Ev("ORDER_ACCEPTED", o))
          /\ Answers(<<Ev("ORDER_FILLED", o)>>) \/ Answers(<<>>)
          /\ published' = published
    BY <1>6 DEF VenueStep, Ev
  <2> DEFINE e == Ev("ORDER_FILLED", o)
  <2>2. e \in Event
    BY EventsOfOrders, GateAssumption DEF Types, Ev
  <2> HIDE DEF e
  <2>3. <<e>> \in Seq(Event) /\ \A k \in DOMAIN <<e>> : <<e>>[k] = e
    BY <1>2, <2>2
  <2>4. PICK events \in Seq(Event) : Answers(events) /\ \A k \in DOMAIN events : events[k] = e
    BY <1>1, <2>1, <2>3 DEF e
  <2>5. VenueAnswers("venue", Ev("ORDER_ACCEPTED", o), events)
    BY <2>4 DEF VenueAnswers, e
  <2>6. QED
    BY <2>1, <2>4, <2>5
<1>7. ASSUME NEW o \in Orders, SubmitOrder(o) PROVE Outside \/ Inside \/ Quiet
  <2> DEFINE e == OrderEvent(o)
  <2>1. e \in Event /\ e.type \in Reports
    BY EventsOfOrders DEF OrderEvent, Reports
  <2>2. \/ Publish(e)
        \/ UNCHANGED <<stack, published>>
        \/ \E f : /\ Turn("application", f) /\ published' = published
                  /\ Answers(<<e>>) \/ Answers(<<>>)
    BY <1>7 DEF SubmitOrder
  <2> HIDE DEF e
  <2>3. CASE Publish(e)
    BY <2>1, <2>3 DEF Publish
  <2>4. ASSUME NEW f, Turn("application", f), published' = published, Answers(<<e>>)
        PROVE  Inside
    BY <1>2, <2>1, <2>4 DEF ApplicationAnswers
  <2>5. QED
    BY <1>3, <2>2, <2>3, <2>4
<1>8. ASSUME NEW p \in Portfolios, ReportPositions(p) PROVE Outside \/ Inside
  <2> DEFINE e == PositionEvent(p)
  <2>1. e \in Event /\ e.type \in Reports
    BY EventsOfOrders DEF PositionEvent, Reports
  <2>2. \/ Publish(e)
        \/ \E f : Turn("application", f) /\ published' = published /\ Answers(<<e>>)
    BY <1>8 DEF ReportPositions
  <2> HIDE DEF e
  <2>3. CASE Publish(e)
    BY <2>1, <2>3 DEF Publish
  <2>4. ASSUME NEW f, Turn("application", f), published' = published, Answers(<<e>>)
        PROVE  Inside
    BY <1>2, <2>1, <2>4 DEF ApplicationAnswers
  <2>5. QED
    BY <2>2, <2>3, <2>4
<1>9. CASE \/ Ignore \/ ResetKillSwitch \/ DisarmKillSwitch \/ SetLimits \/ Tick
           \/ \E trade \in Trades : TellKillSwitch(trade)
           \/ StopGate \/ StartGate \/ UNCHANGED vars
  <2>1. \/ UNCHANGED <<stack, published>>
        \/ \E e : Turn("application", e) /\ Answers(<<>>) /\ published' = published
    BY <1>9 DEF Ignore, ResetKillSwitch, DisarmKillSwitch, SetLimits, Tick, TellKillSwitch, Acts,
       StopGate, StartGate, vars, busVars
  <2>2. QED
    BY <1>3, <2>1
<1>10. CASE BusStep
  BY <1>4, <1>10 DEF BusStep
<1> HIDE DEF Inside, Outside, Quiet
<1>11. Begin \/ Return \/ Outside \/ Inside \/ Quiet
  BY <1>4, <1>5, <1>6, <1>7, <1>8, <1>9, <1>10, Zenon DEF Next
<1>12. QED
  BY <1>11

(* The order of the verdicts.  An event waits in a frame that has not begun. *)
Waits(f, e) == f.event = e /\ f.next = 0

Among(list, e) == \E k \in DOMAIN list : list[k] = e

WasPublished(e) == Among(published, e)

(* In the history b comes after a; on the stack b waits below a unless a has *)
(* been published.                                                           *)
Precedes(a, b) ==
  \A i \in DOMAIN published : published[i] = b =>
    \E j \in DOMAIN published : published[j] = a /\ j < i

Follows(a, b) ==
  \A i \in DOMAIN stack : Waits(stack[i], b) =>
    WasPublished(a) \/ \E j \in DOMAIN stack : j < i /\ Waits(stack[j], a)

Sequels == {<<"RISK_APPROVED", "ORDER_ACCEPTED">>, <<"RISK_DENIED", "ORDER_REJECTED">>,
            <<"ORDER_ACCEPTED", "ORDER_FILLED">>}

BegunInv == \A i \in DOMAIN stack : stack[i].next > 0 => WasPublished(stack[i].event)

SequelInv ==
  \A o \in Orders : \A pair \in Sequels :
    Precedes(Ev(pair[1], o), Ev(pair[2], o)) /\ Follows(Ev(pair[1], o), Ev(pair[2], o))

(* A publish begins: the event it puts into the log has the events before   *)
(* it that it needs.                                                        *)
LEMMA SequelBegin ==
  ASSUME WayInv, BegunInv, SequelInv, Begin
  PROVE  BegunInv' /\ SequelInv'
<1>1. /\ stack # <<>> /\ 1 \in DOMAIN stack /\ DOMAIN stack' = DOMAIN stack
      /\ stack[1] \in Frame /\ stack[1].next = 0
      /\ stack'[1] = [event |-> stack[1].event, next |-> 1]
      /\ \A j \in DOMAIN stack : j # 1 => stack'[j] = stack[j]
      /\ published' = Append(published, stack[1].event)
  BY BeginEffect
<1> DEFINE e == stack[1].event
           n == Len(published)
<1>2. /\ published \in Seq(Event) /\ e \in Event /\ DOMAIN stack = 1 .. Len(stack)
      /\ DOMAIN published = 1 .. n /\ n \in Nat
  BY <1>1 DEF WayInv, Frame
<1>3. /\ DOMAIN published' = 1 .. n + 1
      /\ \A i \in 1 .. n : published'[i] = published[i]
      /\ published'[n + 1] = e
  BY <1>1, <1>2
<1> HIDE DEF e, n
<1>4. \A x : WasPublished(x) => WasPublished(x)'
  BY <1>2, <1>3 DEF WasPublished, Among
<1>5. Among(published', e)
  <2>1. n + 1 \in DOMAIN published' /\ published'[n + 1] = e
    BY <1>2, <1>3
  <2>2. QED
    BY <2>1, Zenon DEF Among
<1>6. BegunInv'
  <2>1. ASSUME NEW i \in DOMAIN stack', stack'[i].next > 0
        PROVE  Among(published', stack'[i].event)
    <3>1. CASE i = 1
      <4>1. stack'[i].event = e
        BY <1>1, <3>1 DEF e
      <4>2. QED
        BY <1>5, <4>1
    <3>2. CASE i # 1
      <4>1. stack'[i] = stack[i] /\ WasPublished(stack[i].event)
        BY <1>1, <2>1, <3>2 DEF BegunInv
      <4>2. QED
        BY <1>4, <4>1 DEF WasPublished
    <3>3. QED
      BY <3>1, <3>2
  <2>2. QED
    BY <2>1 DEF BegunInv, WasPublished
<1>7. ASSUME NEW a, NEW b, Precedes(a, b), Follows(a, b)
      PROVE  Precedes(a, b)' /\ Follows(a, b)'
  <2>1. ASSUME NEW i \in DOMAIN published', published'[i] = b
        PROVE  \E j \in DOMAIN published' : published'[j] = a /\ j < i
    <3>1. CASE i \in 1 .. n
      BY <1>2, <1>3, <1>7, <2>1, <3>1 DEF Precedes
    <3>2. CASE i = n + 1
      <4>1. Waits(stack[1], b)
        BY <1>1, <1>3, <2>1, <3>2 DEF Waits, e
      <4>2. WasPublished(a) \/ \E j \in DOMAIN stack : j < 1 /\ Waits(stack[j], a)
        BY <1>1, <1>7, <4>1 DEF Follows
      <4>3. WasPublished(a)
        BY <1>2, <4>2
      <4>4. PICK j \in 1 .. n : published[j] = a
        BY <1>2, <4>3 DEF WasPublished, Among
      <4>5. QED
        BY <1>2, <1>3, <3>2, <4>4
    <3>3. QED
      BY <1>2, <1>3, <3>1, <3>2
  <2>2. ASSUME NEW i \in DOMAIN stack', Waits(stack'[i], b)
        PROVE  WasPublished(a)' \/ \E j \in DOMAIN stack' : j < i /\ Waits(stack'[j], a)
    <3>1. i # 1 /\ stack'[i] = stack[i]
      BY <1>1, <2>2 DEF Waits
    <3>2. WasPublished(a) \/ \E j \in DOMAIN stack : j < i /\ Waits(stack[j], a)
      BY <1>1, <1>7, <2>2, <3>1 DEF Follows
    <3>3. ASSUME NEW j \in DOMAIN stack, j < i, Waits(stack[j], a)
          PROVE  WasPublished(a)' \/ \E k \in DOMAIN stack' : k < i /\ Waits(stack'[k], a)
      <4>1. CASE j = 1
        <5>1. a = e
          BY <3>3, <4>1 DEF Waits, e
        <5>2. QED
          BY <1>5, <5>1 DEF WasPublished
      <4>2. CASE j # 1
        BY <1>1, <3>3, <4>2
      <4>3. QED
        BY <4>1, <4>2
    <3>4. QED
      BY <1>4, <3>2, <3>3
  <2>3. QED
    BY <2>1, <2>2 DEF Precedes, Follows
<1>8. SequelInv'
  BY <1>7 DEF SequelInv, Ev
<1>9. QED
  BY <1>6, <1>8

(* A publish returns: what was to follow it has been published. *)
LEMMA SequelReturn ==
  ASSUME WayInv, ListsInv, BegunInv, SequelInv, Return
  PROVE  BegunInv' /\ SequelInv'
<1>1. /\ 1 \in DOMAIN stack /\ stack[1].next > 0
      /\ \A i \in DOMAIN stack' : i + 1 \in DOMAIN stack /\ stack'[i] = stack[i + 1]
      /\ \A j \in DOMAIN stack : j # 1 => j - 1 \in DOMAIN stack' /\ stack'[j - 1] = stack[j]
      /\ published' = published
  BY ReturnEffect
<1>2. /\ DOMAIN stack = 1 .. Len(stack) /\ Len(stack) \in Nat
      /\ stack' \in Seq(Frame) /\ DOMAIN stack' = 1 .. Len(stack')
  <2>1. stack \in Seq(Frame) /\ stack' = Tail(stack) /\ stack # <<>>
    BY DEF WayInv, Return, Idle
  <2>2. stack' \in Seq(Frame)
    BY <2>1
  <2>3. QED
    BY <2>1, <2>2
<1>3. BegunInv'
  BY <1>1 DEF BegunInv, WasPublished
<1>4. ASSUME NEW a, NEW b, Precedes(a, b), Follows(a, b)
      PROVE  Precedes(a, b)' /\ Follows(a, b)'
  <2>1. ASSUME NEW i \in DOMAIN stack', Waits(stack'[i], b)
        PROVE  WasPublished(a) \/ \E j \in DOMAIN stack' : j < i /\ Waits(stack'[j], a)
    <3>1. WasPublished(a) \/ \E j \in DOMAIN stack : j < i + 1 /\ Waits(stack[j], a)
      BY <1>1, <1>4, <2>1 DEF Follows
    <3>2. ASSUME NEW j \in DOMAIN stack, j < i + 1, Waits(stack[j], a)
          PROVE  j - 1 \in DOMAIN stack' /\ j - 1 < i /\ Waits(stack'[j - 1], a)
      <4>1. j # 1
        BY <1>1, <3>2 DEF Waits
      <4>2. j - 1 < i
        BY <1>2, <3>2
      <4>3. QED
        BY <1>1, <3>2, <4>1, <4>2
    <3>3. QED
      BY <3>1, <3>2
  <2>2. QED
    BY <1>1, <1>4, <2>1 DEF Precedes, Follows, WasPublished
<1>5. SequelInv'
  BY <1>4 DEF SequelInv, Ev
<1>6. QED
  BY <1>3, <1>5

(* A handler that answers with the second of two events has the first on    *)
(* top of it, or it was published before.                                   *)
LEMMA SequelAnswer ==
  ASSUME WayInv, ListsInv, BegunInv, SequelInv, NEW h, NEW e, Turn(h, e),
         NEW events \in Seq(Event), Answers(events), published' = published,
         \A o \in Orders : \A pair \in Sequels : \A k \in DOMAIN events :
           events[k] = Ev(pair[2], o) =>
             \/ WasPublished(Ev(pair[1], o))
             \/ \E m \in DOMAIN events : m < k /\ events[m] = Ev(pair[1], o)
  PROVE  BegunInv' /\ SequelInv'
<1> DEFINE n == Len(events)
<1>1. /\ stack' \in Seq(Frame) /\ Len(stack') = n + Len(stack)
      /\ \A k \in 1 .. n : stack'[k] = Fresh(events[k])
      /\ \A j \in 1 .. Len(stack) : stack'[n + j] = Bumped[j]
      /\ \A j \in 1 .. Len(stack) :
           /\ Bumped[j].event = stack[j].event
           /\ Bumped[j].next = IF j = 1 THEN stack[1].next + 1 ELSE stack[j].next
      /\ stack[1].next > 0 /\ stack[1] \in Frame
  BY TurnIs, AnswerShape DEF WayInv
<1>2. /\ DOMAIN stack' = 1 .. n + Len(stack) /\ n \in Nat /\ Len(stack) \in Nat
      /\ DOMAIN events = 1 .. n /\ DOMAIN stack = 1 .. Len(stack)
  BY <1>1 DEF WayInv
<1>3. \A x : Fresh(x).event = x /\ Fresh(x).next = 0
  BY DEF Fresh
<1> HIDE DEF n
<1>4. ASSUME NEW k \in 1 .. n PROVE stack'[k].event = events[k] /\ stack'[k].next = 0
  <2>1. stack'[k] = Fresh(events[k])
    BY <1>1
  <2>2. QED
    BY <1>3, <2>1, Zenon
<1>5. ASSUME NEW j \in 1 .. Len(stack)
      PROVE  /\ stack'[n + j].event = stack[j].event
             /\ stack'[n + j].next > 0 => stack[j].next > 0
             /\ \A x : Waits(stack'[n + j], x) <=> Waits(stack[j], x)
  <2>1. stack[1].next \in Nat /\ stack[1].next + 1 # 0
    BY <1>1 DEF Frame
  <2>2. /\ stack'[n + j].event = stack[j].event
        /\ stack'[n + j].next = IF j = 1 THEN stack[1].next + 1 ELSE stack[j].next
    <3>1. stack'[n + j] = Bumped[j]
      BY <1>1
    <3>2. QED
      BY <1>1, <3>1
  <2>3. CASE j = 1
    BY <1>1, <2>1, <2>2, <2>3 DEF Waits
  <2>4. CASE j # 1
    BY <2>2, <2>4 DEF Waits
  <2>5. QED
    BY <2>3, <2>4
<1>6. ASSUME NEW i \in DOMAIN stack'
      PROVE  i \in 1 .. n \/ \E j \in 1 .. Len(stack) : i = n + j
  <2>1. CASE i <= n
    BY <1>2, <2>1
  <2>2. CASE ~(i <= n)
    <3>1. i - n \in 1 .. Len(stack) /\ i = n + (i - n)
      BY <1>2, <2>2
    <3>2. QED
      BY <3>1
  <2>3. QED
    BY <2>1, <2>2
<1>7. BegunInv'
  <2>1. ASSUME NEW i \in DOMAIN stack', stack'[i].next > 0 PROVE WasPublished(stack'[i].event)
    <3>1. CASE i \in 1 .. n
      BY <1>4, <2>1, <3>1
    <3>2. ASSUME NEW j \in 1 .. Len(stack), i = n + j PROVE WasPublished(stack'[i].event)
      BY <1>2, <1>5, <2>1, <3>2 DEF BegunInv
    <3>3. QED
      BY <1>6, <3>1, <3>2
  <2>2. QED
    BY <2>1 DEF BegunInv, WasPublished
<1>8. ASSUME NEW o \in Orders, NEW pair \in Sequels
      PROVE  /\ Precedes(Ev(pair[1], o), Ev(pair[2], o))'
             /\ Follows(Ev(pair[1], o), Ev(pair[2], o))'
  <2> DEFINE a == Ev(pair[1], o)
             b == Ev(pair[2], o)
  <2>1. Precedes(a, b) /\ Follows(a, b)
    BY DEF SequelInv
  <2>2. \A k \in DOMAIN events : events[k] = b =>
          WasPublished(a) \/ \E m \in DOMAIN events : m < k /\ events[m] = a
    OBVIOUS
  <2> HIDE DEF a, b
  <2>3. ASSUME NEW i \in DOMAIN stack', Waits(stack'[i], b)
        PROVE  WasPublished(a) \/ \E j \in DOMAIN stack' : j < i /\ Waits(stack'[j], a)
    <3>1. CASE i \in 1 .. n
      <4>1. WasPublished(a) \/ \E m \in DOMAIN events : m < i /\ events[m] = a
        BY <1>2, <1>4, <2>2, <2>3, <3>1 DEF Waits
      <4>2. \A m \in DOMAIN events : events[m] = a => m \in DOMAIN stack' /\ Waits(stack'[m], a)
        BY <1>2, <1>4 DEF Waits
      <4>3. QED
        BY <4>1, <4>2
    <3>2. ASSUME NEW j \in 1 .. Len(stack), i = n + j
          PROVE  WasPublished(a) \/ \E k \in DOMAIN stack' : k < i /\ Waits(stack'[k], a)
      <4>1. WasPublished(a) \/ \E m \in DOMAIN stack : m < j /\ Waits(stack[m], a)
        BY <1>2, <1>5, <2>1, <2>3, <3>2 DEF Follows
      <4>2. ASSUME NEW m \in DOMAIN stack, m < j, Waits(stack[m], a)
            PROVE  n + m \in DOMAIN stack' /\ n + m < i /\ Waits(stack'[n + m], a)
        <5>1. n + m \in DOMAIN stack' /\ n + m < i
          BY <1>2, <3>2, <4>2
        <5>2. QED
          BY <1>2, <1>5, <4>2, <5>1
      <4>3. QED
        BY <4>1, <4>2
    <3>3. QED
      BY <1>6, <3>1, <3>2
  <2>4. Follows(a, b)' /\ Precedes(a, b)'
    BY <2>1, <2>3 DEF Precedes, Follows, WasPublished
  <2>5. QED
    BY <2>4 DEF a, b, Ev
<1>9. SequelInv'
  BY <1>8 DEF SequelInv, Ev
<1>10. QED
  BY <1>7, <1>9

(* Every step keeps the sequel of the verdicts, one kind of step after the  *)
(* other.                                                                   *)
LEMMA SequelStep ==
  ASSUME WayInv, ListsInv, BegunInv, SequelInv, [Next]_vars
  PROVE  BegunInv' /\ SequelInv'
<1>1. ASSUME NEW e \in Event, Idle, stack' = Frames(<<e>>), published' = published, e.type \in Reports
      PROVE  BegunInv' /\ SequelInv'
  <2>1. DOMAIN stack' = {1} /\ stack'[1] = Fresh(e)
    BY <1>1, IdleEffect
  <2>2. Fresh(e).event = e /\ Fresh(e).next = 0
    BY DEF Fresh
  <2>3. \A o : \A pair \in Sequels : ~Waits(stack'[1], Ev(pair[2], o))
    BY <1>1, <2>1, <2>2 DEF Waits, Sequels, Reports, Ev
  <2>4. BegunInv'
    BY <2>1, <2>2 DEF BegunInv
  <2>5. ASSUME NEW o \in Orders, NEW pair \in Sequels
        PROVE  /\ Precedes(Ev(pair[1], o), Ev(pair[2], o))'
               /\ Follows(Ev(pair[1], o), Ev(pair[2], o))'
    <3> DEFINE a == Ev(pair[1], o)
               b == Ev(pair[2], o)
    <3>1. Precedes(a, b) /\ \A i \in DOMAIN stack' : ~Waits(stack'[i], b)
      BY <2>1, <2>3 DEF SequelInv
    <3> HIDE DEF a, b
    <3>2. Precedes(a, b)' /\ Follows(a, b)'
      BY <1>1, <3>1 DEF Precedes, Follows
    <3>3. QED
      BY <3>2 DEF a, b, Ev
  <2>6. QED
    BY <2>4, <2>5 DEF SequelInv, Ev
<1>2. ASSUME NEW h, NEW e, NEW events \in Seq(Event),
             Turn(h, e), Answers(events), published' = published,
             \/ ApplicationAnswers(h, e, events)
             \/ GateAnswers(h, e, events)
             \/ VenueAnswers(h, e, events)
      PROVE  BegunInv' /\ SequelInv'
  <2>1. ASSUME NEW o \in Orders, NEW pair \in Sequels, NEW k \in DOMAIN events,
               events[k] = Ev(pair[2], o)
        PROVE  \/ WasPublished(Ev(pair[1], o))
               \/ \E m \in DOMAIN events : m < k /\ events[m] = Ev(pair[1], o)
    <3>0. /\ Ev(pair[2], o).type = pair[2] /\ Ev(pair[2], o).about = o
          /\ pair[2] \in {"ORDER_ACCEPTED", "ORDER_REJECTED", "ORDER_FILLED"}
      BY DEF Ev, Sequels
    <3>1. CASE ApplicationAnswers(h, e, events)
      BY <2>1, <3>0, <3>1 DEF ApplicationAnswers, Reports
    <3>2. CASE GateAnswers(h, e, events)
      <4>1. PICK s \in Orders : events = Verdict(s)
        BY <3>2 DEF GateAnswers
      <4>2. /\ events = <<Ev("RISK_APPROVED", s), Ev("ORDER_ACCEPTED", s)>>
               \/ events = <<Ev("RISK_DENIED", s), Ev("ORDER_REJECTED", s)>>
            /\ DOMAIN events = 1 .. 2
        BY <4>1 DEF Verdict, Ev
      <4>3. ASSUME NEW x, NEW y, <<x, y>> \in Sequels, events = <<Ev(x, s), Ev(y, s)>>
            PROVE  \E m \in DOMAIN events : m < k /\ events[m] = Ev(pair[1], o)
        <5>1. /\ events[1] = Ev(x, s) /\ events[2] = Ev(y, s) /\ k \in {1, 2}
              /\ x \in {"RISK_APPROVED", "RISK_DENIED", "ORDER_ACCEPTED"}
          BY <4>2, <4>3 DEF Sequels
        <5>2. CASE k = 1
          <6>1. x = pair[2] /\ o = s
            BY <2>1, <5>1, <5>2 DEF Ev
          <6>2. pair = <<"RISK_APPROVED", "ORDER_ACCEPTED">> /\ x = "ORDER_ACCEPTED"
            BY <5>1, <6>1 DEF Sequels
          <6>3. y = "ORDER_FILLED"
            BY <4>3, <6>2 DEF Sequels
          <6>4. events[2] = Ev("ORDER_FILLED", s)
            BY <5>1, <6>3
          <6>5. QED
            BY <4>2, <6>4 DEF Ev
        <5>3. CASE k = 2
          <6>1. y = pair[2] /\ o = s
            BY <2>1, <5>1, <5>3 DEF Ev
          <6>2. x = pair[1]
            BY <4>3, <6>1 DEF Sequels
          <6>3. QED
            BY <4>2, <5>1, <5>3, <6>1, <6>2
        <5>4. QED
          BY <5>1, <5>2, <5>3
      <4>4. /\ <<"RISK_APPROVED", "ORDER_ACCEPTED">> \in Sequels
            /\ <<"RISK_DENIED", "ORDER_REJECTED">> \in Sequels
        BY DEF Sequels
      <4>5. QED
        BY <4>2, <4>3, <4>4
    <3>3. CASE VenueAnswers(h, e, events)
      <4>1. PICK s \in Orders : e = Ev("ORDER_ACCEPTED", s) /\ events[k] = Ev("ORDER_FILLED", s)
        BY <3>3 DEF VenueAnswers
      <4>2. pair[2] = "ORDER_FILLED" /\ o = s
        BY <2>1, <4>1 DEF Ev
      <4>3. pair[1] = "ORDER_ACCEPTED"
        BY <4>2 DEF Sequels
      <4>4. WasPublished(e)
        BY <1>2, TurnIs DEF BegunInv
      <4>5. QED
        BY <4>1, <4>2, <4>3, <4>4
    <3>4. QED
      BY <1>2, <3>1, <3>2, <3>3
  <2>2. QED
    BY <1>2, <2>1, SequelAnswer
<1>3. CASE UNCHANGED <<stack, published>>
  BY <1>3 DEF BegunInv, SequelInv, Precedes, Follows, WasPublished, Ev
<1>4. QED
  BY <1>1, <1>2, <1>3, StepKinds, SequelBegin, SequelReturn

-----------------------------------------------------------------------------
(* An order that the gate must judge has its verdict, or its publish has    *)
(* begun and the gate is not yet past in the list.                          *)
Awaits(calls, list, o) ==
  \E i \in DOMAIN calls :
    calls[i].event = OrderEvent(o) /\ calls[i].next > 0 /\ From(list, calls[i].next)

Due(o) ==
  Ever(OrderVerdicts(o)) >= 1 \/ Awaits(stack, subscribers["ORDER_SUBMITTED"], o)

DueInv == \A o \in expected : Due(o)

(* What has been published stays, and so does what will be. *)
LEMMA EverGrows ==
  ASSUME WayInv, ListsInv, [Next]_vars, NEW P
  PROVE  Ever(P)' \in Nat /\ Ever(P)' >= Ever(P)
<1>1. Ever(P) \in Nat
  BY Numbers
<1>2. CASE Begin
  BY <1>1, <1>2, BeginEffect
<1>3. CASE Return
  BY <1>1, <1>3, ReturnEffect
<1>4. ASSUME NEW e \in Event, Idle, stack' = Frames(<<e>>), published' = published
      PROVE  Ever(P)' \in Nat /\ Ever(P)' >= Ever(P)
  <2>1. Ever(P)' = Ever(P) + One(e, P) /\ One(e, P) \in {0, 1}
    BY <1>4, IdleEffect DEF One
  <2>2. QED
    BY <1>1, <2>1
<1>5. ASSUME NEW h, NEW e, NEW events \in Seq(Event),
             Turn(h, e), Answers(events), published' = published
      PROVE  Ever(P)' \in Nat /\ Ever(P)' >= Ever(P)
  <2>1. Ever(P)' = Ever(P) + CountIn(events, P) /\ CountIn(events, P) \in Nat
    BY <1>5, AnswerEffect, CountType
  <2>2. QED
    BY <1>1, <2>1
<1>6. CASE UNCHANGED <<stack, published>>
  <2>1. Ever(P)' = Ever(P)
    BY <1>6 DEF Ever, FreshOf
  <2>2. QED
    BY <1>1, <2>1
<1>7. QED
  BY <1>2, <1>3, <1>4, <1>5, <1>6, StepKinds

(* A handler's answer leaves an order pending, or it is the gate that       *)
(* answers, and then the verdict is about to be published.                  *)
LEMMA DueAnswer ==
  ASSUME WayInv, ListsInv, NEW o \in Orders, NEW h, NEW e, NEW events \in Seq(Event),
         Turn(h, e), Answers(events), published' = published,
         \/ ApplicationAnswers(h, e, events)
         \/ GateAnswers(h, e, events)
         \/ VenueAnswers(h, e, events),
         \A n \in Nat : GateFrom(n) => From(subscribers'["ORDER_SUBMITTED"], n),
         NEW i \in DOMAIN stack, stack[i].event = OrderEvent(o), stack[i].next > 0,
         GateFrom(stack[i].next)
  PROVE  \/ Ever(OrderVerdicts(o))' >= 1
         \/ Awaits(stack', subscribers'["ORDER_SUBMITTED"], o)
<1> DEFINE m == Len(events)
           list == subscribers'["ORDER_SUBMITTED"]
           calls == stack'
<1>1. /\ stack \in Seq(Frame) /\ 1 \in DOMAIN stack /\ m \in Nat
      /\ calls \in Seq(Frame) /\ Len(calls) = m + Len(stack)
      /\ \A j \in 1 .. Len(stack) : calls[m + j] = Bumped[j]
      /\ \A j \in 1 .. Len(stack) :
           /\ Bumped[j].event = stack[j].event
           /\ Bumped[j].next = IF j = 1 THEN stack[1].next + 1 ELSE stack[j].next
  BY TurnIs, AnswerShape DEF WayInv
<1>2. /\ i \in 1 .. Len(stack) /\ Len(stack) \in Nat /\ stack[i] \in Frame
      /\ stack[i].next \in Nat
  <2>1. i \in 1 .. Len(stack) /\ Len(stack) \in Nat /\ stack[i] \in Frame
    BY <1>1
  <2>2. QED
    BY <2>1 DEF Frame
<1>3. m + i \in DOMAIN calls
  BY <1>1, <1>2
<1>4. \A n \in Nat : GateFrom(n) => From(list, n)
  OBVIOUS
<1>5. calls[m + i].event = OrderEvent(o)
  <2>1. calls[m + i] = Bumped[i]
    BY <1>1, <1>2
  <2>2. QED
    BY <1>1, <1>2, <2>1
<1>6. calls[m + i].next = IF i = 1 THEN stack[1].next + 1 ELSE stack[i].next
  <2>1. calls[m + i] = Bumped[i]
    BY <1>1, <1>2
  <2>2. QED
    BY <1>1, <1>2, <2>1
<1>7. ASSUME NEW n \in Nat, calls[m + i].next = n, n > 0, GateFrom(n)
      PROVE  Awaits(calls, list, o)
  <2> HIDE DEF m, list, calls
  <2>1. From(list, n)
    BY <1>4, <1>7
  <2>2. QED
    BY <1>3, <1>5, <1>7, <2>1 DEF Awaits
<1>8. CASE i # 1
  BY <1>2, <1>6, <1>7, <1>8
<1>9. CASE i = 1
  <2>1. PICK k \in DOMAIN subscribers["ORDER_SUBMITTED"] :
          k >= stack[1].next /\ subscribers["ORDER_SUBMITTED"][k] = "gate"
    BY <1>9 DEF GateFrom, From
  <2>2. subscribers["ORDER_SUBMITTED"] \in Seq(Handlers) /\ k \in Nat
    <3>1. subscribers["ORDER_SUBMITTED"] \in Seq(Handlers)
      BY GateAssumption DEF ListsInv, Types
    <3>2. QED
      BY <2>1, <3>1
  <2>3. CASE k >= stack[1].next + 1
    <3>1. GateFrom(stack[1].next + 1)
      BY <2>1, <2>3 DEF GateFrom, From
    <3>2. QED
      BY <1>2, <1>6, <1>7, <1>9, <3>1
  <2>4. CASE k = stack[1].next
    <3>1. /\ e = OrderEvent(o) /\ e.type = "ORDER_SUBMITTED"
          /\ h = subscribers[e.type][stack[1].next]
      BY <1>9, TurnIs DEF OrderEvent
    <3>2. h = "gate"
      BY <2>1, <2>4, <3>1
    <3>3. PICK s \in Orders : e = OrderEvent(s) /\ events = Verdict(s)
      BY <3>1, <3>2 DEF ApplicationAnswers, GateAnswers, VenueAnswers
    <3>4. s = o
      BY <3>1, <3>3 DEF OrderEvent
    <3>5. CountIn(events, OrderVerdicts(o)) = 1
      BY <3>3, <3>4, VerdictCounts
    <3>6. Ever(OrderVerdicts(o))' = Ever(OrderVerdicts(o)) + CountIn(events, OrderVerdicts(o))
      <4>1. \A P : Ever(P)' = Ever(P) + CountIn(events, P)
        BY AnswerEffect
      <4>2. QED
        BY <4>1 DEF Ever, OrderVerdicts, Ev, FreshOf
    <3>7. Ever(OrderVerdicts(o)) \in Nat
      BY Numbers
    <3>8. QED
      BY <3>5, <3>6, <3>7
  <2>5. QED
    BY <1>2, <1>9, <2>1, <2>2, <2>3, <2>4
<1>10. QED
  BY <1>8, <1>9

(* Whatever happens, an order that is due stays so, unless the gate leaves. *)
LEMMA DueMoves ==
  ASSUME WayInv, ListsInv, [Next]_vars, NEW o \in Orders, Due(o),
         \A n \in Nat : GateFrom(n) => From(subscribers'["ORDER_SUBMITTED"], n)
  PROVE  Due(o)'
<1> DEFINE before == Ever(OrderVerdicts(o))
           after == Ever(OrderVerdicts(o))'
<1>1. before \in Nat /\ after \in Nat /\ after >= before
  <2>1. \A P : Ever(P)' \in Nat /\ Ever(P)' >= Ever(P)
    BY EverGrows
  <2>2. after \in Nat /\ after >= before
    BY <2>1 DEF Ever, OrderVerdicts, Ev, FreshOf
  <2>3. QED
    BY <2>2, Numbers
<1>2. CASE before >= 1
  <2>1. after >= 1
    <3> HIDE DEF before, after
    <3>1. QED
      BY <1>1, <1>2
  <2>2. QED
    BY <2>1, Zenon DEF Due
<1>3. ASSUME NEW i \in DOMAIN stack, stack[i].event = OrderEvent(o), stack[i].next > 0,
             GateFrom(stack[i].next)
      PROVE  \/ Ever(OrderVerdicts(o))' >= 1
             \/ Awaits(stack', subscribers'["ORDER_SUBMITTED"], o)
  <2>1. stack[i] \in Frame /\ stack[i].next \in Nat /\ DOMAIN stack = 1 .. Len(stack)
    <3>1. stack[i] \in Frame /\ DOMAIN stack = 1 .. Len(stack)
      BY DEF WayInv
    <3>2. QED
      BY <3>1 DEF Frame
  <2> DEFINE list == subscribers'["ORDER_SUBMITTED"]
             n == stack[i].next
  <2>2. From(list, n) /\ n > 0
    BY <1>3, <2>1
  <2> HIDE DEF list
  <2>3. ASSUME NEW j \in DOMAIN stack', stack'[j] = stack[i]
        PROVE  Awaits(stack', list, o)
    BY <1>3, <2>2, <2>3 DEF Awaits
  <2>4. CASE Begin
    <3>1. /\ stack[1].next = 0 /\ DOMAIN stack' = DOMAIN stack
          /\ \A j \in DOMAIN stack : j # 1 => stack'[j] = stack[j]
      BY <2>4, BeginEffect
    <3>2. i # 1
      BY <1>3, <3>1
    <3>3. QED
      BY <2>3, <3>1, <3>2 DEF list
  <2>5. CASE Return
    <3>1. /\ stack[1].next > Len(subscribers[stack[1].event.type])
          /\ \A j \in DOMAIN stack : j # 1 => j - 1 \in DOMAIN stack' /\ stack'[j - 1] = stack[j]
      BY <2>5, ReturnEffect
    <3>2. i # 1
      <4>1. subscribers["ORDER_SUBMITTED"] \in Seq(Handlers)
        BY GateAssumption DEF ListsInv, Types
      <4>2. PICK k \in DOMAIN subscribers["ORDER_SUBMITTED"] : k >= stack[i].next
        BY <1>3 DEF GateFrom, From
      <4>3. k \in Nat /\ k <= Len(subscribers["ORDER_SUBMITTED"])
        BY <4>1, <4>2
      <4>4. stack[i].event.type = "ORDER_SUBMITTED"
        BY <1>3 DEF OrderEvent
      <4>5. CASE i = 1
        BY <2>1, <3>1, <4>1, <4>2, <4>3, <4>4, <4>5
      <4>6. QED
        BY <4>5
    <3>3. QED
      BY <2>3, <3>1, <3>2 DEF list
  <2>6. CASE Idle
    BY <2>6 DEF Idle
  <2>7. ASSUME NEW h, NEW e, NEW events \in Seq(Event),
               Turn(h, e), Answers(events), published' = published,
               \/ ApplicationAnswers(h, e, events)
               \/ GateAnswers(h, e, events)
               \/ VenueAnswers(h, e, events)
        PROVE  Ever(OrderVerdicts(o))' >= 1 \/ Awaits(stack', list, o)
    BY <1>3, <2>7, DueAnswer DEF list
  <2>8. CASE UNCHANGED <<stack, published>>
    BY <2>3, <2>8 DEF list
  <2>9. QED
    BY <2>4, <2>5, <2>6, <2>7, <2>8, StepKinds DEF list
<1>4. CASE Awaits(stack, subscribers["ORDER_SUBMITTED"], o)
  <2>1. PICK i \in DOMAIN stack :
          stack[i].event = OrderEvent(o) /\ stack[i].next > 0 /\ GateFrom(stack[i].next)
    BY <1>4 DEF Awaits, GateFrom
  <2>2. \/ Ever(OrderVerdicts(o))' >= 1
        \/ Awaits(stack', subscribers'["ORDER_SUBMITTED"], o)
    BY <1>3, <2>1
  <2>3. QED
    BY <2>2, Zenon DEF Due
<1>5. QED
  BY <1>2, <1>4 DEF Due

(* An order the gate has to judge is still before the gate, being judged,   *)
(* or judged.                                                               *)
LEMMA DueStep ==
  ASSUME WayInv, ListsInv, SessionInv, DueInv, [Next]_vars
  PROVE  DueInv'
<1>0. /\ expected \subseteq Orders
      /\ subscribers["ORDER_SUBMITTED"] \in Seq(Handlers)
      /\ \A n \in Nat : GateFrom(n) => From(subscribers["ORDER_SUBMITTED"], n)
  BY GateAssumption DEF SessionInv, WayInv, ListsInv, Types, GateFrom
<1>1. CASE UNCHANGED <<subscribers, expected>>
  <2>1. \A n \in Nat : GateFrom(n) => From(subscribers'["ORDER_SUBMITTED"], n)
    BY <1>0, <1>1
  <2>2. ASSUME NEW o \in expected PROVE Due(o)'
    BY <1>0, <2>1, DueMoves DEF DueInv
  <2>3. QED
    BY <1>1, <2>2 DEF DueInv
<1>2. CASE StartGate
  <2>1. /\ expected' = expected
        /\ subscribers' = [t \in EventTypes |->
             IF t \in GateTypes THEN Append(subscribers[t], "gate") ELSE subscribers[t]]
    BY <1>2 DEF StartGate, Start, Subscribe
  <2>2. subscribers'["ORDER_SUBMITTED"] = Append(subscribers["ORDER_SUBMITTED"], "gate")
    BY <2>1, GateAssumption DEF GateTypes, Types
  <2>3. ASSUME NEW n \in Nat, GateFrom(n) PROVE From(subscribers'["ORDER_SUBMITTED"], n)
    <3> DEFINE list == subscribers["ORDER_SUBMITTED"]
               more == Append(list, "gate")
    <3>1. PICK k \in DOMAIN list : k >= n /\ list[k] = "gate"
      BY <2>3 DEF GateFrom, From
    <3>2. k \in DOMAIN more /\ more[k] = list[k]
      <4>1. list \in Seq(Handlers) /\ "gate" \in Handlers
        BY <1>0, GateAssumption
      <4>2. QED
        BY <3>1, <4>1
    <3>3. From(more, n)
      BY <3>1, <3>2, Zenon DEF From
    <3>4. QED
      BY <2>2, <3>3
  <2>4. ASSUME NEW o \in expected PROVE Due(o)'
    BY <1>0, <2>3, DueMoves DEF DueInv
  <2>5. QED
    BY <2>1, <2>4 DEF DueInv
<1>3. CASE StopGate
  <2>1. expected' = expected \ Passing
    BY <1>3 DEF StopGate
  <2>2. ASSUME NEW o \in expected, o \notin Passing PROVE Due(o)'
    <3> DEFINE before == Ever(OrderVerdicts(o))
               after == Ever(OrderVerdicts(o))'
    <3>1. before >= 1
      BY <1>0, <2>2 DEF DueInv, Due, Awaits, Passing
    <3>2. before \in Nat /\ after \in Nat /\ after >= before
      <4>1. \A P : Ever(P)' \in Nat /\ Ever(P)' >= Ever(P)
        BY EverGrows
      <4>2. after \in Nat /\ after >= before
        BY <4>1 DEF Ever, OrderVerdicts, Ev, FreshOf
      <4>3. QED
        BY <4>2, Numbers
    <3>3. after >= 1
      <4> HIDE DEF before, after
      <4>1. QED
        BY <3>1, <3>2
    <3>4. QED
      BY <3>3, Zenon DEF Due
  <2>3. QED
    BY <2>1, <2>2 DEF DueInv
<1>4. CASE BusStep
  <2>1. UNCHANGED subscribers
    BY <1>4 DEF BusStep, Begin, Return, Consume
  <2>2. CASE (Return \/ Consume) /\ UNCHANGED expected
    BY <1>1, <2>1, <2>2
  <2>3. CASE /\ Begin
             /\ LET e == Head(stack).event
                IN expected' = IF e.type = "ORDER_SUBMITTED" /\ Subscribed(e.type, "gate")
                               THEN expected \cup {e.about} ELSE expected
    <3> DEFINE e == stack[1].event
    <3>1. /\ 1 \in DOMAIN stack /\ stack[1] \in Frame
          /\ DOMAIN stack' = DOMAIN stack /\ stack'[1] = [event |-> e, next |-> 1]
      BY <2>3, BeginEffect
    <3>2. Head(stack).event = e
      BY <3>1 DEF WayInv
    <3>3. expected' = IF e.type = "ORDER_SUBMITTED" /\ Subscribed(e.type, "gate")
                      THEN expected \cup {e.about} ELSE expected
      BY <2>3, <3>2
    <3>4. \A n \in Nat : GateFrom(n) => From(subscribers'["ORDER_SUBMITTED"], n)
      BY <1>0, <2>1
    <3>5. ASSUME NEW o \in expected PROVE Due(o)'
      BY <1>0, <3>4, <3>5, DueMoves DEF DueInv
    <3>6. ASSUME NEW o, o = e.about, e.type = "ORDER_SUBMITTED", Subscribed(e.type, "gate")
          PROVE  Due(o)'
      <4>1. e = OrderEvent(o)
        BY <3>1, <3>6 DEF Frame, Event, OrderEvent
      <4>2. From(subscribers'["ORDER_SUBMITTED"], 1)
        <5> DEFINE list == subscribers["ORDER_SUBMITTED"]
        <5>1. "gate" \in ToSet(list)
          BY <3>6 DEF Subscribed
        <5>2. PICK k \in DOMAIN list : list[k] = "gate"
          BY <5>1 DEF ToSet
        <5>3. k >= 1
          BY <1>0
        <5>4. From(list, 1)
          BY <5>2, <5>3, Zenon DEF From
        <5>5. QED
          BY <2>1, <5>4
      <4>3. stack'[1].event = OrderEvent(o) /\ stack'[1].next = 1
        BY <3>1, <4>1
      <4>4. Awaits(stack', subscribers'["ORDER_SUBMITTED"], o)
        <5> DEFINE calls == stack'
                   list == subscribers'["ORDER_SUBMITTED"]
        <5>1. /\ 1 \in DOMAIN calls /\ calls[1].event = OrderEvent(o)
              /\ calls[1].next = 1 /\ From(list, 1)
          BY <3>1, <4>2, <4>3
        <5> HIDE DEF calls, list
        <5>2. Awaits(calls, list, o)
          BY <5>1 DEF Awaits
        <5>3. QED
          BY <5>2 DEF calls, list
      <4>5. QED
        BY <4>4, Zenon DEF Due
    <3>7. ASSUME NEW o \in expected' PROVE Due(o)'
      <4>1. CASE o \in expected
        BY <3>5, <4>1
      <4>2. CASE o \notin expected
        <5>1. o = e.about /\ e.type = "ORDER_SUBMITTED" /\ Subscribed(e.type, "gate")
          BY <3>3, <4>2
        <5>2. QED
          BY <3>6, <5>1
      <4>3. QED
        BY <4>1, <4>2
    <3>8. QED
      BY <3>7, Zenon DEF DueInv
  <2>4. QED
    BY <1>4, <2>2, <2>3 DEF BusStep
<1>5. QED
  BY <1>1, <1>2, <1>3, <1>4 DEF Next, GateStep, GateTurn, OnOrder, OnPositionUpdate, VenueStep,
     SubmitOrder, Publish, Ignore, TellKillSwitch, ResetKillSwitch, DisarmKillSwitch, SetLimits,
     ReportPositions, Tick, Acts, vars, busVars, sessionVars

(* Nothing is published at first. *)
LEMMA VerdictInit ==
  Init => CountInv /\ OnceInv /\ BegunInv /\ SequelInv /\ DueInv
<1> SUFFICES ASSUME Init PROVE CountInv /\ OnceInv /\ BegunInv /\ SequelInv /\ DueInv
  OBVIOUS
<1>1. /\ stack = <<>> /\ queue = <<>> /\ published = <<>> /\ expected = {}
      /\ \A k \in DOMAIN <<>> : FALSE
  BY DEF Init
<1>2. \A P : CountIn(<<>>, P) = 0
  <2>1. <<>> \in Seq(Event)
    OBVIOUS
  <2>2. QED
    BY <2>1, CountType
<1>3. \A P : Ever(P) = 0
  BY <1>1, <1>2 DEF Ever
<1>4. \A o : Tokens(o) = 0
  BY <1>1, <1>2 DEF Tokens
<1>5. CountInv /\ OnceInv
  BY <1>3, <1>4 DEF CountInv, OnceInv
<1>6. BegunInv /\ SequelInv /\ DueInv
  BY <1>1 DEF BegunInv, SequelInv, DueInv, Precedes, Follows
<1>7. QED
  BY <1>5, <1>6

(* The strengthening of OneVerdictEach that every step keeps. *)
VerdictInv == CountInv /\ OnceInv /\ BegunInv /\ SequelInv /\ DueInv

(* The parts of the inductive invariant of the verdicts, together. *)
LEMMA VerdictAlways == Spec => []VerdictInv
<1>1. TypesInv => WayInv /\ ListsInv /\ SessionInv
  BY DEF TypesInv
<1>2. WayInv /\ ListsInv /\ SessionInv /\ VerdictInv /\ [Next]_vars => VerdictInv'
  BY ListsStep, CountStep, SequelStep, DueStep DEF VerdictInv
<1>3. Init => VerdictInv
  BY VerdictInit DEF VerdictInv
<1>4. QED
  BY <1>1, <1>2, <1>3, TypesAlways, PTL DEF Spec

(* The places of two different events are counted together. *)
LEMMA TimesAre ==
  ASSUME NEW o
  PROVE  /\ Times("RISK_APPROVED", o) \cup Times("RISK_DENIED", o)
              = Places(published, RiskVerdicts(o))
         /\ Times("ORDER_ACCEPTED", o) \cup Times("ORDER_REJECTED", o)
              = Places(published, OrderVerdicts(o))
BY DEF Times, Places, RiskVerdicts, OrderVerdicts, Ev

(* For any number of orders, subscribers and nested calls: no order gets a  *)
(* second verdict, the two verdicts of an order agree and come in order, a  *)
(* fill comes after them, and between the calls of publish no order the     *)
(* gate has to judge is without its verdict.                                *)
THEOREM OneVerdict == Spec => []OneVerdictEach
<1>1. ASSUME WayInv, SessionInv, VerdictInv PROVE OneVerdictEach
  <2> SUFFICES ASSUME NEW o \in Orders
               PROVE  LET approved == Times("RISK_APPROVED", o)
                          accepted == Times("ORDER_ACCEPTED", o)
                          denied   == Times("RISK_DENIED", o)
                          rejected == Times("ORDER_REJECTED", o)
                      IN /\ o \notin disturbed => Cardinality(approved \cup denied) <= 1
                         /\ \A i \in accepted : \E j \in approved : j < i
                         /\ \A i \in rejected : \E j \in denied : j < i
                         /\ \A i \in Times("ORDER_FILLED", o) : \E j \in accepted : j < i
                         /\ Idle => Cardinality(accepted \cup rejected)
                                      = Cardinality(approved \cup denied)
                         /\ Idle /\ o \in expected => accepted \cup rejected # {}
    BY Zenon DEF OneVerdictEach
  <2> DEFINE approved == Times("RISK_APPROVED", o)
             accepted == Times("ORDER_ACCEPTED", o)
             denied   == Times("RISK_DENIED", o)
             rejected == Times("ORDER_REJECTED", o)
             filled   == Times("ORDER_FILLED", o)
             risk == CountIn(published, RiskVerdicts(o))
             order == CountIn(published, OrderVerdicts(o))
             riskToCome == CountIn(stack, FreshOf(RiskVerdicts(o)))
             orderToCome == CountIn(stack, FreshOf(OrderVerdicts(o)))
  <2>1. /\ risk \in Nat /\ order \in Nat /\ riskToCome \in Nat /\ orderToCome \in Nat
        /\ Cardinality(approved \cup denied) = risk
        /\ Cardinality(accepted \cup rejected) = order
    BY <1>1, CountType, TimesAre DEF WayInv, CountIn
  <2>2. /\ risk + riskToCome = order + orderToCome
        /\ o \notin disturbed => risk + riskToCome <= 1
    BY <1>1 DEF VerdictInv, CountInv, OnceInv, Ever
  <2>3. Idle => riskToCome = 0 /\ orderToCome = 0
    BY <1>1, CountType DEF Idle, WayInv
  <2>4. Idle /\ o \in expected => order + orderToCome >= 1
    <3>1. Idle => ~Awaits(stack, subscribers["ORDER_SUBMITTED"], o)
      BY DEF Idle, Awaits
    <3>2. QED
      BY <1>1, <3>1 DEF VerdictInv, DueInv, Due, Ever
  <2>5. ASSUME NEW x, NEW y, <<x, y>> \in Sequels
        PROVE  \A i \in Times(y, o) : \E j \in Times(x, o) : j < i
    <3>1. Precedes(Ev(x, o), Ev(y, o))
      <4> DEFINE pair == <<x, y>>
      <4>1. pair[1] = x /\ pair[2] = y /\ pair \in Sequels
        BY <2>5
      <4> HIDE DEF pair
      <4>2. Precedes(Ev(pair[1], o), Ev(pair[2], o))
        BY <1>1, <4>1 DEF VerdictInv, SequelInv
      <4>3. QED
        BY <4>1, <4>2
    <3>2. QED
      BY <3>1 DEF Precedes, Times, Ev
  <2>6. /\ \A i \in accepted : \E j \in approved : j < i
        /\ \A i \in rejected : \E j \in denied : j < i
        /\ \A i \in filled : \E j \in accepted : j < i
    BY <2>5 DEF Sequels
  <2>7. Idle /\ o \in expected => accepted \cup rejected # {}
    <3>1. IsFiniteSet({}) /\ Cardinality({}) = 0
      BY FS_EmptySet
    <3> HIDE DEF accepted, rejected, order, orderToCome
    <3>2. QED
      BY <2>1, <2>3, <2>4, <3>1
  <2>8. /\ o \notin disturbed => Cardinality(approved \cup denied) <= 1
        /\ Idle => Cardinality(accepted \cup rejected) = Cardinality(approved \cup denied)
    <3> HIDE DEF accepted, rejected, approved, denied, risk, order, riskToCome, orderToCome
    <3>1. QED
      BY <2>1, <2>2, <2>3
  <2>9. QED
    BY <2>6, <2>7, <2>8, Zenon
<1>2. TypesInv => WayInv /\ SessionInv
  BY DEF TypesInv
<1>3. QED
  BY <1>1, <1>2, TypesAlways, VerdictAlways, PTL
=============================================================================
