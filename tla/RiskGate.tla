------------------------------ MODULE RiskGate ------------------------------
(***************************************************************************)
(* Orders on the bus: they are published at once or through the queue, the *)
(* risk gate judges them, and the simulated venue of the event-driven      *)
(* backtest (backtest/event_engine.py) fills what was accepted.  An        *)
(* application listens too: it may answer any event with orders of its own *)
(* or with reports of positions, tell the kill switch of a trade, or stop  *)
(* the gate.  All of this happens inside the calls of publish().           *)
(***************************************************************************)
EXTENDS PreTradeRisk

CONSTANTS
  Orders,      \* order ids; each is submitted once
  Trades,      \* [capital, daily, last]: what update() is told
  MaxTime,     \* bound: ticks of the clock
  MaxActs      \* bound: what the application does, orders aside

Types == {"ORDER_SUBMITTED", "POSITION_UPDATED", "RISK_APPROVED", "RISK_DENIED",
          "ORDER_ACCEPTED", "ORDER_REJECTED", "ORDER_FILLED"}

ASSUME GateAssumption ==
  /\ Types \subseteq EventTypes
  /\ {"gate", "venue", "application"} \subseteq Handlers
  /\ Subjects = Orders \cup Portfolios
  /\ Trades \subseteq [capital : Nat, daily : Int, last : Int]
  /\ MaxTime \in Nat /\ MaxActs \in Nat

VARIABLES
  submitted,   \* orders that were published or queued
  acts,        \* what the application has done
  expected,    \* history: orders the gate must judge
  disturbed,   \* history: orders the gate was started in the middle of
  approvals,   \* history: when orders were approved
  inFlight     \* history: orders approved, not yet accepted when the switch tripped

sessionVars == <<submitted, acts, expected, disturbed, approvals, inFlight>>
vars == <<busVars, killSwitchVars, now, riskVars, sessionVars>>

TypeOK ==
  /\ BusTypeOK
  /\ KillSwitchTypeOK
  /\ RiskTypeOK
  /\ submitted \subseteq Orders
  /\ acts \in 0 .. MaxActs
  /\ expected \subseteq submitted
  /\ disturbed \subseteq submitted
  /\ approvals \in Seq(0 .. now)
  /\ inFlight \subseteq submitted

(* The application subscribed before or after the gate and the venue. *)
Init ==
  /\ \E first \in BOOLEAN :
       subscribers = [t \in EventTypes |->
         LET own == CASE t \in GateTypes       -> <<"gate">>
                      [] t = "ORDER_ACCEPTED" -> <<"venue">>
                      [] OTHER                -> <<>>
         IN IF first THEN <<"application">> \o own ELSE own \o <<"application">>]
  /\ queue = <<>>
  /\ published = <<>>
  /\ stack = <<>>
  /\ KillSwitchInit
  /\ now = 0
  /\ orderTimes = <<>>
  /\ positions \in {p \in Portfolios : Open(p) = {}}
  /\ capital \in Capitals
  /\ submitted = {}
  /\ acts = 0
  /\ expected = {}
  /\ disturbed = {}
  /\ approvals = <<>>
  /\ inFlight = {}

-----------------------------------------------------------------------------
OrderEvent(o) == [type |-> "ORDER_SUBMITTED", about |-> o]
PositionEvent(p) == [type |-> "POSITION_UPDATED", about |-> p]

(* A call of the bus: a publish of an order begins when the gate listens,   *)
(* and then the gate has to judge it.                                       *)
BusStep ==
  /\ \/ /\ Begin
        /\ LET e == Head(stack).event
           IN expected' = IF e.type = "ORDER_SUBMITTED" /\ Subscribed(e.type, "gate")
                          THEN expected \cup {e.about} ELSE expected
     \/ (Return \/ Consume) /\ UNCHANGED expected
  /\ UNCHANGED <<killSwitchVars, now, riskVars, submitted, acts, disturbed, approvals, inFlight>>

GateStep ==
  /\ GateTurn
  /\ approvals' = IF Head(stack).event.type = "ORDER_SUBMITTED" /\ Approves
                  THEN Append(approvals, now) ELSE approvals
  /\ UNCHANGED <<submitted, acts, expected, disturbed, inFlight>>

(* _on_order_accepted(): the fill model fills the order or does not. *)
VenueStep ==
  \E o \in Orders :
    /\ Turn("venue", [type |-> "ORDER_ACCEPTED", about |-> o])
    /\ Answers(<<[type |-> "ORDER_FILLED", about |-> o]>>) \/ Answers(<<>>)
    /\ UNCHANGED <<subscribers, queue, published, killSwitchVars, now, riskVars, sessionVars>>

(* An order is submitted once: inside the call of the application, from     *)
(* outside of any call, or through the queue.                               *)
SubmitOrder(o) ==
  /\ o \notin submitted
  /\ submitted' = submitted \cup {o}
  /\ \/ Publish(OrderEvent(o))
     \/ /\ Idle
        /\ PublishAsync(OrderEvent(o))
        /\ UNCHANGED <<subscribers, published, stack>>
     \/ /\ \E e \in Event : Turn("application", e)
        /\ \/ Answers(<<OrderEvent(o)>>) /\ UNCHANGED queue
           \/ Answers(<<>>) /\ PublishAsync(OrderEvent(o))
        /\ UNCHANGED <<subscribers, published>>
  /\ UNCHANGED <<killSwitchVars, now, riskVars, acts, expected, disturbed, approvals, inFlight>>

(* The application is called and does nothing. *)
Ignore ==
  /\ \E e \in Event : Turn("application", e)
  /\ Answers(<<>>)
  /\ UNCHANGED <<subscribers, queue, published, killSwitchVars, now, riskVars, sessionVars>>

(* The application acts, called by the bus or of itself. *)
Acts ==
  /\ acts < MaxActs
  /\ acts' = acts + 1
  /\ \/ Idle /\ UNCHANGED stack
     \/ (\E e \in Event : Turn("application", e)) /\ Answers(<<>>)
  /\ UNCHANGED <<queue, published, now, submitted, approvals>>

Approved(o) == [event |-> [type |-> "ORDER_ACCEPTED", about |-> o], next |-> 0] \in ToSet(stack)

TellKillSwitch(trade) ==
  /\ Acts
  /\ Update(trade.capital, trade.daily, trade.last)
  /\ inFlight' = IF triggered' /\ ~triggered THEN {o \in submitted : Approved(o)} ELSE inFlight
  /\ UNCHANGED <<subscribers, riskVars, expected, disturbed>>

ResetKillSwitch ==
  /\ Acts
  /\ Reset
  /\ UNCHANGED <<subscribers, riskVars, expected, disturbed, inFlight>>

DisarmKillSwitch ==
  /\ Acts
  /\ Disarm
  /\ UNCHANGED <<subscribers, riskVars, expected, disturbed, inFlight>>

(* Orders whose publish is in progress. *)
Passing == {o \in Orders : \E i \in DOMAIN stack : stack[i].event = OrderEvent(o)}

(* An order in progress may now miss the gate: the list has got shorter. *)
StopGate ==
  /\ Acts
  /\ Stop
  /\ expected' = expected \ Passing
  /\ UNCHANGED <<killSwitchVars, riskVars, disturbed, inFlight>>

(* An order in progress may now meet the gate a second time, at the end of  *)
(* the list.                                                                *)
StartGate ==
  /\ Acts
  /\ Start
  /\ disturbed' = disturbed \cup Passing
  /\ UNCHANGED <<killSwitchVars, riskVars, expected, inFlight>>

(* set_positions() and set_capital(), between calls. *)
SetLimits ==
  /\ Idle
  /\ Acts
  /\ (\E p \in Portfolios : SetPositions(p)) \/ (\E c \in Capitals : SetCapital(c))
  /\ UNCHANGED <<subscribers, killSwitchVars, expected, disturbed, inFlight>>

ReportPositions(p) ==
  /\ acts < MaxActs
  /\ acts' = acts + 1
  /\ \/ Publish(PositionEvent(p))
     \/ /\ \E e \in Event : Turn("application", e)
        /\ Answers(<<PositionEvent(p)>>)
        /\ UNCHANGED <<subscribers, queue, published>>
  /\ UNCHANGED <<killSwitchVars, now, riskVars, submitted, expected, disturbed, approvals, inFlight>>

(* Time passes between calls and in the application; it would make no       *)
(* difference elsewhere, for only OnOrder reads the clock.                  *)
Tick ==
  /\ now < MaxTime
  /\ Idle \/ \E e \in Event : Turn("application", e)
  /\ now' = now + 1
  /\ UNCHANGED <<busVars, killSwitchVars, riskVars, sessionVars>>

Next ==
  \/ BusStep
  \/ GateStep
  \/ VenueStep
  \/ \E o \in Orders : SubmitOrder(o)
  \/ Ignore
  \/ \E trade \in Trades : TellKillSwitch(trade)
  \/ ResetKillSwitch
  \/ DisarmKillSwitch
  \/ StopGate
  \/ StartGate
  \/ SetLimits
  \/ \E p \in Portfolios : ReportPositions(p)
  \/ Tick

Spec == Init /\ [][Next]_vars

-----------------------------------------------------------------------------
(* In no minute are more orders approved than max_orders_per_minute, also   *)
(* when orders are submitted while the verdict of another is published, and *)
(* when the gate is stopped and started.                                    *)
RateIsKept ==
  \A t \in 0 .. now :
    Cardinality({i \in DOMAIN approvals : t - Minute < approvals[i] /\ approvals[i] <= t})
      <= MaxPerMinute

Times(type, o) == {i \in DOMAIN published : published[i] = [type |-> type, about |-> o]}

(* An order gets one verdict, however the calls are nested: never a second  *)
(* one, unless the gate was started in the middle of it, the order verdict  *)
(* only after the risk verdict it agrees with, a fill only after it was     *)
(* accepted; and when no call is in progress, all orders that were          *)
(* published while the gate listened have got their verdict.                *)
OneVerdictEach ==
  \A o \in Orders :
    LET approved == Times("RISK_APPROVED", o)
        accepted == Times("ORDER_ACCEPTED", o)
        denied   == Times("RISK_DENIED", o)
        rejected == Times("ORDER_REJECTED", o)
    IN /\ o \notin disturbed => Cardinality(approved \cup denied) <= 1
       /\ \A i \in accepted : \E j \in approved : j < i
       /\ \A i \in rejected : \E j \in denied : j < i
       /\ \A i \in Times("ORDER_FILLED", o) : \E j \in accepted : j < i
       /\ Idle => Cardinality(accepted \cup rejected) = Cardinality(approved \cup denied)
       /\ Idle /\ o \in expected => accepted \cup rejected # {}

(* Once the kill switch has tripped, and until it is reset, only orders are *)
(* accepted or filled that had been approved before, and whose approval was *)
(* still being published.  (kill_switch.py speaks of all orders; these few  *)
(* the gate does not take back.)                                            *)
TripStopsOrders ==
  [][published' # published /\ triggered =>
       LET e == Last(published')
       IN e.type = "ORDER_ACCEPTED" => e.about \in inFlight]_vars
=============================================================================
